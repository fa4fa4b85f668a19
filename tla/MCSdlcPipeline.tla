---------------------------- MODULE MCSdlcPipeline ----------------------------
(***************************************************************************)
(* SdlcPipeline on a small instance: threat models with a risk of each     *)
(* disposition the schema lets through, alone and together.                *)
(***************************************************************************)
EXTENDS SdlcPipeline

Risk(severity, waiver) == [severity |-> severity, verified |-> TRUE, waiver |-> waiver]

MCIdeaIds == {<<"idea", 1>>, <<"idea", 2>>}
MCRiskSets == {{Risk("high", FALSE)}, {Risk("medium", TRUE)},
               {Risk("medium", FALSE), Risk("low", FALSE)}}
=============================================================================
