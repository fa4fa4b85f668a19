--------------------------- MODULE MCToolExecution ---------------------------
(***************************************************************************)
(* ToolExecution on a small instance: a tool of each scope, one that the   *)
(* policy allows and nobody registered, and one nobody knows.              *)
(***************************************************************************)
EXTENDS ToolExecution

MCTools == {"write_file", "open_pr", "read_file", "ghost"}
MCRegistered == [t \in {"write_file", "open_pr"} |->
                   IF t = "open_pr" THEN "vcs" ELSE "workspace"]
MCGrants == {"write_file", "open_pr", "read_file"} \X {"workspace"}
MCTracked == {<<"write_file", "plain", "EXECUTED">>,
              <<"write_file", "protected", "PROTECTED_PATH">>}
=============================================================================
