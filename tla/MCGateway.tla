------------------------------ MODULE MCGateway ------------------------------
(***************************************************************************)
(* Gateway on a small instance: one user and one operator.                 *)
(***************************************************************************)
EXTENDS Gateway

MCIds == <<"id1", "id2">>
MCSubjects == {"alice", "oper"}
MCOperators == {"oper"}
=============================================================================
