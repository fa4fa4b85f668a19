-------------------------- MODULE MCOutboxPublisher --------------------------
(***************************************************************************)
(* OutboxPublisher on a small instance.  A row is its type and the second  *)
(* it occurred in; rows come in any order of occurred_at, because the      *)
(* domain service reads its clock before it commits.                       *)
(***************************************************************************)
EXTENDS OutboxPublisher

CONSTANT Seconds   \* the clock readings rows may carry

eventSubjects ==
  [t \in {"request-created", "request-status-changed"} |->
     IF t = "request-created" THEN "requests.created" ELSE "requests.status-changed"]

\* A route table that lacks one of the two types.
createdOnly == [t \in {"request-created"} |-> "requests.created"]

MCRows == [type : DOMAIN eventSubjects, at : Seconds]
=============================================================================
