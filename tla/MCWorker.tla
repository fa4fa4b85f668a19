------------------------------- MODULE MCWorker -------------------------------
(***************************************************************************)
(* Worker on a small instance: two creations, either of which may be       *)
(* stored more than once, an event of the other subject, and two events    *)
(* Handle refuses.                                                         *)
(***************************************************************************)
EXTENDS Worker

Created(i) == [id |-> i, type |-> "request-created", subject |-> "requests.created"]

MCMessages ==
  {Created(1), Created(2), Created(NoId),
   [id |-> 3, type |-> "request-status-changed", subject |-> "requests.status-changed"],
   [id |-> 4, type |-> "request-archived", subject |-> "requests.created"]}
=============================================================================
