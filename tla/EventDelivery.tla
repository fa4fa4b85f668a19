---------------------------- MODULE EventDelivery ----------------------------
(***************************************************************************)
(* What the asynchronous path of the reference application promises        *)
(* (docs/adr/0003-nats-outbox.md), without saying how: an event is         *)
(* committed with its request; only a committed event is published; the    *)
(* outbox forgets an event (settles it) only after it was published; and   *)
(* only a published event has an effect, which it has at most once.        *)
(***************************************************************************)
EXTENDS Naturals

CONSTANT Ids    \* event ids

VARIABLES
  committed,    \* events whose transaction committed
  published,    \* events the broker holds
  settled,      \* events the outbox will not publish again
  effects       \* how often each event was applied

deliveryVars == <<committed, published, settled, effects>>

Init ==
  /\ committed = {}
  /\ published = {}
  /\ settled   = {}
  /\ effects   = [e \in Ids |-> 0]

Commit(e) ==
  /\ e \notin committed
  /\ committed' = committed \cup {e}
  /\ UNCHANGED <<published, settled, effects>>

Publish(e) ==
  /\ e \in committed
  /\ published' = published \cup {e}
  /\ UNCHANGED <<committed, settled, effects>>

Settle(e) ==
  /\ e \in published
  /\ settled' = settled \cup {e}
  /\ UNCHANGED <<committed, published, effects>>

Apply(e) ==
  /\ e \in published
  /\ effects[e] = 0
  /\ effects' = [effects EXCEPT ![e] = 1]
  /\ UNCHANGED <<committed, published, settled>>

Next == \E e \in Ids : Commit(e) \/ Publish(e) \/ Settle(e) \/ Apply(e)

Spec == Init /\ [][Next]_deliveryVars
=============================================================================
