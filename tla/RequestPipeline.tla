--------------------------- MODULE RequestPipeline ---------------------------
(***************************************************************************)
(* The reference application from a gRPC call to the effect of its event:  *)
(* the domain service, the outbox publisher and the worker, each on its    *)
(* own, meeting in the outbox table and in the JetStream stream, and       *)
(* started in any order.  One replica of each runs (infra/staging).        *)
(***************************************************************************)
EXTENDS Naturals, Sequences

CONSTANTS
  Requests, Handlers, MaxTime, MaxEvents, NoEvent,  \* see DomainService
  BatchSize,                                        \* see OutboxPublisher
  MaxPublisherFaults, MaxWorkerFaults               \* bounds: faults of each

VARIABLES
  status, outbox, clock, pc, event, reply,          \* see DomainService
  marked, created, stream, batch, step, seen, publisherFaults,  \* see OutboxPublisher
  acked, inbox, current, stage, processed, applied, workerFaults  \* see Worker

Ids == 1..MaxEvents

\* eventSubjects of publisher/main.go.
eventSubjects ==
  [t \in {"request-created", "request-status-changed"} |->
     IF t = "request-created" THEN "requests.created" ELSE "requests.status-changed"]

D == INSTANCE DomainService

P == INSTANCE OutboxPublisher WITH
       Rows <- D!Events, Routes <- eventSubjects,
       MaxFaults <- MaxPublisherFaults, faults <- publisherFaults

\* What the three modules assume of their constants.
ASSUME PipelineAssumption ==
  /\ MaxTime \in Nat
  /\ MaxEvents \in Nat
  /\ NoEvent \notin D!Events
  /\ BatchSize \in Nat \ {0}
  /\ MaxPublisherFaults \in Nat
  /\ MaxWorkerFaults \in Nat

\* What the publisher can send.
Sent == {[id |-> i, type |-> t, subject |-> eventSubjects[t]] :
            i \in Ids, t \in DOMAIN eventSubjects}

W == INSTANCE Worker WITH
       Messages <- Sent,
       NoId <- 0, ApplierMayFail <- FALSE,
       MaxMessages <- MaxEvents + MaxPublisherFaults,
       MaxFaults <- MaxWorkerFaults, faults <- workerFaults

domainOwn    == <<status, clock, pc, event, reply>>
publisherOwn == <<marked, batch, step, seen, publisherFaults>>
workerOwn    == <<acked, inbox, current, stage, processed, applied, workerFaults>>
vars == <<domainOwn, outbox, publisherOwn, created, stream, workerOwn>>

-----------------------------------------------------------------------------
Init == D!Init /\ P!Init /\ W!Init

DomainStep == D!Next /\ UNCHANGED <<publisherOwn, created, stream, workerOwn>>

PublisherStep ==
  /\ P!Poll \/ P!Failure
  /\ UNCHANGED <<domainOwn, workerOwn>>

WorkerStep ==
  /\ \/ W!Subscribe
     \/ \E p \in 1..Len(stream) : W!Deliver(p) \/ W!Handle(p)
     \/ W!Callback
     \/ W!Failure
  /\ UNCHANGED <<domainOwn, outbox, publisherOwn>>

Next == DomainStep \/ PublisherStep \/ WorkerStep

Spec == Init /\ [][Next]_vars

\* The poller's ticker and the worker's subscription keep running, and
\* processes that exit are started again.
FairSpec == Spec /\ P!Fairness /\ W!Fairness

-----------------------------------------------------------------------------
\* The promise of ADR-0003, with the outbox as what is committed, the stream
\* as what is published and published_at as what is settled.
Delivery == INSTANCE EventDelivery WITH
              committed <- 1..Len(outbox),
              published <- P!Stored,
              settled   <- marked,
              effects   <- applied

\* The three services together keep the promise of EventDelivery: no event
\* without its commit, none forgotten before it is published, none applied
\* twice or before it is published.
DeliveryPromise == Delivery!Spec

\* To the publisher, the domain service is the environment OutboxPublisher
\* assumes; to the worker, the publisher is the one Worker assumes.
PublisherAssumptions == P!Spec
WorkerAssumptions == W!Spec

\* Every committed creation eventually has its effect, once, in whatever order
\* the services start (the worker cannot run before the publisher has created
\* the stream) and whatever fails in the domain service and the publisher;
\* only a fault of the worker can leave it recorded in processed_events
\* without having been applied.
CreationsTakeEffect ==
  \A i \in Ids :
    (i <= Len(outbox) /\ outbox[i].type = "request-created") ~>
      (i \in processed /\ (applied[i] = 1 \/ workerFaults > 0))
=============================================================================
