------------------------ MODULE RequestPipelineProofs ------------------------
(***************************************************************************)
(* The three services together keep the promise of EventDelivery, for any  *)
(* number of requests, handlers, events, faults and any batch size.  Each  *)
(* service is first shown to meet the environment the other modules assume *)
(* of it, so that their invariants hold in the composition.                *)
(***************************************************************************)
EXTENDS RequestPipeline, TLAPS

\* The time the provers get for a step, whatever the machine.
USE SMTT(20), ZenonT(20)

DP == INSTANCE DomainServiceProofs

PP == INSTANCE OutboxPublisherProofs WITH
       Rows <- D!Events, Routes <- eventSubjects,
       MaxFaults <- MaxPublisherFaults, faults <- publisherFaults

WP == INSTANCE WorkerProofs WITH
       Messages <- Sent,
       NoId <- 0, ApplierMayFail <- FALSE,
       MaxMessages <- MaxEvents + MaxPublisherFaults,
       MaxFaults <- MaxWorkerFaults, faults <- workerFaults

-----------------------------------------------------------------------------
\* DP, PP and WP, instances of the proof modules, repeat the definitions of D,
\* P and W: the rows of the outbox are the same.
LEMMA SameEvents == DP!Events = D!Events
  BY DEF DP!Events, D!Events, DP!EventTypes, D!EventTypes, DP!Statuses,
         D!Statuses, DP!Absent, D!Absent

\* The steps of the domain service are the same in DP as in D.
LEMMA SameDomainSteps == DP!Next <=> D!Next
  BY DEF DP!Next, D!Next, DP!Call, D!Call, DP!CreateRequest, D!CreateRequest,
         DP!LoadRequest, D!LoadRequest, DP!StampUpdate, D!StampUpdate,
         DP!Persist, D!Persist, DP!PersistFails, D!PersistFails, DP!Restart,
         D!Restart, DP!Tick, D!Tick, DP!Answer, D!Answer, DP!Proceed,
         D!Proceed, DP!Fresh, D!Fresh, DP!CreateCheck, D!CreateCheck,
         DP!UpdateCheck, D!UpdateCheck, DP!LoadCheck, D!LoadCheck,
         DP!CreateInputs, D!CreateInputs, DP!UpdateInputs, D!UpdateInputs,
         DP!Roles, D!Roles, DP!Statuses, D!Statuses, DP!Absent, D!Absent,
         DP!CanTransition, D!CanTransition, DP!transitions, D!transitions

\* The steps of the worker are the same in WP as in W.
LEMMA SameWorkerSteps ==
  /\ WP!Subscribe <=> W!Subscribe
  /\ WP!Callback <=> W!Callback
  /\ WP!Failure <=> W!Failure
  /\ (\E p \in 1..Len(stream) : WP!Deliver(p) \/ WP!Handle(p))
       <=> (\E p \in 1..Len(stream) : W!Deliver(p) \/ W!Handle(p))
  BY DEF WP!Subscribe, W!Subscribe, WP!Callback, W!Callback, WP!MarkProcessed, W!MarkProcessed, WP!Apply,
         W!Apply, WP!Ack, W!Ack, WP!Failure, W!Failure, WP!MarkFails,
         W!MarkFails, WP!ApplyFails, W!ApplyFails, WP!AckLost, W!AckLost,
         WP!Restart, W!Restart, WP!Deliver, W!Deliver, WP!Handle, W!Handle,
         WP!Leave, W!Leave, WP!Known, W!Known, WP!Become, W!Become, WP!Fault, W!Fault, WP!Subscribed, W!Subscribed,
         WP!Valid, W!Valid, WP!supportedEventTypes, W!supportedEventTypes

\* The steps of the publisher, and the events it has stored, are the same in
\* PP as in P.
LEMMA SamePublisherSteps ==
  /\ PP!Poll <=> P!Poll
  /\ PP!Failure <=> P!Failure
  /\ PP!Stored = P!Stored
  BY DEF PP!Poll, P!Poll, PP!Fetch, P!Fetch, PP!Unroutable, P!Unroutable,
         PP!Publish, P!Publish, PP!MarkPublished, P!MarkPublished, PP!Failure,
         P!Failure, PP!AddStream, P!AddStream, PP!StartFails, P!StartFails,
         PP!PublishFails, P!PublishFails, PP!MarkFails,
         P!MarkFails, PP!Restart, P!Restart, PP!Abandon, P!Abandon,
         PP!GoTo, P!GoTo,
         PP!Continue, P!Continue, PP!Fault, P!Fault, PP!Message, P!Message,
         PP!Stored, P!Stored, PP!Batches, P!Batches, PP!IsBatch, P!IsBatch,
         PP!Unpublished, P!Unpublished, PP!Positions, P!Positions, PP!IsInjective, P!IsInjective,
         PP!Range, P!Range

\* The initial states are the same in the instances of the proof modules.
LEMMA SameInit == (D!Init <=> DP!Init) /\ (P!Init <=> PP!Init) /\ (W!Init <=> WP!Init)
  BY DEF D!Init, DP!Init, P!Init, PP!Init, W!Init, WP!Init,
         D!Absent, DP!Absent, W!Ids, WP!Ids

\* The assumptions of the three modules hold of the constants given to them.
LEMMA Constants ==
  /\ DP!DomainAssumption
  /\ PP!PublisherAssumption
  /\ WP!WorkerAssumption
<1>1. DP!DomainAssumption
  BY PipelineAssumption, SameEvents
<1>2. PP!PublisherAssumption
  BY PipelineAssumption DEF D!Events
<1>3. WP!WorkerAssumption
  BY PipelineAssumption
<1>4. QED
  BY <1>1, <1>2, <1>3

-----------------------------------------------------------------------------
\* To the domain service, the composition is the domain service.
THEOREM DomainRuns == Spec => []DP!IInv
<1>1. Init => DP!Init
  BY SameInit DEF Init
<1>2. [Next]_vars => [DP!Next]_DP!domainVars
  <2> SUFFICES ASSUME [Next]_vars PROVE [DP!Next]_DP!domainVars
    OBVIOUS
  <2>1. CASE DomainStep
    BY <2>1, SameDomainSteps DEF DomainStep
  <2>2. CASE PublisherStep
    <3>1. outbox' = outbox
      BY <2>2 DEF PublisherStep, P!Poll, P!Failure, P!AddStream, P!StartFails, P!Fetch,
                  P!Unroutable, P!Publish,
                  P!MarkPublished, P!PublishFails, P!MarkFails, P!Restart
    <3>2. QED
      BY <2>2, <3>1 DEF PublisherStep, domainOwn, DP!domainVars
  <2>3. CASE WorkerStep
    BY <2>3 DEF WorkerStep, domainOwn, DP!domainVars
  <2>4. CASE UNCHANGED vars
    BY <2>4 DEF vars, domainOwn, DP!domainVars
  <2>5. QED
    BY <2>1, <2>2, <2>3, <2>4 DEF Next
<1>3. DP!Spec => []DP!IInv
  BY DP!Inductive, Constants
<1>4. QED
  BY <1>1, <1>2, <1>3, PTL DEF Spec, DP!Spec

\* A step of the domain service inserts one row or leaves the outbox alone.
LEMMA DomainInserts ==
  ASSUME DP!IInv, D!Next
  PROVE  outbox' = outbox \/ \E row \in D!Events : /\ Len(outbox) < MaxEvents
                                                  /\ outbox' = Append(outbox, row)
<1>1. ASSUME NEW h \in Handlers, D!Persist(h)
      PROVE  \E row \in D!Events : /\ Len(outbox) < MaxEvents
                                   /\ outbox' = Append(outbox, row)
  <2>1. event[h] \in D!Events
    BY <1>1, SameEvents DEF DP!IInv, DP!CallsInFlight, D!Persist
  <2>2. QED
    BY <1>1, <2>1 DEF D!Persist
<1>2. QED
  BY <1>1, Zenon DEF D!Next, D!Call, D!CreateRequest, D!LoadRequest, D!StampUpdate,
              D!PersistFails, D!Restart, D!Tick

\* To the publisher, the rest of the composition only inserts rows.
THEOREM PublisherRuns == Spec => PP!Spec /\ []PP!IInv /\ []PP!CopiesInv
<1>1. Init => PP!Init
  BY SameInit DEF Init
<1>2. DP!IInv /\ [Next]_vars => [PP!Next]_PP!publisherVars
  <2> SUFFICES ASSUME DP!IInv, [Next]_vars PROVE [PP!Next]_PP!publisherVars
    OBVIOUS
  <2>1. CASE DomainStep
    BY <2>1, DomainInserts
    DEF DomainStep, publisherOwn, PP!Next, PP!Insert, PP!publisherVars
  <2>2. CASE PublisherStep
    BY <2>2, SamePublisherSteps DEF PublisherStep, PP!Next
  <2>3. CASE WorkerStep
    <3>1. UNCHANGED <<created, stream>>
      BY <2>3 DEF WorkerStep, W!Subscribe, W!Deliver, W!Handle, W!Callback, W!MarkProcessed, W!Apply,
                  W!Ack, W!Failure, W!MarkFails, W!ApplyFails, W!AckLost, W!Restart
    <3>2. QED
      BY <2>3, <3>1 DEF WorkerStep, publisherOwn, PP!publisherVars
  <2>4. CASE UNCHANGED vars
    BY <2>4 DEF vars, publisherOwn, PP!publisherVars
  <2>5. QED
    BY <2>1, <2>2, <2>3, <2>4 DEF Next
<1>3. PP!Spec => []PP!IInv /\ []PP!CopiesInv
  BY PP!Inductive, PP!CopiesCounted, Constants
<1>4. QED
  BY <1>1, <1>2, <1>3, DomainRuns, PTL DEF Spec, PP!Spec

\* The domain service is the environment OutboxPublisher assumes.
THEOREM PublisherEnvironment == Spec => PublisherAssumptions
<1>1. PP!Next <=> P!Next
  BY SamePublisherSteps DEF PP!Next, P!Next, PP!Insert, P!Insert
<1>2. [PP!Next]_PP!publisherVars <=> [P!Next]_P!publisherVars
  BY <1>1 DEF PP!publisherVars, P!publisherVars
<1>3. QED
  BY <1>2, SameInit, PublisherRuns, PTL DEF PublisherAssumptions, P!Spec, PP!Spec

-----------------------------------------------------------------------------
\* What the publisher stores is a message the worker's module knows, and
\* there is room for it: at most one copy for each row and each fault.
LEMMA PublisherStores ==
  ASSUME PP!IInv, PP!CopiesInv, P!Poll \/ P!Failure
  PROVE  \/ stream' = stream
         \/ /\ step = "publish" /\ created # {} /\ UNCHANGED created
            /\ Head(batch) \in 1..Len(outbox)
            /\ PP!Message(Head(batch)) \in Sent
            /\ Len(stream) < MaxEvents + MaxPublisherFaults
            /\ stream' = Append(stream, PP!Message(Head(batch)))
            /\ marked' = marked
<1>1. \/ stream' = stream
      \/ /\ step = "publish" /\ UNCHANGED created
         /\ stream' = Append(stream, PP!Message(Head(batch)))
         /\ outbox[Head(batch)].type \in DOMAIN eventSubjects
         /\ marked' = marked
  BY DEF P!Poll, P!Failure, P!AddStream, P!StartFails, P!Fetch, P!Unroutable, P!Publish, P!MarkPublished,
         P!PublishFails, P!MarkFails, P!Restart, P!Message, PP!Message
<1>2. SUFFICES ASSUME step = "publish", outbox[Head(batch)].type \in DOMAIN eventSubjects,
                      P!Publish \/ P!PublishFails
               PROVE  /\ created # {}
                      /\ Head(batch) \in 1..Len(outbox)
                      /\ PP!Message(Head(batch)) \in Sent
                      /\ Len(stream) < MaxEvents + MaxPublisherFaults
  BY <1>1 DEF P!Poll, P!Failure, P!AddStream, P!StartFails, P!Fetch, P!Unroutable, P!MarkPublished,
              P!MarkFails, P!Restart
<1>3. Len(outbox) \in Nat /\ Len(outbox) <= MaxEvents /\ Len(stream) \in Nat
  BY DEF PP!IInv, PP!TypeOK
<1>4. Head(batch) \in 1..Len(outbox) /\ Head(batch) \notin marked
  <2>1. PP!TypeOK /\ step \in {"publish", "mark"}
    BY <1>2, Zenon DEF PP!IInv
  <2>2. /\ Len(batch) \in Nat /\ Len(batch) >= 1
        /\ Head(batch) = batch[1] /\ Head(batch) \in PP!Positions
    BY <2>1, PP!BatchHead, Constants, Zenon
  <2>3. \A k \in 1..Len(batch) : batch[k] \notin marked
    BY Zenon DEF PP!IInv, PP!BatchInv
  <2>4. 1 \in 1..Len(batch)
    BY <2>2
  <2>5. QED
    BY <2>2, <2>3, <2>4, Zenon DEF PP!Positions
<1>5. PP!Message(Head(batch)) \in Sent
  BY <1>2, <1>3, <1>4, PipelineAssumption DEF PP!Message, Ids, Sent
<1>6. QED
  BY <1>2, <1>4, <1>5, PP!RoomToPublish, Constants DEF PP!IInv, PP!TypeOK

\* To the worker, the rest of the composition only stores messages.
THEOREM WorkerRuns == Spec => WP!Spec /\ []WP!IInv
<1>1. Init => WP!Init
  BY SameInit DEF Init
<1>2. PP!IInv /\ PP!CopiesInv /\ [Next]_vars => [WP!Next]_WP!workerVars
  <2> SUFFICES ASSUME PP!IInv, PP!CopiesInv, [Next]_vars PROVE [WP!Next]_WP!workerVars
    OBVIOUS
  <2>1. CASE DomainStep
    BY <2>1 DEF DomainStep, workerOwn, WP!workerVars
  <2>2. CASE PublisherStep
    <3>1. UNCHANGED workerOwn
      BY <2>2 DEF PublisherStep
    <3>2. CASE stream' = stream
      <4>1. \/ created' = created
            \/ created = {} /\ created' = {"REQUESTS"}
        BY <2>2, Zenon DEF PublisherStep, PP!IInv, PP!TypeOK, P!Poll, P!Failure, P!AddStream,
                    P!StartFails, P!Fetch, P!Unroutable, P!Publish, P!MarkPublished,
                    P!PublishFails, P!MarkFails, P!Restart
      <4>2. QED
        BY <3>1, <3>2, <4>1 DEF workerOwn, WP!workerVars, WP!Next, WP!CreateStream
    <3>3. CASE stream' # stream
      <4>1. PICK m \in Sent :
              /\ created # {} /\ UNCHANGED created
              /\ Len(stream) < MaxEvents + MaxPublisherFaults
              /\ stream' = Append(stream, m)
        BY <2>2, <3>3, PublisherStores DEF PublisherStep
      <4>2. QED
        BY <3>1, <4>1 DEF workerOwn, WP!Next, WP!Store
    <3>4. QED
      BY <3>2, <3>3
  <2>3. CASE WorkerStep
    BY <2>3, SameWorkerSteps DEF WorkerStep, WP!Next
  <2>4. CASE UNCHANGED vars
    BY <2>4 DEF vars, workerOwn, WP!workerVars
  <2>5. QED
    BY <2>1, <2>2, <2>3, <2>4 DEF Next
<1>3. WP!Spec => []WP!IInv
  BY WP!Inductive, Constants
<1>4. QED
  BY <1>1, <1>2, <1>3, PublisherRuns, PTL DEF Spec, WP!Spec

\* The publisher is the environment Worker assumes.
THEOREM WorkerEnvironment == Spec => WorkerAssumptions
<1>1. WP!Next <=> W!Next
  BY SameWorkerSteps DEF WP!Next, W!Next, WP!CreateStream, W!CreateStream, WP!Store, W!Store
<1>2. [WP!Next]_WP!workerVars <=> [W!Next]_W!workerVars
  BY <1>1 DEF WP!workerVars, W!workerVars
<1>3. QED
  BY <1>2, SameInit, WorkerRuns, PTL DEF WorkerAssumptions, W!Spec, WP!Spec

-----------------------------------------------------------------------------
\* A step of the domain service commits an event, or is invisible.
LEMMA DomainDelivers ==
  ASSUME DP!IInv, DomainStep
  PROVE  [Delivery!Next]_Delivery!deliveryVars
<1>1. UNCHANGED <<stream, marked, applied>>
  BY DEF DomainStep, publisherOwn, workerOwn
<1>2. P!Stored' = P!Stored
  BY <1>1 DEF P!Stored
<1>3. Len(outbox) \in Nat
  BY DEF DP!IInv, DP!TypeOK
<1>4. CASE outbox' = outbox
  BY <1>1, <1>2, <1>4 DEF Delivery!deliveryVars
<1>5. CASE \E row \in D!Events : Len(outbox) < MaxEvents /\ outbox' = Append(outbox, row)
  <2>1. Len(outbox') = Len(outbox) + 1 /\ Len(outbox) < MaxEvents
    BY <1>5, SameEvents DEF DP!IInv, DP!TypeOK
  <2>2. /\ Len(outbox) + 1 \in Ids /\ Len(outbox) + 1 \notin 1..Len(outbox)
        /\ 1..Len(outbox') = (1..Len(outbox)) \cup {Len(outbox) + 1}
    BY <1>3, <2>1, PipelineAssumption DEF Ids
  <2>3. QED
    BY <1>1, <1>2, <2>2 DEF Delivery!Next, Delivery!Commit
<1>6. QED
  BY <1>4, <1>5, DomainInserts DEF DomainStep

\* A step of the publisher publishes an event, settles one it published
\* before, or is invisible.
LEMMA PublisherDelivers ==
  ASSUME PP!IInv, PP!CopiesInv, PublisherStep
  PROVE  [Delivery!Next]_Delivery!deliveryVars
<1>1. applied' = applied /\ outbox' = outbox
  BY DEF PublisherStep, workerOwn, P!Poll, P!Failure, P!AddStream, P!StartFails, P!Fetch,
                  P!Unroutable, P!Publish,
         P!MarkPublished, P!PublishFails, P!MarkFails, P!Restart
<1>2. Len(outbox) \in Nat /\ Len(outbox) <= MaxEvents /\ 1..Len(outbox) \subseteq Ids
  BY PipelineAssumption DEF PP!IInv, PP!TypeOK, Ids
<1>3. CASE stream' # stream
  <2>1. /\ Head(batch) \in 1..Len(outbox) /\ PP!Message(Head(batch)) \in Sent
        /\ step = "publish"
        /\ stream' = Append(stream, PP!Message(Head(batch)))
        /\ marked' = marked
    BY <1>3, PublisherStores DEF PublisherStep
  <2>2. outbox[Head(batch)].type \in DOMAIN eventSubjects
    BY <1>3 DEF PublisherStep, P!Poll, P!Failure, P!AddStream, P!StartFails, P!Fetch,
                  P!Unroutable, P!Publish,
                P!MarkPublished, P!PublishFails, P!MarkFails, P!Restart
  <2>3. PP!Stored' = PP!Stored \cup {Head(batch)}
    BY <2>1, <2>2, PP!StoreOne, PP!MessageType, Constants DEF PP!IInv, PP!Positions
  <2>4. P!Stored' = P!Stored \cup {Head(batch)}
    BY <2>3, Zenon DEF P!Stored, PP!Stored
  <2>5. QED
    BY <1>1, <1>2, <2>1, <2>4 DEF Delivery!Next, Delivery!Publish
<1>4. CASE stream' = stream /\ marked' = marked
  <2>1. P!Stored' = P!Stored
    BY <1>4 DEF P!Stored
  <2>2. QED
    BY <1>1, <1>4, <2>1 DEF Delivery!deliveryVars
<1>5. CASE stream' = stream /\ marked' # marked
  <2>1. P!Stored' = P!Stored
    BY <1>5 DEF P!Stored
  <2>2. step = "mark" /\ marked' = marked \cup {Head(batch)}
    BY <1>5 DEF PublisherStep, P!Poll, P!Failure, P!AddStream, P!StartFails, P!Fetch,
                  P!Unroutable, P!Publish,
                P!MarkPublished, P!PublishFails, P!MarkFails, P!Restart
  <2>3. Head(batch) \in P!Stored
    BY <2>2, SamePublisherSteps DEF PP!IInv, PP!Done
  <2>4. Head(batch) \in Ids
    BY <1>2, <2>2, PP!BatchHead, Constants DEF PP!IInv, PP!Positions
  <2>5. QED
    BY <1>1, <2>1, <2>2, <2>3, <2>4 DEF Delivery!Next, Delivery!Settle
<1>6. QED
  BY <1>3, <1>4, <1>5

\* A step of the worker applies a published event for the first time, or is
\* invisible.
LEMMA WorkerDelivers ==
  ASSUME WP!IInv, WorkerStep
  PROVE  [Delivery!Next]_Delivery!deliveryVars
<1>1. UNCHANGED <<outbox, marked, stream>>
  BY DEF WorkerStep, publisherOwn, W!Subscribe, W!Deliver, W!Handle, W!Callback, W!MarkProcessed,
         W!Apply, W!Ack, W!Failure, W!MarkFails, W!ApplyFails, W!AckLost, W!Restart
<1>2. P!Stored' = P!Stored
  BY <1>1 DEF P!Stored
<1>3. CASE applied' = applied
  BY <1>1, <1>2, <1>3 DEF Delivery!deliveryVars
<1>4. CASE applied' # applied
  <2> DEFINE e == stream[current].id
  <2>1. stage = "apply" /\ applied' = [applied EXCEPT ![e] = @ + 1]
    BY <1>4 DEF WorkerStep, W!Subscribe, W!Deliver, W!Handle, W!Callback, W!MarkProcessed,
                W!Apply, W!Ack, W!Failure, W!MarkFails, W!ApplyFails, W!AckLost, W!Restart
  <2>2. current \in 1..Len(stream) /\ e \in WP!Ids
    BY <2>1, WP!CurrentIsStored, Constants DEF WP!IInv
  <2>3. e \in P!Stored
    BY <2>2 DEF P!Stored
  <2>4. applied[e] = 0
    BY <2>1 DEF WP!IInv, WP!CallbackInv
  <2>5. applied' = [applied EXCEPT ![e] = 1]
    BY <2>1, <2>4
  <2>6. e \in Ids
    BY <2>2 DEF WP!Ids, Sent
  <2>7. QED
    BY <1>1, <1>2, <2>3, <2>4, <2>5, <2>6, Zenon DEF Delivery!Next, Delivery!Apply
<1>5. QED
  BY <1>3, <1>4

\* The outbox table, the stream and the effects of the three services behave
\* as EventDelivery: ADR-0003's promise, whatever fails and whatever is
\* delivered again.
THEOREM PipelineDelivers == Spec => DeliveryPromise
<1>1. Init => Delivery!Init
  <2> SUFFICES ASSUME Init PROVE Delivery!Init
    OBVIOUS
  <2>1. 1..Len(outbox) = {} /\ P!Stored = {} /\ marked = {}
    BY DEF Init, D!Init, P!Init, P!Stored
  <2>2. W!Ids = Ids
    <3>1. "request-created" \in DOMAIN eventSubjects
      BY DEF eventSubjects
    <3>2. ASSUME NEW i \in Ids PROVE \E m \in Sent : m.id = i
      <4> DEFINE m0 == [id |-> i, type |-> "request-created",
                        subject |-> eventSubjects["request-created"]]
      <4>1. m0 \in Sent /\ m0.id = i
        BY <3>1 DEF Sent
      <4>2. QED
        BY <4>1
    <3>3. \A m \in Sent : m.id \in Ids
      BY DEF Sent
    <3>4. QED
      BY <3>2, <3>3 DEF W!Ids
  <2>3. applied = [e \in Ids |-> 0]
    BY <2>2 DEF Init, W!Init
  <2>4. QED
    BY <2>1, <2>3 DEF Delivery!Init
<1>2. DP!IInv /\ PP!IInv /\ PP!CopiesInv /\ WP!IInv /\ [Next]_vars
        => [Delivery!Next]_Delivery!deliveryVars
  <2>1. ASSUME UNCHANGED vars PROVE UNCHANGED Delivery!deliveryVars
    BY <2>1 DEF vars, publisherOwn, workerOwn, P!Stored, Delivery!deliveryVars
  <2>2. QED
    BY <2>1, DomainDelivers, PublisherDelivers, WorkerDelivers DEF Next
<1>3. QED
  BY <1>1, <1>2, DomainRuns, PublisherRuns, WorkerRuns, PTL
  DEF Spec, DeliveryPromise, Delivery!Spec

=============================================================================
