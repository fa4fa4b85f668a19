----------------------------- MODULE WorkerProofs -----------------------------
(***************************************************************************)
(* The worker applies no event twice, never tells JetStream to forget an   *)
(* event it has not recorded, and loses at most one application for each   *)
(* fault: for any set of messages and any number of redeliveries.          *)
(***************************************************************************)
EXTENDS Worker, FiniteSetTheorems, TLAPS

\* The time the provers get for a step, whatever the machine.
USE SMTT(20), ZenonT(20)

\* The ids applied at least once.
AppliedIds == {id \in Ids : applied[id] > 0}

\* What the callback knows of the event it works on: it has recorded it, and
\* when it is about to apply it nobody has.
CallbackInv ==
  /\ stage \in {"apply", "ack"} => stream[current].id \in processed
  /\ stage = "apply" => applied[stream[current].id] = 0

\* The inductive invariant: only recorded events are applied or acknowledged.
IInv ==
  /\ TypeOK
  /\ AppliedAtMostOnce
  /\ AppliedIds \subseteq processed
  /\ AckedAreProcessed
  /\ CallbackInv

-----------------------------------------------------------------------------
\* The callback, when it is busy, works on a stored message.
LEMMA CurrentIsStored ==
  ASSUME TypeOK, stage \notin {"down", "idle"}
  PROVE  /\ current \in 1..Len(stream)
         /\ stream[current] \in Messages
         /\ stream[current].id \in Ids
<1>1. current \in 1..Len(stream) /\ stream[current] \in Messages
  BY DEF TypeOK
<1>2. QED
  BY <1>1 DEF Ids

\* The creation of the stream, and the start of the worker, find nothing at
\* work.
LEMMA StartKeepsInv ==
  ASSUME IInv, CreateStream \/ Subscribe
  PROVE  IInv'
<1>1. UNCHANGED <<stream, acked, inbox, current, processed, applied, faults>>
  BY DEF CreateStream, Subscribe
<1>2. TypeOK'
  BY Zenon DEF IInv, TypeOK, CreateStream, Subscribe
<1>3. CallbackInv'
  BY <1>1 DEF IInv, CallbackInv, CreateStream, Subscribe
<1>4. QED
  BY <1>1, <1>2, <1>3 DEF IInv, AppliedAtMostOnce, AppliedIds, AckedAreProcessed

\* Store leaves the stored messages where they are.
LEMMA StoreKeepsInv ==
  ASSUME IInv, NEW m \in Messages, Store(m)
  PROVE  IInv'
<1>1. /\ stream' \in Seq(Messages) /\ Len(stream) \in Nat
      /\ Len(stream') = Len(stream) + 1
      /\ Len(stream') <= MaxMessages
      /\ \A p \in 1..Len(stream) : stream'[p] = stream[p]
  BY WorkerAssumption DEF IInv, TypeOK, Store
<1>2. TypeOK'
  <2>1. /\ created' = created /\ created # {} /\ created \subseteq {"REQUESTS"}
        /\ UNCHANGED <<acked, inbox, current, stage, processed, applied, faults>>
    BY DEF IInv, TypeOK, Store
  <2>2. acked' \subseteq 1..Len(stream') /\ inbox' \subseteq 1..Len(stream') /\ current' \in 0..Len(stream')
    BY <1>1, <2>1 DEF IInv, TypeOK
  <2>3. QED
    BY <1>1, <2>1, <2>2, Zenon DEF IInv, TypeOK
<1>3. AppliedAtMostOnce' /\ (AppliedIds \subseteq processed)'
  BY DEF IInv, AppliedAtMostOnce, AppliedIds, Store
<1>4. AckedAreProcessed'
  BY <1>1 DEF IInv, TypeOK, AckedAreProcessed, Store
<1>5. CallbackInv'
  <2>1. stage \in {"apply", "ack"} => stream'[current] = stream[current]
    BY <1>1, CurrentIsStored DEF IInv
  <2>2. QED
    BY <2>1, Zenon DEF IInv, CallbackInv, Store
<1>6. QED
  BY <1>2, <1>3, <1>4, <1>5 DEF IInv

\* A delivery, and the start of the callback, only move a position.
LEMMA DeliveryKeepsInv ==
  ASSUME IInv, NEW p \in 1..Len(stream), Deliver(p) \/ Handle(p)
  PROVE  IInv'
<1>1. UNCHANGED <<created, stream, acked, processed, applied, faults>>
  BY DEF Deliver, Handle
<1>2. TypeOK'
  <2>1. CASE Deliver(p)
    BY <2>1 DEF IInv, TypeOK, Deliver
  <2>2. CASE Handle(p)
    BY <2>2 DEF IInv, TypeOK, Handle, Leave, Become
  <2>3. QED
    BY <2>1, <2>2
<1>3. CallbackInv'
  BY <1>1 DEF IInv, CallbackInv, Deliver, Handle, Leave, Become
<1>4. QED
  BY <1>1, <1>2, <1>3 DEF IInv, AppliedAtMostOnce, AppliedIds, AckedAreProcessed

\* The dedupe step: an id that goes on to be applied was not recorded, and
\* so was not applied.
LEMMA MarkKeepsInv ==
  ASSUME IInv, MarkProcessed
  PROVE  IInv'
<1>1. /\ current \in 1..Len(stream) /\ stream[current].id \in Ids
  BY CurrentIsStored DEF IInv, MarkProcessed
<1>2. TypeOK'
  BY <1>1 DEF IInv, TypeOK, MarkProcessed, Known
<1>3. AppliedAtMostOnce' /\ (AppliedIds \subseteq processed)' /\ AckedAreProcessed'
  BY DEF IInv, AppliedAtMostOnce, AppliedIds, AckedAreProcessed, MarkProcessed
<1>4. stage' = "apply" => applied[stream[current].id] = 0
  <2> SUFFICES ASSUME stage' = "apply" PROVE applied[stream[current].id] = 0
    OBVIOUS
  <2>1. stream[current].id \notin AppliedIds
    BY DEF IInv, MarkProcessed, Known
  <2>2. applied[stream[current].id] \in Nat
    BY <1>1 DEF IInv, TypeOK
  <2>3. QED
    BY <1>1, <2>1, <2>2 DEF AppliedIds
<1>5. CallbackInv'
  BY <1>4 DEF CallbackInv, MarkProcessed
<1>6. QED
  BY <1>2, <1>3, <1>5 DEF IInv

\* The effect: the first one of its event.
LEMMA ApplyKeepsInv ==
  ASSUME IInv, Apply
  PROVE  /\ IInv'
         /\ AppliedIds' = AppliedIds \cup {stream[current].id}
         /\ stream[current].id \notin AppliedIds
<1> DEFINE e == stream[current].id
<1>1. /\ e \in Ids /\ applied[e] = 0 /\ e \in processed
  BY CurrentIsStored DEF IInv, CallbackInv, Apply
<1>2. /\ applied' \in [Ids -> Nat] /\ applied'[e] = 1
      /\ \A id \in Ids \ {e} : applied'[id] = applied[id]
  BY <1>1 DEF IInv, TypeOK, Apply
<1>3. AppliedIds' = AppliedIds \cup {e} /\ e \notin AppliedIds
  BY <1>1, <1>2 DEF AppliedIds
<1>4. AppliedAtMostOnce'
  BY <1>2 DEF IInv, AppliedAtMostOnce
<1>5. TypeOK'
  BY <1>2 DEF IInv, TypeOK, Apply
<1>6. AckedAreProcessed' /\ CallbackInv'
  BY <1>1 DEF IInv, AckedAreProcessed, CallbackInv, Apply
<1>7. (AppliedIds \subseteq processed)'
  BY <1>1, <1>3 DEF IInv, Apply
<1>8. QED
  BY <1>3, <1>4, <1>5, <1>6, <1>7 DEF IInv

\* The acknowledgement follows the record.
LEMMA AckKeepsInv ==
  ASSUME IInv, Ack
  PROVE  IInv'
<1>1. current \in 1..Len(stream) /\ stream[current].id \in processed
  BY CurrentIsStored DEF IInv, CallbackInv, Ack
<1>2. TypeOK'
  BY <1>1 DEF IInv, TypeOK, Ack, Leave, Become
<1>3. AckedAreProcessed'
  BY <1>1 DEF IInv, AckedAreProcessed, Ack
<1>4. QED
  BY <1>2, <1>3 DEF IInv, AppliedAtMostOnce, AppliedIds, CallbackInv, Ack, Leave, Become

\* A failure ends the callback and forgets no record.
LEMMA FailureKeepsInv ==
  ASSUME IInv, Failure
  PROVE  IInv'
<1>1. /\ UNCHANGED <<created, stream, acked, applied>>
      /\ current' = 0 /\ stage' \in {"down", "idle"} /\ (stage' = "idle" => stage # "down")
      /\ inbox' \in {inbox, {}} /\ faults' = faults + 1 /\ faults < MaxFaults
      /\ processed \subseteq processed'
  BY DEF Failure, MarkFails, ApplyFails, AckLost, Restart, Leave, Become, Fault
<1>2. processed' \subseteq Ids
  <2>1. CASE MarkFails
    BY <2>1, CurrentIsStored DEF IInv, TypeOK, MarkFails
  <2>2. CASE ~MarkFails
    BY <2>2 DEF Failure, ApplyFails, AckLost, Restart, IInv, TypeOK
  <2>3. QED
    BY <2>1, <2>2
<1>3. faults' \in 0..MaxFaults
  BY <1>1, WorkerAssumption DEF IInv, TypeOK
<1>4. TypeOK'
  BY <1>1, <1>2, <1>3 DEF IInv, TypeOK
<1>5. QED
  BY <1>1, <1>4
  DEF IInv, AppliedAtMostOnce, AppliedIds, AckedAreProcessed, CallbackInv

\* The first state.
LEMMA InitInv == Init => IInv
<1> SUFFICES ASSUME Init PROVE IInv
  OBVIOUS
<1>1. TypeOK
  BY WorkerAssumption DEF Init, TypeOK
<1>2. QED
  BY <1>1 DEF Init, IInv, AppliedAtMostOnce, AppliedIds, AckedAreProcessed, CallbackInv

\* Every step of the worker and of its environment keeps the invariant.
LEMMA NextInv == IInv /\ [Next]_workerVars => IInv'
<1> SUFFICES ASSUME IInv, [Next]_workerVars PROVE IInv'
  OBVIOUS
<1>1. CASE UNCHANGED workerVars
  BY <1>1 DEF workerVars, IInv, TypeOK, AppliedAtMostOnce, AppliedIds,
              AckedAreProcessed, CallbackInv
<1>2. QED
  BY <1>1, StartKeepsInv, StoreKeepsInv, DeliveryKeepsInv, MarkKeepsInv, ApplyKeepsInv,
     AckKeepsInv, FailureKeepsInv
  DEF Next, Callback

\* The inductive invariant holds in every reachable state.
THEOREM Inductive == Spec => []IInv
  BY InitInv, NextInv, PTL DEF Spec

\* Every variable keeps its type.
THEOREM TypeCorrect == Spec => []TypeOK
  BY Inductive, PTL DEF IInv

\* Deduplication works: no sequence of duplicates, redeliveries, lost
\* acknowledgements and restarts makes Handle apply an event twice.
THEOREM NoEventAppliedTwice == Spec => []AppliedAtMostOnce
  BY Inductive, PTL DEF IInv

\* JetStream is told to forget only what processed_events remembers.
THEOREM AcknowledgedAfterRecord == Spec => []AckedAreProcessed
  BY Inductive, PTL DEF IInv

-----------------------------------------------------------------------------
\* Recorded events, counted against the applied ones: one that is recorded
\* and not applied is about to be, or is charged to a fault.
Pending == IF stage = "apply" THEN 1 ELSE 0

LossInv ==
  /\ IsFiniteSet(processed)
  /\ Cardinality(processed) <= Cardinality(AppliedIds) + faults + Pending

\* One more element makes a finite set at most one larger.
LEMMA AddOne ==
  ASSUME NEW S, IsFiniteSet(S), NEW x
  PROVE  /\ IsFiniteSet(S \cup {x})
         /\ Cardinality(S) \in Nat
         /\ Cardinality(S \cup {x}) \in Nat
         /\ Cardinality(S \cup {x}) <= Cardinality(S) + 1
         /\ x \notin S => Cardinality(S \cup {x}) = Cardinality(S) + 1
<1>1. /\ IsFiniteSet(S \cup {x})
      /\ Cardinality(S \cup {x}) = IF x \in S THEN Cardinality(S) ELSE Cardinality(S) + 1
  BY FS_AddElement
<1>2. Cardinality(S) \in Nat
  BY FS_CardinalityType
<1>3. QED
  BY <1>1, <1>2

\* The sets that are counted are finite.
LEMMA Counts ==
  ASSUME IInv, LossInv
  PROVE  /\ IsFiniteSet(AppliedIds) /\ Cardinality(AppliedIds) \in Nat
         /\ Cardinality(processed) \in Nat
         /\ faults \in Nat
<1>1. IsFiniteSet(AppliedIds)
  BY FS_Subset DEF IInv, LossInv
<1>2. faults \in Nat
  BY WorkerAssumption DEF IInv, TypeOK
<1>3. QED
  BY <1>1, <1>2, FS_CardinalityType DEF LossInv

\* The dedupe step records at most one id, and then applies it.
LEMMA MarkLoss ==
  ASSUME IInv, LossInv, MarkProcessed
  PROVE  LossInv'
<1> DEFINE e == stream[current].id
<1>1. AppliedIds' = AppliedIds /\ faults' = faults /\ Pending = 0
  BY DEF MarkProcessed, AppliedIds, Pending
<1>2. CASE e \in processed
  <2>1. processed' = processed /\ Pending' = 0
    BY <1>2 DEF MarkProcessed, Known, Pending
  <2>2. QED
    BY <1>1, <2>1 DEF LossInv
<1>3. CASE e \notin processed
  <2>1. processed' = processed \cup {e} /\ Pending' = 1
    BY <1>3 DEF MarkProcessed, Known, Pending
  <2>2. /\ IsFiniteSet(processed \cup {e})
        /\ Cardinality(processed \cup {e}) \in Nat
        /\ Cardinality(processed \cup {e}) <= Cardinality(processed) + 1
    BY AddOne, Zenon DEF LossInv
  <2>3. QED
    BY <1>1, <2>1, <2>2, Counts DEF LossInv
<1>4. QED
  BY <1>2, <1>3

\* Applying moves one event from pending to applied.
LEMMA ApplyLoss ==
  ASSUME IInv, LossInv, Apply
  PROVE  LossInv'
<1> DEFINE e == stream[current].id
<1>1. AppliedIds' = AppliedIds \cup {e} /\ e \notin AppliedIds
  BY ApplyKeepsInv
<1>2. processed' = processed /\ faults' = faults /\ Pending = 1 /\ Pending' = 0
  BY DEF Apply, Pending
<1>3. Cardinality(AppliedIds \cup {e}) = Cardinality(AppliedIds) + 1
  BY <1>1, Counts, AddOne
<1>4. QED
  BY <1>1, <1>2, <1>3, Counts DEF LossInv

\* A failure may drop the pending event or leave a record behind, not both.
LEMMA FailureLoss ==
  ASSUME IInv, LossInv, Failure
  PROVE  LossInv'
<1>1. /\ AppliedIds' = AppliedIds /\ faults' = faults + 1 /\ Pending' = 0
  BY DEF Failure, MarkFails, ApplyFails, AckLost, Restart, Leave, Become, Fault,
         AppliedIds, Pending
<1>2. CASE processed' = processed
  <2>1. Pending \in {0, 1}
    BY DEF Pending
  <2>2. QED
    BY <1>1, <1>2, <2>1, Counts DEF LossInv
<1>3. CASE processed' # processed
  <2>1. processed' = processed \cup {stream[current].id} /\ Pending = 0
    BY <1>3 DEF Failure, MarkFails, ApplyFails, AckLost, Restart, Pending
  <2>2. /\ IsFiniteSet(processed \cup {stream[current].id})
        /\ Cardinality(processed \cup {stream[current].id}) \in Nat
        /\ Cardinality(processed \cup {stream[current].id}) <= Cardinality(processed) + 1
    BY AddOne, Zenon DEF LossInv
  <2>3. QED
    BY <1>1, <2>1, <2>2, Counts DEF LossInv
<1>4. QED
  BY <1>2, <1>3

\* The other steps neither record nor apply.
LEMMA OtherLoss ==
  ASSUME IInv, LossInv,
         \/ CreateStream \/ Subscribe \/ \E m \in Messages : Store(m)
         \/ \E p \in 1..Len(stream) : Deliver(p) \/ Handle(p)
         \/ Ack
         \/ UNCHANGED workerVars
  PROVE  LossInv'
<1>1. UNCHANGED <<processed, applied, faults>> /\ Pending' = Pending
  BY DEF CreateStream, Subscribe, Store, Deliver, Handle, Ack, Leave, Become, workerVars, Pending
<1>2. QED
  BY <1>1 DEF LossInv, AppliedIds

\* An event that is recorded and never applied is the loss of one fault.
THEOREM LossesNeedFaults == Spec => []LossNeedsFault
<1>1. Init => LossInv
  <2> SUFFICES ASSUME Init PROVE LossInv
    OBVIOUS
  <2>1. AppliedIds = {} /\ processed = {} /\ faults = 0 /\ Pending = 0
    BY DEF Init, AppliedIds, Pending
  <2>2. QED
    BY <2>1, FS_EmptySet DEF LossInv
<1>2. IInv /\ LossInv /\ [Next]_workerVars => LossInv'
  BY MarkLoss, ApplyLoss, FailureLoss, OtherLoss DEF Next, Callback
<1>3. LossInv => LossNeedsFault
  BY DEF LossInv, LossNeedsFault, AppliedIds, Pending
<1>4. QED
  BY <1>1, <1>2, <1>3, Inductive, PTL DEF Spec
=============================================================================
