-------------------------------- MODULE Worker --------------------------------
(***************************************************************************)
(* The consumer of apps/worker: a durable JetStream push subscription on   *)
(* requests.created with manual acknowledgement, and the handler that      *)
(* validates an event, records its id in processed_events, applies it and  *)
(* acknowledges.  JetStream (external) delivers every stored message that  *)
(* is not acknowledged, and delivers it again when no acknowledgement      *)
(* arrives in time; the client buffers deliveries and runs the callback on *)
(* one of them at a time.  The publisher creates the stream (CreateStream  *)
(* here) and stores messages in it (Store); a worker that finds no stream  *)
(* exits, and is started again until it does.                              *)
(***************************************************************************)
EXTENDS Naturals, Sequences, FiniteSets

CONSTANTS
  Messages,        \* messages that may be stored: records id, type, subject
  NoId,            \* an event without event_id
  ApplierMayFail,  \* whether the Applier can return an error
  MaxMessages,     \* bound: messages of the stream
  MaxFaults        \* bound: failed calls and restarts

VARIABLES
  created,    \* the streams that exist: REQUESTS or none
  stream,     \* the messages JetStream has stored there, in order
  acked,      \* positions whose acknowledgement reached JetStream
  inbox,      \* positions delivered to the client and not yet handled
  current,    \* the position the callback works on; 0 if there is none
  stage,      \* what the callback does next
  processed,  \* event ids in the table processed_events
  applied,    \* how often the event of each id was applied
  faults      \* failures so far

workerVars == <<created, stream, acked, inbox, current, stage, processed, applied, faults>>

ASSUME WorkerAssumption ==
  /\ ApplierMayFail \in BOOLEAN
  /\ MaxMessages \in Nat
  /\ MaxFaults \in Nat

supportedEventTypes == {"request-created", "request-status-changed"}
Ids == {m.id : m \in Messages}

\* The subscription's filter.
Subscribed(m) == m.subject = "requests.created"

\* The validation of Handle: event_id present, type supported.
Valid(m) == m.id # NoId /\ m.type \in supportedEventTypes

-----------------------------------------------------------------------------
Init ==
  /\ created   = {}
  /\ stream    = <<>>
  /\ acked     = {}
  /\ inbox     = {}
  /\ current   = 0
  /\ stage     = "down"
  /\ processed = {}
  /\ applied   = [id \in Ids |-> 0]
  /\ faults    = 0

\* The publisher creates the stream.
CreateStream ==
  /\ created  = {}
  /\ created' = {"REQUESTS"}
  /\ UNCHANGED <<stream, acked, inbox, current, stage, processed, applied, faults>>

\* The publisher's message reaches the stream.
Store(m) ==
  /\ created # {}
  /\ Len(stream) < MaxMessages
  /\ stream' = Append(stream, m)
  /\ UNCHANGED <<created, acked, inbox, current, stage, processed, applied, faults>>

\* Mutant of Subscribe: a process that died is not started again.
SubscribeOnce ==
  /\ stage = "down"
  /\ created # {}
  /\ faults = 0
  /\ stage' = "idle"
  /\ UNCHANGED <<created, stream, acked, inbox, current, processed, applied, faults>>

\* The process starts and binds its durable consumer.  Without the stream
\* main exits, and the next start finds the same state.
Subscribe ==
  /\ stage = "down"
  /\ created # {}
  /\ stage' = "idle"
  /\ UNCHANGED <<created, stream, acked, inbox, current, processed, applied, faults>>

\* JetStream delivers a message to the subscriber, or delivers it again
\* after AckWait.
Deliver(p) ==
  /\ stage # "down"
  /\ p \notin acked \cup inbox
  /\ Subscribed(stream[p])
  /\ inbox' = inbox \cup {p}
  /\ UNCHANGED <<created, stream, acked, current, stage, processed, applied, faults>>

Become(p, s) ==
  /\ current' = p
  /\ stage'   = s

\* Mutant of Leave: the callback does not return after an error.
AckAnyway(p) == Become(p, "ack")

\* Mutant of Leave: the delivery stays the current one.
LeaveHolding(p) == Become(p, "idle")

\* Handle has returned an error, or the delivery is settled: the callback
\* returns.
Leave(p) == Become(0, "idle")

Fault ==
  /\ faults < MaxFaults
  /\ faults' = faults + 1

\* The callback starts on a delivery.  An invalid event is logged and left
\* unacknowledged.
Handle(p) ==
  /\ stage = "idle"
  /\ p \in inbox
  /\ inbox' = inbox \ {p}
  /\ \/ Valid(stream[p]) /\ Become(p, "dedupe")
     \/ ~Valid(stream[p]) /\ Leave(p)
  /\ UNCHANGED <<created, stream, acked, processed, applied, faults>>

\* Mutant of Known: the affected rows are not counted.
NeverKnown == FALSE

\* Mutant of Known: fresh is returned the wrong way round.
KnownInverted == stream[current].id \notin processed

\* The insert affects no row: another delivery of the event came first.
Known == stream[current].id \in processed

\* INSERT ... ON CONFLICT DO NOTHING: a new id is applied, a known one is not.
MarkProcessed ==
  /\ stage = "dedupe"
  /\ processed' = processed \cup {stream[current].id}
  /\ stage' = IF Known THEN "ack" ELSE "apply"
  /\ UNCHANGED <<created, stream, acked, inbox, current, applied, faults>>

\* The insert returns an error; the row may have been written.
MarkFails ==
  /\ stage = "dedupe"
  /\ processed' \in {processed, processed \cup {stream[current].id}}
  /\ Leave(current)
  /\ Fault
  /\ UNCHANGED <<created, stream, acked, inbox, applied>>

Apply ==
  /\ stage = "apply"
  /\ applied' = [applied EXCEPT ![stream[current].id] = @ + 1]
  /\ stage' = "ack"
  /\ UNCHANGED <<created, stream, acked, inbox, current, processed, faults>>

\* The Applier returns an error (the one of main.go never does).
ApplyFails ==
  /\ ApplierMayFail
  /\ stage = "apply"
  /\ Leave(current)
  /\ Fault
  /\ UNCHANGED <<created, stream, acked, inbox, processed, applied>>

Ack ==
  /\ stage = "ack"
  /\ acked' = acked \cup {current}
  /\ Leave(current)
  /\ UNCHANGED <<created, stream, inbox, processed, applied, faults>>

\* Ack fails, or the acknowledgement is lost on its way.
AckLost ==
  /\ stage = "ack"
  /\ Leave(current)
  /\ Fault
  /\ UNCHANGED <<created, stream, acked, inbox, processed, applied>>

\* The process dies and is started again with the same durable consumer.
Restart ==
  /\ stage # "down"
  /\ Become(0, "down")
  /\ inbox' = {}
  /\ Fault
  /\ UNCHANGED <<created, stream, acked, processed, applied>>

Callback == MarkProcessed \/ Apply \/ Ack
Failure == MarkFails \/ ApplyFails \/ AckLost \/ Restart

Next ==
  \/ CreateStream
  \/ \E m \in Messages : Store(m)
  \/ Subscribe
  \/ \E p \in 1..Len(stream) : Deliver(p) \/ Handle(p)
  \/ Callback
  \/ Failure

Spec == Init /\ [][Next]_workerVars

\* JetStream delivers what is not acknowledged, a buffered delivery gets its
\* turn however many invalid ones are redelivered, calls return, and a
\* process that exits is started again (restart: unless-stopped).
Fairness ==
  /\ WF_workerVars(Subscribe)
  /\ \A p \in 1..MaxMessages : WF_workerVars(p <= Len(stream) /\ Deliver(p))
  /\ \A p \in 1..MaxMessages : SF_workerVars(p <= Len(stream) /\ Handle(p))
  /\ WF_workerVars(Callback)

FairSpec == Spec /\ Fairness

-----------------------------------------------------------------------------
\* Every variable has its type.
TypeOK ==
  /\ created \subseteq {"REQUESTS"}
  /\ created = {} => stream = <<>> /\ stage = "down"
  /\ stream \in Seq(Messages)
  /\ Len(stream) <= MaxMessages
  /\ acked \subseteq 1..Len(stream)
  /\ inbox \subseteq 1..Len(stream)
  /\ current \in 0..Len(stream)
  /\ stage \in {"down", "idle", "dedupe", "apply", "ack"}
  /\ current = 0 <=> stage \in {"down", "idle"}
  /\ processed \subseteq Ids
  /\ applied \in [Ids -> Nat]
  /\ faults \in 0..MaxFaults

\* No event is applied twice, however often it was published, delivered or
\* redelivered, and whatever failed in between (handler.go: deduplicates).
AppliedAtMostOnce == \A id \in Ids : applied[id] <= 1

\* An acknowledged message is never one the dedupe table does not know: what
\* JetStream will not deliver again was recorded before.
AckedAreProcessed == \A p \in acked : stream[p].id \in processed

\* An event that is recorded and never applied is the loss of one failure:
\* the recorded ids are at most the applied ones, the one being worked on
\* and one for each fault.
LossNeedsFault ==
  Cardinality(processed) <=
    Cardinality({id \in Ids : applied[id] > 0})
      + faults + (IF stage = "apply" THEN 1 ELSE 0)

\* Every valid message of the subscribed subject is eventually acknowledged,
\* even with invalid messages that are redelivered for ever, whether it was
\* stored before the worker first subscribed, while it was down or later.
ValidAreAcked ==
  \A p \in 1..MaxMessages :
    (p <= Len(stream) /\ Subscribed(stream[p]) /\ Valid(stream[p])) ~> (p \in acked)

\* What is acknowledged has been applied (handler.go: applies events exactly
\* once).
AckedAreApplied == \A p \in acked : applied[stream[p].id] = 1

=============================================================================
