--------------------------- MODULE OutboxPublisher ---------------------------
(***************************************************************************)
(* The poller of apps/publisher.  At start-up it creates the JetStream     *)
(* stream unless it exists.  Then every tick PublishBatch reads a batch of *)
(* unpublished rows, oldest occurred_at first, and for each row in turn    *)
(* publishes its payload to JetStream and then sets published_at.  The     *)
(* first error abandons the batch until the next tick.  The outbox grows   *)
(* meanwhile; rows are inserted by the domain service (Insert here).       *)
(***************************************************************************)
EXTENDS Naturals, Sequences, FiniteSets, Functions

CONSTANTS
  Rows,       \* rows the domain service may insert: records with type and at
  Routes,     \* eventSubjects: the subject of each event type that has one
  BatchSize,  \* LIMIT of the fetch
  MaxEvents,  \* bound: rows of the outbox
  MaxFaults   \* bound: failed calls and restarts

VARIABLES
  outbox,     \* the outbox table; rows stand in commit order
  marked,     \* positions of the rows whose published_at is set
  created,    \* the streams that exist: REQUESTS or none
  stream,     \* the messages JetStream has stored there, in order
  batch,      \* positions PublishBatch has fetched and not dealt with
  step,       \* what PublishBatch does next
  seen,       \* how much of the outbox the fetch saw
  faults      \* failures so far

publisherVars == <<outbox, marked, created, stream, batch, step, seen, faults>>

ASSUME PublisherAssumption ==
  /\ \A row \in Rows : row.at \in Nat
  /\ BatchSize \in Nat \ {0}
  /\ MaxEvents \in Nat
  /\ MaxFaults \in Nat

Subjects == {Routes[t] : t \in DOMAIN Routes}
Positions == 1..Len(outbox)
\* Mutant of Unpublished: the WHERE clause is missing.
AllRows == Positions

Unpublished == Positions \ marked

\* Mutant of Message: everything goes to one subject.
MessageMisrouted(i) ==
  [id |-> i, type |-> outbox[i].type, subject |-> "requests.status-changed"]

\* The message a row becomes: the stored payload on the subject of its type.
Message(i) == [id |-> i, type |-> outbox[i].type, subject |-> Routes[outbox[i].type]]

\* The events JetStream holds at least one copy of.
Stored == {stream[p].id : p \in 1..Len(stream)}

\* Mutant of IsBatch: the ORDER BY is missing.
IsUnorderedBatch(b) ==
  /\ IsInjective(b)
  /\ Range(b) \subseteq Unpublished
  /\ Len(b) = BatchSize \/ Range(b) = Unpublished

\* A possible answer of FetchUnpublished: LIMIT rows of the unpublished,
\* ORDER BY occurred_at.  Rows of the same second come in any order.
IsBatch(b) ==
  /\ IsInjective(b)
  /\ Range(b) \subseteq Unpublished
  /\ Len(b) = BatchSize \/ Range(b) = Unpublished
  /\ \A k \in 1..Len(b) :
       /\ \A m \in 1..(k - 1) : outbox[b[m]].at <= outbox[b[k]].at
       /\ \A i \in Unpublished \ Range(b) : outbox[b[k]].at <= outbox[i].at

Batches == {b \in UNION {[1..n -> Unpublished] : n \in 1..BatchSize} : IsBatch(b)}

-----------------------------------------------------------------------------
Init ==
  /\ outbox = <<>>
  /\ marked = {}
  /\ created = {}
  /\ stream = <<>>
  /\ batch  = <<>>
  /\ step   = "boot"
  /\ seen   = 0
  /\ faults = 0

\* The domain service commits a row.
Insert(row) ==
  /\ Len(outbox) < MaxEvents
  /\ outbox' = Append(outbox, row)
  /\ UNCHANGED <<marked, created, stream, batch, step, seen, faults>>

\* The batch is forgotten, because PublishBatch returns (the next tick fetches
\* again) or because the process dies.
GoTo(s) ==
  /\ batch' = <<>>
  /\ step'  = s
  /\ seen'  = 0

Abandon == GoTo("wait")

\* The rest of the batch; an empty rest ends PublishBatch.
Continue(rest) ==
  /\ batch' = rest
  /\ step'  = IF rest = <<>> THEN "wait" ELSE "publish"
  /\ seen'  = IF rest = <<>> THEN 0 ELSE seen

Fault ==
  /\ faults < MaxFaults
  /\ faults' = faults + 1

\* Mutant of AddStream: a stream that exists is an error like any other.
AddStreamOnce ==
  /\ step = "boot"
  /\ created = {}
  /\ created' = {"REQUESTS"}
  /\ step'    = "wait"
  /\ UNCHANGED <<outbox, marked, stream, batch, seen, faults>>

\* main: the stream is created, or exists already, and polling begins.
AddStream ==
  /\ step = "boot"
  /\ created' = {"REQUESTS"}
  /\ step'    = "wait"
  /\ UNCHANGED <<outbox, marked, stream, batch, seen, faults>>

\* main exits, with or without having created the stream, and the process is
\* started again.
StartFails ==
  /\ step = "boot"
  /\ created' \in {created, {"REQUESTS"}}
  /\ Fault
  /\ UNCHANGED <<outbox, marked, stream, batch, step, seen>>

\* A tick: FetchUnpublished.  A fetch that finds nothing or fails changes
\* nothing.
Fetch ==
  /\ step = "wait"
  /\ Unpublished # {}
  /\ batch' \in Batches
  /\ step'  = "publish"
  /\ seen'  = Len(outbox)
  /\ UNCHANGED <<outbox, marked, created, stream, faults>>

\* An event type without a route stops the batch.
Unroutable ==
  /\ step = "publish"
  /\ outbox[Head(batch)].type \notin DOMAIN Routes
  /\ Abandon
  /\ UNCHANGED <<outbox, marked, created, stream, faults>>

\* JetStream stores the message and its acknowledgement arrives.
Publish ==
  /\ step = "publish"
  /\ outbox[Head(batch)].type \in DOMAIN Routes
  /\ stream' = Append(stream, Message(Head(batch)))
  /\ step'   = "mark"
  /\ UNCHANGED <<outbox, marked, created, batch, seen, faults>>

\* Mutant of PublishFails: the error is ignored and the row is marked.
PublishErrorIgnored ==
  /\ step = "publish"
  /\ outbox[Head(batch)].type \in DOMAIN Routes
  /\ stream' \in {stream, Append(stream, Message(Head(batch)))}
  /\ step' = "mark"
  /\ Fault
  /\ UNCHANGED <<outbox, marked, created, batch, seen>>

\* Publish returns an error: the message was not stored, or it was stored
\* and the acknowledgement was lost or came too late.
PublishFails ==
  /\ step = "publish"
  /\ outbox[Head(batch)].type \in DOMAIN Routes
  /\ stream' \in {stream, Append(stream, Message(Head(batch)))}
  /\ Abandon
  /\ Fault
  /\ UNCHANGED <<outbox, marked, created>>

MarkPublished ==
  /\ step = "mark"
  /\ marked' = marked \cup {Head(batch)}
  /\ Continue(Tail(batch))
  /\ UNCHANGED <<outbox, created, stream, faults>>

\* MarkPublished returns an error; the update may have been applied.
MarkFails ==
  /\ step = "mark"
  /\ marked' \in {marked, marked \cup {Head(batch)}}
  /\ Abandon
  /\ Fault
  /\ UNCHANGED <<outbox, created, stream>>

\* The process dies, in the middle of a batch or not, and is started again.
Restart ==
  /\ step # "boot"
  /\ GoTo("boot")
  /\ Fault
  /\ UNCHANGED <<outbox, marked, created, stream>>

Poll == AddStream \/ Fetch \/ Unroutable \/ Publish \/ MarkPublished
Failure == StartFails \/ PublishFails \/ MarkFails \/ Restart

Next ==
  \/ \E row \in Rows : Insert(row)
  \/ Poll
  \/ Failure

Spec == Init /\ [][Next]_publisherVars

\* The ticker of main.go keeps firing, every call it makes returns, and a
\* process that exits is started again (restart: unless-stopped).
Fairness == WF_publisherVars(Poll)

FairSpec == Spec /\ Fairness

-----------------------------------------------------------------------------
\* Every variable has its type.
TypeOK ==
  /\ outbox \in Seq(Rows)
  /\ Len(outbox) <= MaxEvents
  /\ marked \subseteq Positions
  /\ stream \in Seq([id : Positions, type : DOMAIN Routes, subject : Subjects])
  /\ batch \in Seq(Positions)
  /\ step \in {"boot", "wait", "publish", "mark"}
  /\ step \in {"boot", "wait"} <=> batch = <<>>
  /\ created \subseteq {"REQUESTS"} /\ (step # "boot" => created # {})
  /\ seen \in 0..Len(outbox)
  /\ faults \in 0..MaxFaults

\* A row is marked only when JetStream holds its event: no failure between
\* the two calls, no restart and no lost acknowledgement makes the poller
\* skip an event (ADR-0003: the outbox excludes a lost publication).
MarkedAreStored == marked \subseteq Stored

\* Copies of one event in the stream are the price of failures only: without
\* a fault each event is stored once, and each fault adds at most one copy
\* (PublishBatch never re-publishes a row it has marked).
DuplicatesNeedFaults == Len(stream) <= Cardinality(Stored) + faults

\* JetStream holds events in the order of occurred_at as far as the poller
\* can know it: an event that occurred in an earlier second than another and
\* was committed before it is stored before it, batch after batch, with rows
\* inserted meanwhile and after every failure.  Only events of one second, or
\* those whose rows became visible late, can change places.
PublishedInOrder ==
  \A p \in 1..Len(stream) :
    \A i \in 1..(stream[p].id - 1) :
      outbox[i].at < outbox[stream[p].id].at => \E q \in 1..(p - 1) : stream[q].id = i

\* A row without a route stands before row i, or is row i.
Blocked(i) ==
  \E u \in Positions : /\ outbox[u].type \notin DOMAIN Routes
                       /\ outbox[u].at <= outbox[i].at

\* Every row of the outbox is eventually published and marked, whatever the
\* finitely many failures.  Only a row whose type has no route (it stops its
\* batch for ever) can stand before another, and only before rows that are
\* not older than itself.
EveryRowPublished ==
  \A i \in 1..MaxEvents :
    (i \in Positions) ~> (i \in marked \/ (i \in Positions /\ Blocked(i)))

=============================================================================
