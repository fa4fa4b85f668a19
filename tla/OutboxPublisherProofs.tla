------------------------ MODULE OutboxPublisherProofs ------------------------
(***************************************************************************)
(* The poller loses no event, publishes events in the order of their       *)
(* seconds, and stores an extra copy only after a fault, for any number of *)
(* rows, batch size and number of faults and restarts.                     *)
(***************************************************************************)
EXTENDS OutboxPublisher, FiniteSetTheorems, TLAPS

\* The time the provers get for a step, whatever the machine.
USE SMTT(20), ZenonT(20)

\* The rows dealt with: the marked ones and, between the two calls that deal
\* with a row, the one that is published and not yet marked.
Done == marked \cup (IF step = "mark" THEN {Head(batch)} ELSE {})

\* The batch being worked off: distinct unpublished rows the fetch saw, in
\* the order of occurred_at, before which no visible row was left out.
BatchInv ==
  /\ \A k, m \in 1..Len(batch) : k # m => batch[k] # batch[m]
  /\ \A k \in 1..Len(batch) : batch[k] \in 1..seen /\ batch[k] \notin marked
  /\ \A k, m \in 1..Len(batch) : k < m => outbox[batch[k]].at <= outbox[batch[m]].at
  /\ \A i \in 1..seen :
       \/ i \in marked
       \/ \E k \in 1..Len(batch) : batch[k] = i
       \/ \A k \in 1..Len(batch) : outbox[batch[k]].at <= outbox[i].at

\* The inductive invariant: rows dealt with are stored, and the batch is sound.
IInv ==
  /\ TypeOK
  /\ Done \subseteq Stored
  /\ BatchInv

-----------------------------------------------------------------------------
\* A sequence over a set is a sequence over a larger one.
LEMMA SeqGrows ==
  ASSUME NEW S, NEW T, S \subseteq T, NEW q \in Seq(S)
  PROVE  q \in Seq(T)
  OBVIOUS

\* The elements of a sequence over a set are in that set.
LEMMA SeqElements ==
  ASSUME NEW S, NEW q \in Seq(S)
  PROVE  \A p \in 1..Len(q) : q[p] \in S
  OBVIOUS

\* A non-empty batch has a head and a shorter rest.
LEMMA BatchHead ==
  ASSUME TypeOK, step \in {"publish", "mark"}
  PROVE  /\ Len(batch) \in Nat /\ Len(batch) >= 1
         /\ Head(batch) = batch[1] /\ Head(batch) \in Positions
         /\ Tail(batch) \in Seq(Positions)
         /\ Len(Tail(batch)) = Len(batch) - 1
         /\ \A k \in 1..Len(Tail(batch)) : Tail(batch)[k] = batch[k + 1]
  BY DEF TypeOK

\* A stored message adds its event to the stored ones.
LEMMA StoreOne ==
  ASSUME TypeOK, NEW m \in [id : Positions, type : DOMAIN Routes, subject : Subjects],
         stream' = Append(stream, m)
  PROVE  /\ stream' \in Seq([id : Positions, type : DOMAIN Routes, subject : Subjects])
         /\ Len(stream') = Len(stream) + 1
         /\ Stored' = Stored \cup {m.id}
<1>1. /\ Len(stream') = Len(stream) + 1 /\ Len(stream) \in Nat
      /\ \A p \in 1..Len(stream) : stream'[p] = stream[p]
      /\ stream'[Len(stream) + 1] = m
      /\ stream' \in Seq([id : Positions, type : DOMAIN Routes, subject : Subjects])
  BY DEF TypeOK
<1>2. Stored' \subseteq Stored \cup {m.id}
  BY <1>1 DEF Stored
<1>3. Stored \cup {m.id} \subseteq Stored'
  BY <1>1 DEF Stored
<1>4. QED
  BY <1>1, <1>2, <1>3

\* The message of a routed row is a message.
LEMMA MessageType ==
  ASSUME NEW i \in Positions, outbox[i].type \in DOMAIN Routes
  PROVE  /\ Message(i) \in [id : Positions, type : DOMAIN Routes, subject : Subjects]
         /\ Message(i).id = i
  BY DEF Message, Subjects

\* Positions grow with the outbox.
LEMMA InsertGrows ==
  ASSUME TypeOK, NEW row \in Rows, Insert(row)
  PROVE  /\ outbox' \in Seq(Rows)
         /\ Len(outbox') = Len(outbox) + 1 /\ Len(outbox) \in Nat
         /\ Positions \subseteq Positions'
         /\ \A i \in Positions : outbox'[i] = outbox[i]
  BY DEF TypeOK, Insert, Positions

\* A row committed by the domain service keeps the invariant: positions that
\* were fetched, marked or stored stay what they were.
LEMMA InsertKeepsInv ==
  ASSUME IInv, NEW row \in Rows, Insert(row)
  PROVE  IInv'
<1>1. TypeOK'
  <2>1. stream' \in Seq([id : Positions', type : DOMAIN Routes, subject : Subjects])
    <3>1. [id : Positions, type : DOMAIN Routes, subject : Subjects] \subseteq
            [id : Positions', type : DOMAIN Routes, subject : Subjects]
      BY InsertGrows DEF IInv
    <3>2. stream' \in Seq([id : Positions, type : DOMAIN Routes, subject : Subjects])
      BY DEF IInv, TypeOK, Insert
    <3>3. QED
      BY <3>1, <3>2, SeqGrows, Zenon
  <2>2. batch' \in Seq(Positions')
    <3>1. batch' \in Seq(Positions)
      BY DEF IInv, TypeOK, Insert
    <3>2. QED
      BY <3>1, InsertGrows, SeqGrows DEF IInv
  <2>3. QED
    BY <2>1, <2>2, InsertGrows, PublisherAssumption, SMTT(30)
    DEF IInv, TypeOK, Insert, Subjects
<1>2. (Done \subseteq Stored)'
  BY DEF IInv, Done, Stored, Insert
<1>3. BatchInv'
  <2>1. \A i \in 1..seen : i \in Positions
    BY DEF IInv, TypeOK, Positions
  <2>2. \A k \in 1..Len(batch) : batch[k] \in Positions
    BY <2>1 DEF IInv, BatchInv
  <2>3. UNCHANGED <<batch, seen, marked>>
    BY DEF Insert
  <2>4. \A i \in Positions : outbox'[i] = outbox[i]
    BY InsertGrows DEF IInv
  <2>5. \A k, m \in 1..Len(batch) : k < m => outbox'[batch[k]].at <= outbox'[batch[m]].at
    BY <2>2, <2>4 DEF IInv, BatchInv
  <2>6. \A i \in 1..seen :
          \/ i \in marked
          \/ \E k \in 1..Len(batch) : batch[k] = i
          \/ \A k \in 1..Len(batch) : outbox'[batch[k]].at <= outbox'[i].at
    <3>1. \A i \in 1..seen, k \in 1..Len(batch) :
            outbox[batch[k]].at <= outbox[i].at => outbox'[batch[k]].at <= outbox'[i].at
      BY <2>1, <2>2, <2>4
    <3>2. QED
      BY <3>1, Zenon DEF IInv, BatchInv
  <2>7. /\ \A k, m \in 1..Len(batch) : k # m => batch[k] # batch[m]
        /\ \A k \in 1..Len(batch) : batch[k] \in 1..seen /\ batch[k] \notin marked
    BY DEF IInv, BatchInv
  <2>8. QED
    BY <2>3, <2>5, <2>6, <2>7 DEF BatchInv
<1>4. QED
  BY <1>1, <1>2, <1>3 DEF IInv

\* Giving up a batch keeps what the poller knows, as long as the rows
\* marked by then are stored.
LEMMA AbandonKeepsInv ==
  ASSUME IInv, NEW s \in {"boot", "wait"}, GoTo(s), s = "wait" => created # {},
         UNCHANGED <<outbox, created>>, faults' \in 0..MaxFaults,
         marked' \subseteq Positions, marked' \subseteq Stored',
         stream' \in Seq([id : Positions, type : DOMAIN Routes, subject : Subjects])
  PROVE  IInv'
<1>1. TypeOK'
  BY DEF IInv, TypeOK, GoTo, Positions
<1>2. (Done \subseteq Stored)'
  BY DEF Done, GoTo
<1>3. BatchInv'
  BY DEF BatchInv, GoTo
<1>4. QED
  BY <1>1, <1>2, <1>3 DEF IInv

\* A fetched batch is a non-empty sequence of unpublished rows.
LEMMA BatchTypes ==
  ASSUME NEW b \in Batches
  PROVE  /\ b \in Seq(Unpublished)
         /\ Len(b) \in Nat /\ Len(b) >= 1 /\ DOMAIN b = 1..Len(b)
         /\ \A k \in 1..Len(b) : b[k] \in Unpublished
         /\ IsBatch(b)
<1>1. PICK n \in 1..BatchSize : b \in [1..n -> Unpublished]
  BY DEF Batches
<1>2. n \in Nat /\ n >= 1
  BY PublisherAssumption
<1>3. b \in Seq(Unpublished) /\ Len(b) = n /\ DOMAIN b = 1..n
  BY <1>1, <1>2
<1>4. QED
  BY <1>1, <1>2, <1>3 DEF Batches

\* The fetch of a batch keeps the invariant: it returns unmarked rows, oldest
\* first.
LEMMA FetchKeepsInv ==
  ASSUME IInv, Fetch
  PROVE  IInv'
<1> DEFINE b == batch'
<1>1. /\ b \in Seq(Unpublished)
      /\ Len(b) \in Nat /\ Len(b) >= 1 /\ DOMAIN b = 1..Len(b)
      /\ \A k \in 1..Len(b) : b[k] \in Unpublished
      /\ IsBatch(b)
  BY BatchTypes DEF Fetch
<1>2. Unpublished \subseteq Positions /\ Unpublished \cap marked = {}
  BY DEF Unpublished
<1>3. TypeOK'
  <2>1. batch' \in Seq(Positions)
    BY <1>1, <1>2, SeqGrows
  <2>2. batch' # <<>>
    BY <1>1
  <2>3. seen' \in 0..Len(outbox)
    BY DEF IInv, TypeOK, Fetch
  <2>4. QED
    BY <2>1, <2>2, <2>3 DEF IInv, TypeOK, Fetch, Positions
<1>4. (Done \subseteq Stored)'
  BY DEF IInv, Done, Stored, Fetch
<1>5. BatchInv'
  <2>1. \A k, m \in 1..Len(b) : k # m => b[k] # b[m]
    BY <1>1 DEF IsBatch, IsInjective
  <2>2. \A k \in 1..Len(b) : b[k] \in 1..seen' /\ b[k] \notin marked
    BY <1>1, <1>2, Zenon DEF Fetch, Positions
  <2>3. \A k, m \in 1..Len(b) : k < m => outbox[b[k]].at <= outbox[b[m]].at
    <3>1. \A k, m \in 1..Len(b) : k < m => k \in 1..(m - 1)
      BY <1>1
    <3>2. QED
      BY <1>1, <3>1 DEF IsBatch
  <2>4. \A i \in 1..seen' :
          \/ i \in marked
          \/ \E k \in 1..Len(b) : b[k] = i
          \/ \A k \in 1..Len(b) : outbox[b[k]].at <= outbox[i].at
    BY <1>1, Zenon DEF Fetch, IsBatch, Range, Unpublished, Positions
  <2>5. QED
    BY <2>1, <2>2, <2>3, <2>4 DEF BatchInv, Fetch
<1>6. QED
  BY <1>3, <1>4, <1>5 DEF IInv

\* Publishing the head of the batch keeps the invariant: from now on the row
\* counts as dealt with, and its event is stored.
LEMMA PublishKeepsInv ==
  ASSUME IInv, Publish
  PROVE  IInv'
<1>1. Head(batch) \in Positions
  BY BatchHead DEF IInv, Publish
<1>2. /\ stream' \in Seq([id : Positions, type : DOMAIN Routes, subject : Subjects])
      /\ Stored' = Stored \cup {Head(batch)}
  BY <1>1, MessageType, StoreOne, Zenon DEF IInv, Publish
<1>3. TypeOK'
  BY <1>2 DEF IInv, TypeOK, Publish, Positions
<1>4. (Done \subseteq Stored)'
  BY <1>2 DEF IInv, Done, Publish
<1>5. BatchInv'
  BY DEF IInv, BatchInv, Publish
<1>6. QED
  BY <1>3, <1>4, <1>5 DEF IInv

\* The head of the batch is marked and the rest goes on.
LEMMA MarkKeepsInv ==
  ASSUME IInv, MarkPublished
  PROVE  IInv'
<1>1. /\ Len(batch) \in Nat /\ Len(batch) >= 1
      /\ Head(batch) = batch[1] /\ Head(batch) \in Positions
      /\ Tail(batch) \in Seq(Positions)
      /\ Len(Tail(batch)) = Len(batch) - 1
      /\ \A k \in 1..Len(Tail(batch)) : Tail(batch)[k] = batch[k + 1]
  BY BatchHead DEF IInv, MarkPublished
<1>2. Head(batch) \in Stored
  BY DEF IInv, Done, MarkPublished
<1>3. TypeOK'
  <2>1. /\ batch' \in Seq(Positions)
        /\ step' \in {"wait", "publish"}
        /\ step' = "wait" <=> batch' = <<>>
    BY <1>1 DEF MarkPublished, Continue
  <2>2. seen' \in 0..Len(outbox)
    BY DEF IInv, TypeOK, MarkPublished, Continue
  <2>3. marked' \subseteq Positions
    BY <1>1 DEF IInv, TypeOK, MarkPublished
  <2>4. UNCHANGED <<outbox, created, stream, faults>> /\ created # {}
    BY DEF MarkPublished, IInv, TypeOK
  <2>5. QED
    BY <2>1, <2>2, <2>3, <2>4, SMTT(30) DEF IInv, TypeOK, Positions
<1>4. (Done \subseteq Stored)'
  BY <1>2 DEF IInv, Done, Stored, MarkPublished, Continue
<1>5. BatchInv'
  <2>1. CASE Tail(batch) = <<>>
    <3>1. batch' = <<>> /\ seen' = 0
      BY <2>1 DEF MarkPublished, Continue
    <3>2. QED
      BY <3>1 DEF BatchInv
  <2>2. CASE Tail(batch) # <<>>
    <3> DEFINE t == Tail(batch)
    <3>1. /\ batch' = t /\ seen' = seen /\ outbox' = outbox
          /\ marked' = marked \cup {batch[1]}
      BY <1>1, <2>2 DEF MarkPublished, Continue
    <3>2. \A k \in 1..Len(t) : t[k] = batch[k + 1] /\ k + 1 \in 1..Len(batch)
      BY <1>1
    <3>3. 1 \in 1..Len(batch)
      BY <1>1
    <3>4. \A k, m \in 1..Len(t) : k # m => t[k] # t[m]
      BY <3>2 DEF IInv, BatchInv
    <3>5. \A k \in 1..Len(t) : t[k] \in 1..seen /\ t[k] \notin marked \cup {batch[1]}
      BY <3>2, <3>3 DEF IInv, BatchInv
    <3>6. \A k, m \in 1..Len(t) : k < m => outbox[t[k]].at <= outbox[t[m]].at
      BY <3>2 DEF IInv, BatchInv
    <3>7. ASSUME NEW i \in 1..seen
          PROVE  \/ i \in marked \cup {batch[1]}
                 \/ \E k \in 1..Len(t) : t[k] = i
                 \/ \A k \in 1..Len(t) : outbox[t[k]].at <= outbox[i].at
      <4>1. CASE i \in marked
        BY <4>1
      <4>2. ASSUME NEW k \in 1..Len(batch), batch[k] = i
            PROVE  i = batch[1] \/ \E m \in 1..Len(t) : t[m] = i
        <5>1. CASE k = 1
          BY <4>2, <5>1
        <5>2. CASE k # 1
          <6>1. k - 1 \in 1..Len(t) /\ t[k - 1] = batch[k]
            BY <1>1, <5>2
          <6>2. QED
            BY <4>2, <6>1
        <5>3. QED
          BY <5>1, <5>2
      <4>3. CASE \A k \in 1..Len(batch) : outbox[batch[k]].at <= outbox[i].at
        BY <3>2, <4>3
      <4>4. QED
        BY <4>1, <4>2, <4>3 DEF IInv, BatchInv
    <3> HIDE DEF t
    <3>8. QED
      BY <3>1, <3>4, <3>5, <3>6, <3>7, Zenon DEF BatchInv
  <2>3. QED
    BY <2>1, <2>2
<1>6. QED
  BY <1>3, <1>4, <1>5 DEF IInv

\* The count of faults stays within its bound.
LEMMA FaultIsBounded ==
  ASSUME TypeOK, Fault
  PROVE  faults' \in 0..MaxFaults /\ faults' = faults + 1
  BY PublisherAssumption DEF TypeOK, Fault

\* Start-up, whether it succeeds or not, finds no batch and changes no row.
LEMMA StartKeepsInv ==
  ASSUME IInv, step = "boot", step' \in {"boot", "wait"}, step' = "wait" => created' # {},
         created' \subseteq {"REQUESTS"}, faults' \in 0..MaxFaults,
         UNCHANGED <<outbox, marked, stream, batch, seen>>
  PROVE  IInv'
<1>1. TypeOK'
  BY DEF IInv, TypeOK, Positions
<1>2. QED
  BY <1>1 DEF IInv, Done, Stored, BatchInv

\* A row without a route, a failed publish or mark, and a restart keep the
\* invariant: the batch is given up, and only a stored event may be marked.
LEMMA FailureKeepsInv ==
  ASSUME IInv, Unroutable \/ Failure
  PROVE  IInv'
<1>1. CASE Unroutable
  <2>1. /\ GoTo("wait") /\ UNCHANGED <<outbox, marked, created, stream, faults>>
        /\ marked \subseteq Stored /\ created # {}
    BY <1>1 DEF Unroutable, Abandon, IInv, TypeOK, Done
  <2>2. QED
    BY <2>1, AbandonKeepsInv, Zenon DEF IInv, TypeOK, Stored
<1>2. CASE PublishFails
  <2>1. Head(batch) \in Positions
    BY <1>2, BatchHead DEF IInv, PublishFails
  <2>2. /\ stream' \in Seq([id : Positions, type : DOMAIN Routes, subject : Subjects])
        /\ Stored \subseteq Stored'
    <3>1. CASE stream' = stream
      BY <3>1 DEF IInv, TypeOK, Stored
    <3>2. CASE stream' = Append(stream, Message(Head(batch)))
      BY <1>2, <2>1, <3>2, MessageType, StoreOne, Zenon DEF IInv, PublishFails
    <3>3. QED
      BY <1>2, <3>1, <3>2 DEF PublishFails
  <2>3. /\ GoTo("wait") /\ UNCHANGED <<outbox, marked, created>>
        /\ marked \subseteq Stored /\ marked \subseteq Positions /\ created # {}
    BY <1>2 DEF PublishFails, Abandon, IInv, TypeOK, Done
  <2>4. faults' \in 0..MaxFaults
    BY <1>2, FaultIsBounded DEF PublishFails, IInv
  <2>5. QED
    BY <2>2, <2>3, <2>4, AbandonKeepsInv
<1>3. CASE MarkFails
  <2>1. Head(batch) \in Positions /\ Head(batch) \in Stored
    BY <1>3, BatchHead DEF IInv, MarkFails, Done
  <2>2. /\ GoTo("wait") /\ UNCHANGED <<outbox, created, stream>>
        /\ marked' \subseteq Stored /\ marked' \subseteq Positions /\ created # {}
    BY <1>3, <2>1 DEF MarkFails, Abandon, IInv, TypeOK, Done
  <2>3. faults' \in 0..MaxFaults
    BY <1>3, FaultIsBounded DEF MarkFails, IInv
  <2>4. QED
    BY <2>2, <2>3, AbandonKeepsInv DEF IInv, TypeOK, Stored
<1>4. CASE Restart
  <2>1. /\ GoTo("boot") /\ UNCHANGED <<outbox, marked, created, stream>>
        /\ marked \subseteq Stored
    BY <1>4 DEF Restart, IInv, Done
  <2>2. faults' \in 0..MaxFaults
    BY <1>4, FaultIsBounded DEF Restart, IInv
  <2>3. QED
    BY <2>1, <2>2, AbandonKeepsInv, Zenon DEF IInv, TypeOK, Stored
<1>5. CASE StartFails
  BY <1>5, StartKeepsInv, FaultIsBounded DEF StartFails, IInv, TypeOK
<1>6. QED
  BY <1>1, <1>2, <1>3, <1>4, <1>5 DEF Failure

\* The invariant holds of an empty outbox and an empty stream.
LEMMA InitInv == Init => IInv
<1> SUFFICES ASSUME Init PROVE IInv
  OBVIOUS
<1>1. TypeOK
  BY PublisherAssumption DEF Init, TypeOK, Positions
<1>2. QED
  BY <1>1 DEF Init, IInv, Done, BatchInv

\* Every step of the publisher and of its environment keeps the invariant.
LEMMA NextInv == IInv /\ [Next]_publisherVars => IInv'
<1> SUFFICES ASSUME IInv, [Next]_publisherVars PROVE IInv'
  OBVIOUS
<1>1. CASE UNCHANGED publisherVars
  <2>1. TypeOK'
    BY <1>1, Zenon DEF publisherVars, IInv, TypeOK, Positions
  <2>2. (Done \subseteq Stored)'
    BY <1>1, Zenon DEF publisherVars, IInv, Done, Stored
  <2>3. BatchInv'
    BY <1>1, Zenon DEF publisherVars, IInv, BatchInv
  <2>4. QED
    BY <2>1, <2>2, <2>3 DEF IInv
<1>2. QED
  <2>1. CASE AddStream
    BY <2>1, StartKeepsInv DEF AddStream, IInv, TypeOK
  <2>2. QED
    BY <1>1, <2>1, InsertKeepsInv, FetchKeepsInv, PublishKeepsInv, MarkKeepsInv, FailureKeepsInv
    DEF Next, Poll, Failure

\* The inductive invariant holds in every reachable state.
THEOREM Inductive == Spec => []IInv
  BY InitInv, NextInv, PTL DEF Spec

\* No event is forgotten: published_at is set only for events JetStream
\* holds, whatever fails between Publish and MarkPublished.
THEOREM NoEventForgotten == Spec => []MarkedAreStored
<1>1. IInv => MarkedAreStored
  BY DEF IInv, Done, MarkedAreStored
<1>2. QED
  BY <1>1, Inductive, PTL

\* A batch never passes over an older row its fetch could see.
LEMMA OldestFirst ==
  ASSUME IInv, step = "publish", NEW i \in 1..seen, outbox[i].at < outbox[Head(batch)].at
  PROVE  i \in marked
<1>1. /\ Head(batch) = batch[1] /\ Head(batch) \in Positions
      /\ 1 \in 1..Len(batch) /\ Len(batch) \in Nat
  BY BatchHead DEF IInv
<1>2. i \in Positions
  BY DEF IInv, TypeOK, Positions
<1>3. outbox[i].at \in Nat /\ outbox[batch[1]].at \in Nat
  <2>1. outbox[i] \in Rows /\ outbox[batch[1]] \in Rows
    BY <1>1, <1>2 DEF IInv, TypeOK, Positions
  <2>2. QED
    BY <2>1, PublisherAssumption
<1>4. ASSUME NEW k \in 1..Len(batch), batch[k] = i
      PROVE  outbox[batch[1]].at <= outbox[i].at
  <2>1. CASE k = 1
    BY <1>3, <1>4, <2>1
  <2>2. CASE k # 1
    BY <1>1, <1>4, <2>2 DEF IInv, BatchInv
  <2>3. QED
    BY <2>1, <2>2
<1>5. \/ i \in marked
      \/ \E k \in 1..Len(batch) : batch[k] = i
      \/ outbox[batch[1]].at <= outbox[i].at
  BY <1>1, Zenon DEF IInv, BatchInv
<1>6. QED
  BY <1>1, <1>3, <1>4, <1>5

\* Storing the head of the batch keeps the order: everything older that was
\* committed before it is marked, and so stored.
LEMMA StoreKeepsOrder ==
  ASSUME IInv, PublishedInOrder, step = "publish", UNCHANGED outbox,
         stream' = Append(stream, Message(Head(batch)))
  PROVE  PublishedInOrder'
<1> DEFINE h == Head(batch)
           n == Len(stream)
<1>1. h \in 1..seen /\ h \in Nat /\ seen \in Nat
  BY BatchHead DEF IInv, BatchInv, TypeOK
<1>2. /\ n \in Nat /\ Len(stream') = n + 1 /\ stream'[n + 1].id = h
      /\ \A p \in 1..n : stream'[p] = stream[p]
  BY DEF IInv, TypeOK, Message
<1>3. ASSUME NEW i \in 1..(h - 1), outbox[i].at < outbox[h].at
      PROVE  \E q \in 1..n : stream[q].id = i
  <2>1. i \in 1..seen
    BY <1>1
  <2>2. i \in Stored
    BY <1>3, <2>1, OldestFirst DEF IInv, Done
  <2>3. QED
    BY <2>2 DEF Stored
<1>4. ASSUME NEW p \in 1..(n + 1), NEW i \in 1..(stream'[p].id - 1),
             outbox[i].at < outbox[stream'[p].id].at
      PROVE  \E q \in 1..(p - 1) : stream'[q].id = i
  <2>1. CASE p = n + 1
    BY <1>2, <1>3, <1>4, <2>1
  <2>2. CASE p \in 1..n
    <3>1. PICK q \in 1..(p - 1) : stream[q].id = i
      BY <1>2, <1>4, <2>2 DEF PublishedInOrder
    <3>2. q \in 1..n
      BY <1>2, <2>2
    <3>3. QED
      BY <1>2, <3>1, <3>2
  <2>3. QED
    BY <1>2, <2>1, <2>2
<1> HIDE DEF h, n
<1>5. QED
  BY <1>2, <1>4 DEF PublishedInOrder, n

\* New rows come behind those that are published.
LEMMA InsertKeepsOrder ==
  ASSUME IInv, PublishedInOrder, NEW row \in Rows, Insert(row)
  PROVE  PublishedInOrder'
<1>1. \A p \in 1..Len(stream) : stream[p].id \in Positions
  <2>1. \A p \in 1..Len(stream) :
           stream[p] \in [id : Positions, type : DOMAIN Routes, subject : Subjects]
    BY SeqElements, Zenon DEF IInv, TypeOK
  <2>2. QED
    BY <2>1
<1>2. Len(outbox) \in Nat /\ UNCHANGED stream
  BY DEF IInv, TypeOK, Insert
<1>3. \A p \in 1..Len(stream) : \A i \in 1..(stream[p].id - 1) : i \in Positions
  BY <1>1, <1>2 DEF Positions
<1>4. \A i \in Positions : outbox'[i] = outbox[i]
  BY InsertGrows DEF IInv
<1>5. ASSUME NEW p \in 1..Len(stream), NEW i \in 1..(stream[p].id - 1),
             outbox'[i].at < outbox'[stream[p].id].at
      PROVE  \E q \in 1..(p - 1) : stream[q].id = i
  <2>1. outbox'[i] = outbox[i] /\ outbox'[stream[p].id] = outbox[stream[p].id]
    BY <1>1, <1>3, <1>4
  <2>2. QED
    BY <1>5, <2>1 DEF PublishedInOrder
<1>6. QED
  BY <1>2, <1>5 DEF PublishedInOrder

\* Events reach JetStream in the order of their seconds, as far as commits
\* were visible: for every batch size, and through every failure.
THEOREM EventsInOrder == Spec => []PublishedInOrder
<1>1. Init => PublishedInOrder
  BY DEF Init, PublishedInOrder
<1>2. IInv /\ PublishedInOrder /\ [Next]_publisherVars => PublishedInOrder'
  <2> SUFFICES ASSUME IInv, PublishedInOrder, [Next]_publisherVars PROVE PublishedInOrder'
    OBVIOUS
  <2>1. CASE UNCHANGED <<outbox, stream>>
    BY <2>1 DEF PublishedInOrder
  <2>2. CASE Publish \/ PublishFails
    BY <2>1, <2>2, StoreKeepsOrder DEF Publish, PublishFails
  <2>3. QED
    BY <2>1, <2>2, InsertKeepsOrder
    DEF Next, Poll, Failure, AddStream, StartFails, Fetch, Unroutable, MarkPublished,
        MarkFails, Restart, publisherVars
<1>3. QED
  BY <1>1, <1>2, Inductive, PTL DEF Spec

-----------------------------------------------------------------------------
\* Messages of the stream, counted against the rows dealt with: a copy more
\* than those is charged to a fault.
CopiesInv ==
  /\ IsFiniteSet(marked)
  /\ Len(stream) <= Cardinality(Done) + faults

\* One more element makes a finite set at most one larger.
LEMMA AddOne ==
  ASSUME NEW S, IsFiniteSet(S), NEW x
  PROVE  /\ IsFiniteSet(S \cup {x})
         /\ Cardinality(S) \in Nat
         /\ Cardinality(S \cup {x}) \in Nat
         /\ Cardinality(S) <= Cardinality(S \cup {x})
         /\ Cardinality(S \cup {x}) <= Cardinality(S) + 1
         /\ x \notin S => Cardinality(S \cup {x}) = Cardinality(S) + 1
<1>1. /\ IsFiniteSet(S \cup {x})
      /\ Cardinality(S \cup {x}) = IF x \in S THEN Cardinality(S) ELSE Cardinality(S) + 1
  BY FS_AddElement
<1>2. Cardinality(S) \in Nat
  BY FS_CardinalityType
<1>3. QED
  BY <1>1, <1>2

\* There are n numbers from 1 to n.
LEMMA FirstNumbers ==
  ASSUME NEW n \in Nat
  PROVE  IsFiniteSet(1..n) /\ Cardinality(1..n) = n
<1>1. Cardinality(1..n) = IF 1 > n THEN 0 ELSE n - 1 + 1
  BY FS_Interval
<1>2. QED
  BY <1>1, FS_Interval

\* Between two rows, those dealt with are the marked ones.
LEMMA DoneIsMarked ==
  /\ step # "mark" => Done = marked
  /\ step = "mark" => Done = marked \cup {Head(batch)}
  BY DEF Done

\* Publish stores one message and is about to deal with one row more.
LEMMA PublishCopies ==
  ASSUME IInv, CopiesInv, Publish
  PROVE  CopiesInv'
<1>1. Head(batch) \in Positions /\ Head(batch) \notin marked
  BY BatchHead DEF IInv, BatchInv, Publish
<1>2. Len(stream') = Len(stream) + 1 /\ Len(stream) \in Nat
  BY <1>1, MessageType, StoreOne DEF IInv, TypeOK, Publish
<1>3. Done = marked /\ Done' = marked \cup {Head(batch)}
  BY DEF Done, Publish
<1>4. Cardinality(marked \cup {Head(batch)}) = Cardinality(marked) + 1
  BY <1>1, AddOne DEF CopiesInv
<1>5. Cardinality(marked) \in Nat /\ faults \in Nat
  BY FS_CardinalityType, PublisherAssumption DEF CopiesInv, IInv, TypeOK
<1>6. QED
  BY <1>2, <1>3, <1>4, <1>5 DEF CopiesInv, Publish

\* A failure costs one fault, and stores a copy or leaves a row unmarked.
LEMMA FailureCopies ==
  ASSUME IInv, CopiesInv, Failure
  PROVE  CopiesInv'
<1>1. /\ Done' = marked' /\ faults' = faults + 1 /\ faults \in Nat
      /\ Len(stream) \in Nat
  BY PublisherAssumption
  DEF Failure, StartFails, PublishFails, MarkFails, Restart, Fault, Abandon, GoTo, Done, IInv, TypeOK
<1>2. /\ IsFiniteSet(marked) /\ IsFiniteSet(marked \cup {Head(batch)})
      /\ Cardinality(marked) \in Nat
      /\ Cardinality(marked \cup {Head(batch)}) \in Nat
      /\ Cardinality(marked) <= Cardinality(marked \cup {Head(batch)})
      /\ Cardinality(marked \cup {Head(batch)}) <= Cardinality(marked) + 1
  BY AddOne, Zenon DEF CopiesInv
<1>3. CASE PublishFails
  <2>1. Len(stream') <= Len(stream) + 1
    <3>1. Head(batch) \in Positions
      BY <1>3, BatchHead DEF IInv, PublishFails
    <3>2. QED
      BY <1>1, <1>3, <3>1, MessageType, StoreOne DEF IInv, PublishFails
  <2>2. Done = marked /\ marked' = marked /\ Len(stream') \in Nat
    BY <1>1, <1>3, DoneIsMarked DEF PublishFails, IInv, TypeOK
  <2>3. QED
    BY <1>1, <1>2, <2>1, <2>2 DEF CopiesInv
<1>4. CASE MarkFails
  <2>1. /\ Done = marked \cup {Head(batch)} /\ stream' = stream
        /\ marked' \in {marked, marked \cup {Head(batch)}}
    BY <1>4, DoneIsMarked DEF MarkFails
  <2>2. CASE marked' = marked
    BY <1>1, <1>2, <2>1, <2>2 DEF CopiesInv
  <2>3. CASE marked' = marked \cup {Head(batch)}
    BY <1>1, <1>2, <2>1, <2>3 DEF CopiesInv
  <2>4. QED
    BY <2>1, <2>2, <2>3
<1>5. CASE Restart
  <2>1. Done \in {marked, marked \cup {Head(batch)}} /\ UNCHANGED <<stream, marked>>
    BY <1>5, DoneIsMarked DEF Restart
  <2>2. CASE Done = marked
    BY <1>1, <1>2, <2>1, <2>2 DEF CopiesInv
  <2>3. CASE Done = marked \cup {Head(batch)}
    BY <1>1, <1>2, <2>1, <2>3 DEF CopiesInv
  <2>4. QED
    BY <2>1, <2>2, <2>3
<1>6. CASE StartFails
  <2>1. Done = marked /\ UNCHANGED <<stream, marked>>
    BY <1>6, DoneIsMarked DEF StartFails
  <2>2. QED
    BY <1>1, <1>2, <2>1 DEF CopiesInv
<1>7. QED
  BY <1>3, <1>4, <1>5, <1>6 DEF Failure

\* Start-up, a fetch, an unroutable row, a mark or an insert stores nothing and
\* keeps the rows dealt with.
LEMMA OtherCopies ==
  ASSUME IInv, CopiesInv,
         (\E row \in Rows : Insert(row)) \/ AddStream \/ Fetch \/ Unroutable \/ MarkPublished
  PROVE  CopiesInv'
<1>1. IsFiniteSet(marked \cup {Head(batch)})
  BY AddOne, Zenon DEF CopiesInv
<1>2. Done' = Done /\ UNCHANGED <<stream, faults>>
  BY DEF Done, Insert, AddStream, Fetch, Unroutable, MarkPublished, Abandon, GoTo, Continue
<1>3. marked' = marked \/ marked' = marked \cup {Head(batch)}
  BY DEF Insert, AddStream, Fetch, Unroutable, MarkPublished
<1>4. IsFiniteSet(marked')
  BY <1>1, <1>3, Zenon DEF CopiesInv
<1>5. Len(stream') <= Cardinality(Done') + faults'
  BY <1>2 DEF CopiesInv
<1>6. QED
  BY <1>4, <1>5 DEF CopiesInv

\* The count holds in every reachable state.
THEOREM CopiesCounted == Spec => []CopiesInv
<1>1. Init => CopiesInv
  BY FS_EmptySet DEF Init, CopiesInv, Done
<1>2. IInv /\ CopiesInv /\ [Next]_publisherVars => CopiesInv'
  <2> SUFFICES ASSUME IInv, CopiesInv, [Next]_publisherVars PROVE CopiesInv'
    OBVIOUS
  <2>1. CASE UNCHANGED publisherVars
    BY <2>1 DEF publisherVars, CopiesInv, Done
  <2>2. QED
    BY <2>1, PublishCopies, FailureCopies, OtherCopies DEF Next, Poll
<1>3. QED
  BY <1>1, <1>2, Inductive, PTL DEF Spec

\* The stream never grows past one copy for each row and each fault.
LEMMA RoomToPublish ==
  ASSUME IInv, CopiesInv, step = "publish"
  PROVE  Len(stream) < MaxEvents + MaxFaults
<1>1. /\ Len(outbox) \in Nat /\ Len(outbox) <= MaxEvents /\ Len(stream) \in Nat
      /\ faults \in Nat /\ faults <= MaxFaults
  BY PublisherAssumption DEF IInv, TypeOK
<1>2. Head(batch) \in Positions /\ Head(batch) \notin marked
  BY BatchHead DEF IInv, BatchInv
<1>3. /\ Cardinality(marked) \in Nat
      /\ Cardinality(marked \cup {Head(batch)}) = Cardinality(marked) + 1
  BY <1>2, AddOne, Zenon DEF CopiesInv
<1>4. Cardinality(marked) + 1 <= Len(outbox)
  <2>1. IsFiniteSet(1..Len(outbox)) /\ Cardinality(1..Len(outbox)) = Len(outbox)
    BY <1>1, FirstNumbers
  <2>2. marked \cup {Head(batch)} \subseteq 1..Len(outbox)
    BY <1>2, Zenon DEF IInv, TypeOK, Positions
  <2>3. QED
    BY <1>1, <1>3, <2>1, <2>2, FS_Subset
<1>5. Len(stream) <= Cardinality(marked) + faults
  BY DoneIsMarked DEF CopiesInv
<1>6. QED
  BY <1>1, <1>3, <1>4, <1>5, PublisherAssumption

\* Extra copies in the stream never outnumber the faults.
THEOREM CopiesNeedFaults == Spec => []DuplicatesNeedFaults
<1>1. IInv /\ CopiesInv => DuplicatesNeedFaults
  <2> SUFFICES ASSUME IInv, CopiesInv PROVE DuplicatesNeedFaults
    OBVIOUS
  <2>1. Len(outbox) \in Nat /\ Len(stream) \in Nat /\ faults \in Nat
    BY PublisherAssumption DEF IInv, TypeOK
  <2>2. IsFiniteSet(Positions)
    BY <2>1, FS_Interval DEF Positions
  <2>3. Stored \subseteq Positions
    <3>1. \A p \in 1..Len(stream) :
             stream[p] \in [id : Positions, type : DOMAIN Routes, subject : Subjects]
      <4>1. stream \in Seq([id : Positions, type : DOMAIN Routes, subject : Subjects])
        BY DEF IInv, TypeOK
      <4>2. QED
        BY <4>1, SeqElements, Zenon
    <3>2. \A p \in 1..Len(stream) : stream[p].id \in Positions
      BY <3>1
    <3>3. QED
      BY <3>2 DEF Stored
  <2>4. IsFiniteSet(Stored) /\ Cardinality(Stored) \in Nat
    BY <2>2, <2>3, FS_Subset, FS_CardinalityType
  <2>5. /\ Done \subseteq Stored /\ IsFiniteSet(Done)
        /\ Cardinality(Done) \in Nat /\ Cardinality(Done) <= Cardinality(Stored)
    BY <2>4, FS_Subset, FS_CardinalityType DEF IInv
  <2>6. QED
    BY <2>1, <2>4, <2>5 DEF CopiesInv, DuplicatesNeedFaults
<1>2. QED
  BY <1>1, CopiesCounted, Inductive, PTL
=============================================================================
