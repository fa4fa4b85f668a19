------------------------- MODULE DomainServiceProofs -------------------------
(***************************************************************************)
(* The requests table and the outbox agree for any number of requests,     *)
(* handlers, events and clock readings.  The invariants of DomainService   *)
(* are not inductive: they hold because of what the events of calls in     *)
(* flight can be, which CallsInFlight states.                              *)
(***************************************************************************)
EXTENDS DomainService, TLAPS

\* The time the provers get for a step, whatever the machine.
USE SMTT(20), ZenonT(20)

\* The outbox holds an event that gave request r status s.
Recorded(r, s) ==
  \E i \in 1..Len(outbox) : outbox[i].request = r /\ outbox[i].status = s

\* A call in flight creates a request nobody else knows, or changes one that
\* exists, from a status that was recorded, along the lifecycle.
CallsInFlight ==
  \A h \in Handlers :
    /\ pc[h] = "idle" \/ event[h] \in Events
    /\ pc[h] = "loaded" => event[h].type = "request-status-changed"
    /\ pc[h] # "idle" /\ event[h].type = "request-created" =>
         /\ status[event[h].request] = Absent
         /\ \A g \in Handlers \ {h} :
              pc[g] # "idle" => event[g].request # event[h].request
    /\ pc[h] # "idle" /\ event[h].type = "request-status-changed" =>
         /\ status[event[h].request] # Absent
         /\ CanTransition(event[h].prev, event[h].status)
         /\ Recorded(event[h].request, event[h].prev)

\* The inductive invariant: the three invariants and what calls in flight carry.
IInv ==
  /\ TypeOK
  /\ CallsInFlight
  /\ TableMatchesOutbox
  /\ CreatedFirst
  /\ PreviousStatusWasReal

-----------------------------------------------------------------------------
\* "created" is a status; the mark of a missing row is none.
LEMMA AbsentIsNoStatus == Absent \notin Statuses /\ "created" \in Statuses
  BY DEF Absent, Statuses

\* A handler that answers drops its event; the others keep theirs.
LEMMA AnswerTypes ==
  ASSUME TypeOK, NEW h \in Handlers, NEW code \in Codes, Answer(h, code)
  PROVE  /\ pc' \in [Handlers -> {"idle", "loaded", "stamped"}]
         /\ event' \in [Handlers -> Events \cup {NoEvent}]
         /\ reply' \in [Handlers -> Codes]
         /\ pc'[h] = "idle"
         /\ \A g \in Handlers \ {h} : pc'[g] = pc[g] /\ event'[g] = event[g]
  BY DEF TypeOK, Answer

\* A handler that proceeds has the event it proceeds with.
LEMMA ProceedTypes ==
  ASSUME TypeOK, NEW h \in Handlers, NEW at \in {"loaded", "stamped"},
         NEW e \in Events, Proceed(h, at, e)
  PROVE  /\ pc' \in [Handlers -> {"idle", "loaded", "stamped"}]
         /\ event' \in [Handlers -> Events \cup {NoEvent}]
         /\ reply' \in [Handlers -> Codes]
         /\ pc'[h] = at
         /\ event'[h] = e
         /\ \A g \in Handlers \ {h} : pc'[g] = pc[g] /\ event'[g] = event[g]
  BY DEF TypeOK, Proceed, Codes

\* Every answer is a gRPC code.
LEMMA ChecksAreCodes ==
  /\ \A in : CreateCheck(in) \in Codes /\ UpdateCheck(in) \in Codes
  /\ \A in : LoadCheck(in) \in Codes
  BY DEF CreateCheck, UpdateCheck, LoadCheck, Codes

\* A step that answers and touches neither table keeps the invariant.
LEMMA AnswerKeepsInv ==
  ASSUME IInv, NEW h \in Handlers, NEW code \in Codes, Answer(h, code),
         UNCHANGED <<status, outbox, clock>>
  PROVE  IInv'
<1>1. TypeOK'
  BY AnswerTypes DEF IInv, TypeOK
<1>2. CallsInFlight'
  BY AnswerTypes DEF IInv, CallsInFlight, Recorded
<1>3. QED
  BY <1>1, <1>2 DEF IInv, TableMatchesOutbox, CreatedFirst, PreviousStatusWasReal

\* A step that gives a handler an event CallsInFlight admits keeps it.
LEMMA ProceedKeepsInv ==
  ASSUME IInv, NEW h \in Handlers, NEW at \in {"loaded", "stamped"},
         NEW e \in Events, Proceed(h, at, e),
         UNCHANGED <<status, outbox, clock>>,
         at = "loaded" => e.type = "request-status-changed",
         e.type = "request-created" =>
           /\ status[e.request] = Absent
           /\ \A g \in Handlers \ {h} : pc[g] # "idle" => event[g].request # e.request,
         e.type = "request-status-changed" =>
           /\ status[e.request] # Absent
           /\ CanTransition(e.prev, e.status)
           /\ Recorded(e.request, e.prev)
  PROVE  IInv'
<1>1. TypeOK'
  BY ProceedTypes DEF IInv, TypeOK
<1>2. CallsInFlight'
  <2> SUFFICES ASSUME NEW g \in Handlers
               PROVE  CallsInFlight!(g)'
    BY DEF CallsInFlight
  <2>1. \A r, s : Recorded(r, s)' <=> Recorded(r, s)
    BY DEF Recorded
  <2>2. CASE g = h
    BY <2>1, <2>2, ProceedTypes DEF IInv, CallsInFlight, Events
  <2>3. CASE g # h
    BY <2>1, <2>3, ProceedTypes DEF IInv, CallsInFlight, Events, EventTypes
  <2>4. QED
    BY <2>2, <2>3
<1>3. QED
  BY <1>1, <1>2 DEF IInv, TableMatchesOutbox, CreatedFirst, PreviousStatusWasReal

\* A row that exists was recorded with the status it has.
LEMMA RowsAreRecorded ==
  ASSUME TableMatchesOutbox, NEW r \in Requests, status[r] # Absent
  PROVE  Recorded(r, status[r])
  BY DEF TableMatchesOutbox, Recorded

\* CreateRequest up to the store, and its early returns, keep the invariant.
LEMMA CreateKeepsInv ==
  ASSUME IInv, NEW h \in Handlers, NEW in \in CreateInputs, CreateRequest(h, in)
  PROVE  IInv'
<1>1. CASE CreateCheck(in) # "OK" /\ Answer(h, CreateCheck(in))
  BY <1>1, ChecksAreCodes, AnswerKeepsInv DEF CreateRequest
<1>2. ASSUME NEW r \in Requests, Fresh(r),
             Proceed(h, "stamped",
               [type |-> "request-created", request |-> r, status |-> "created",
                prev |-> Absent, at |-> clock])
      PROVE  IInv'
  <2> DEFINE e == [type |-> "request-created", request |-> r, status |-> "created",
                   prev |-> Absent, at |-> clock]
  <2>1. e \in Events
    BY DEF IInv, TypeOK, Events, EventTypes, Statuses
  <2>2. \A g \in Handlers \ {h} : pc[g] # "idle" => event[g].request # e.request
    BY <1>2 DEF Fresh
  <2>3. status[e.request] = Absent
    BY <1>2 DEF Fresh
  <2> HIDE DEF e
  <2>4. Proceed(h, "stamped", e)
    BY <1>2 DEF e
  <2>5. e.type = "request-created" /\ "stamped" # "loaded"
    BY DEF e
  <2>6. QED
    BY <2>1, <2>2, <2>3, <2>4, <2>5, ProceedKeepsInv DEF CreateRequest
<1>3. QED
  BY <1>1, <1>2, Zenon DEF CreateRequest

\* UpdateRequestStatus up to the lifecycle check keeps the invariant: the
\* status it read is the one the request's last event announced.
LEMMA LoadKeepsInv ==
  ASSUME IInv, NEW h \in Handlers, NEW in \in UpdateInputs, LoadRequest(h, in)
  PROVE  IInv'
<1> DEFINE e == [type |-> "request-status-changed", request |-> in.request,
                 status |-> in.status, prev |-> status[in.request], at |-> clock]
<1>1. CASE \E code \in Codes : Answer(h, code)
  BY <1>1, AnswerKeepsInv DEF LoadRequest
<1>2. CASE UpdateCheck(in) = "OK" /\ LoadCheck(in) = "OK" /\ Proceed(h, "loaded", e)
  <2>1. in.request \in Requests /\ in.status \in Statuses
    BY <1>2 DEF UpdateCheck, UpdateInputs
  <2>2. status[in.request] # Absent /\ CanTransition(status[in.request], in.status)
    BY <1>2 DEF LoadCheck
  <2>3. e \in Events
    BY <2>1 DEF IInv, TypeOK, Events, EventTypes
  <2>4. Recorded(e.request, e.prev)
    BY <2>1, <2>2, RowsAreRecorded DEF IInv
  <2>5. /\ e.type = "request-status-changed"
        /\ status[e.request] # Absent
        /\ CanTransition(e.prev, e.status)
    BY <2>2
  <2> HIDE DEF e
  <2>6. QED
    BY <1>2, <2>3, <2>4, <2>5, ProceedKeepsInv DEF LoadRequest
<1>3. QED
  <2>1. "Internal" \in Codes
    BY DEF Codes
  <2>2. QED
    BY <1>1, <1>2, <2>1, ChecksAreCodes DEF LoadRequest

\* Reading the clock after the check keeps the invariant.
LEMMA StampKeepsInv ==
  ASSUME IInv, NEW h \in Handlers, StampUpdate(h)
  PROVE  IInv'
<1> DEFINE e == [event[h] EXCEPT !.at = clock]
<1>1. event[h] \in Events /\ event[h].type = "request-status-changed"
  BY DEF IInv, CallsInFlight, StampUpdate
<1>2. /\ e \in Events
      /\ e.type = event[h].type /\ e.request = event[h].request
      /\ e.prev = event[h].prev /\ e.status = event[h].status
  BY <1>1, Zenon DEF IInv, TypeOK, Events
<1>3. /\ status[e.request] # Absent
      /\ CanTransition(e.prev, e.status)
      /\ Recorded(e.request, e.prev)
  BY <1>1, <1>2 DEF IInv, CallsInFlight, StampUpdate
<1>4. Proceed(h, "stamped", e) /\ UNCHANGED <<status, outbox, clock>>
  BY DEF StampUpdate
<1> HIDE DEF e
<1>5. QED
  BY <1>1, <1>2, <1>3, <1>4, ProceedKeepsInv

\* The commit of a handler's event: the one step that changes the tables.
LEMMA PersistKeepsInv ==
  ASSUME IInv, NEW h \in Handlers, Persist(h)
  PROVE  IInv'
<1> DEFINE e == event[h]
           n == Len(outbox)
<1>1. e \in Events
  BY DEF IInv, CallsInFlight, Persist
<1>2. /\ outbox' \in Seq(Events)
      /\ Len(outbox') = n + 1
      /\ n \in Nat
      /\ \A i \in 1..n : outbox'[i] = outbox[i] /\ outbox[i] \in Events
      /\ outbox'[n + 1] = e
  BY <1>1 DEF IInv, TypeOK, Persist
<1>3. PICK code \in {"OK", "Internal"} : Answer(h, code)
  BY DEF Persist
<1>4. code \in Codes
  BY DEF Codes
<1>5. \A r \in Requests : status'[r] = IF r = e.request THEN e.status ELSE status[r]
  BY <1>1 DEF IInv, TypeOK, Persist, Events
<1>6. /\ e.request \in Requests
      /\ e.status \in Statuses
      /\ e.type \in EventTypes
      /\ e.type = "request-created" => status[e.request] = Absent
      /\ e.type = "request-status-changed" =>
           /\ status[e.request] # Absent
           /\ CanTransition(e.prev, e.status)
           /\ Recorded(e.request, e.prev)
  BY <1>1 DEF IInv, CallsInFlight, Persist, Events
<1>7. TypeOK'
  <2>1. /\ pc' \in [Handlers -> {"idle", "loaded", "stamped"}]
        /\ event' \in [Handlers -> Events \cup {NoEvent}]
        /\ reply' \in [Handlers -> Codes]
    BY <1>3, <1>4, AnswerTypes DEF IInv
  <2>2. status' \in [Requests -> Statuses \cup {Absent}]
    BY <1>6 DEF IInv, TypeOK, Persist
  <2>3. Len(outbox') <= MaxEvents
    BY <1>2, DomainAssumption DEF Persist
  <2>4. clock' \in 0..MaxTime
    BY DEF IInv, TypeOK, Persist
  <2>5. QED
    BY <1>2, <2>1, <2>2, <2>3, <2>4 DEF TypeOK
<1>8. CallsInFlight'
  <2> SUFFICES ASSUME NEW g \in Handlers
               PROVE  CallsInFlight!(g)'
    BY DEF CallsInFlight
  <2>1. CASE g = h
    BY <1>3, <1>4, <2>1, AnswerTypes DEF IInv
  <2>2. CASE g # h
    <3>1. \A k \in Handlers \ {h} : pc'[k] = pc[k] /\ event'[k] = event[k]
      BY <1>3, <1>4, AnswerTypes DEF IInv
    <3>2. \A r, s : Recorded(r, s) => Recorded(r, s)'
      BY <1>2 DEF Recorded
    <3>3. pc'[h] = "idle"
      BY <1>3, <1>4, AnswerTypes DEF IInv
    <3>4. ASSUME pc[g] # "idle", event[g].type = "request-created"
          PROVE  e.request # event[g].request
      BY <2>2, <3>4 DEF IInv, CallsInFlight, Persist
    <3>5. pc[g] # "idle" => event[g] \in Events
      BY DEF IInv, CallsInFlight
    <3>6. e.status # Absent
      BY <1>6, AbsentIsNoStatus
    <3> HIDE DEF e, n
    <3>7. QED
      BY <1>5, <2>2, <3>1, <3>2, <3>3, <3>4, <3>5, <3>6 DEF IInv, CallsInFlight, Events
  <2>3. QED
    BY <2>1, <2>2
<1>9. TableMatchesOutbox'
  <2> SUFFICES ASSUME NEW r \in Requests
               PROVE  TableMatchesOutbox!(r)'
    BY DEF TableMatchesOutbox
  <2> HIDE DEF e, n
  <2>1. CASE r = e.request
    <3>1. status'[r] = e.status
      BY <1>5, <2>1
    <3>2. /\ n + 1 \in 1..Len(outbox')
          /\ outbox'[n + 1].request = r
          /\ outbox'[n + 1].status = status'[r]
          /\ \A j \in (n + 2)..Len(outbox') : outbox'[j].request # r
      BY <1>2, <2>1, <3>1
    <3>3. QED
      BY <1>2, <3>2
  <2>2. CASE r # e.request
    BY <1>2, <1>5, <2>2 DEF IInv, TableMatchesOutbox, n
  <2>3. QED
    BY <2>1, <2>2
<1>10. CreatedFirst'
  <2> SUFFICES ASSUME NEW j \in 1..(n + 1)
               PROVE  (outbox'[j].type = "request-created") <=>
                        (\A i \in 1..(j - 1) : outbox'[i].request # outbox'[j].request)
    BY <1>2 DEF CreatedFirst
  <2>1. CASE j \in 1..n
    <3>1. \A i \in 1..(j - 1) : i \in 1..n
      BY <1>2, <2>1
    <3>2. QED
      BY <1>2, <2>1, <3>1 DEF IInv, CreatedFirst
  <2>2. CASE j = n + 1
    <3>1. status[e.request] = Absent => \A i \in 1..n : outbox[i].request # e.request
      <4>1. \A i \in 1..n : outbox[i].status # Absent
        <5>1. \A i \in 1..n : outbox[i] \in Events
          BY <1>2
        <5>2. \A x \in Events : x.status \in Statuses
          BY DEF Events
        <5>3. QED
          BY <5>1, <5>2, AbsentIsNoStatus, Zenon
      <4>2. TableMatchesOutbox!(e.request)
        BY <1>6 DEF IInv, TableMatchesOutbox
      <4> HIDE DEF e
      <4>3. QED
        BY <4>1, <4>2
    <3>2. status[e.request] # Absent => \E i \in 1..n : outbox[i].request = e.request
      BY <1>6 DEF IInv, TableMatchesOutbox
    <3> HIDE DEF e, n
    <3>3. QED
      BY <1>2, <1>6, <2>2, <3>1, <3>2 DEF EventTypes
  <2>3. QED
    BY <1>2, <2>1, <2>2
<1>11. PreviousStatusWasReal'
  <2> SUFFICES ASSUME NEW j \in 1..(n + 1),
                      outbox'[j].type = "request-status-changed"
               PROVE  /\ CanTransition(outbox'[j].prev, outbox'[j].status)
                      /\ \E i \in 1..(j - 1) :
                           /\ outbox'[i].request = outbox'[j].request
                           /\ outbox'[i].status = outbox'[j].prev
    BY <1>2 DEF PreviousStatusWasReal, CanTransition
  <2>1. CASE j \in 1..n
    <3>1. \A i \in 1..(j - 1) : i \in 1..n
      BY <1>2, <2>1
    <3>2. QED
      BY <1>2, <2>1, <3>1 DEF IInv, PreviousStatusWasReal
  <2>2. CASE j = n + 1
    <3> HIDE DEF e
    <3>1. QED
      BY <1>2, <1>6, <2>2 DEF Recorded
  <2>3. QED
    BY <1>2, <2>1, <2>2
<1>12. QED
  BY <1>7, <1>8, <1>9, <1>10, <1>11 DEF IInv

\* A restart of the process drops calls in flight and keeps the invariant.
LEMMA RestartKeepsInv ==
  ASSUME IInv, Restart
  PROVE  IInv'
<1>1. TypeOK'
  BY DEF IInv, TypeOK, Restart, Codes
<1>2. CallsInFlight'
  BY DEF CallsInFlight, Restart
<1>3. UNCHANGED <<status, outbox>>
  BY DEF Restart
<1>4. TableMatchesOutbox'
  BY <1>3 DEF IInv, TableMatchesOutbox
<1>5. CreatedFirst'
  BY <1>3 DEF IInv, CreatedFirst
<1>6. PreviousStatusWasReal'
  BY <1>3 DEF IInv, PreviousStatusWasReal
<1>7. QED
  BY <1>1, <1>2, <1>4, <1>5, <1>6 DEF IInv

\* The passing of time keeps the invariant.
LEMMA TickKeepsInv ==
  ASSUME IInv, Tick
  PROVE  IInv'
<1>1. TypeOK'
  BY DomainAssumption DEF IInv, TypeOK, Tick
<1>2. CallsInFlight'
  BY DEF IInv, CallsInFlight, Recorded, Tick
<1>3. UNCHANGED <<status, outbox>>
  BY DEF Tick
<1>4. TableMatchesOutbox'
  BY <1>3 DEF IInv, TableMatchesOutbox
<1>5. CreatedFirst'
  BY <1>3 DEF IInv, CreatedFirst
<1>6. PreviousStatusWasReal'
  BY <1>3 DEF IInv, PreviousStatusWasReal
<1>7. QED
  BY <1>1, <1>2, <1>4, <1>5, <1>6 DEF IInv

\* The invariant holds of the empty tables the service starts on.
LEMMA InitInv == Init => IInv
<1> SUFFICES ASSUME Init PROVE IInv
  OBVIOUS
<1>1. TypeOK
  BY DomainAssumption DEF Init, TypeOK, Codes
<1>2. CallsInFlight
  BY DEF Init, CallsInFlight
<1>3. QED
  BY <1>1, <1>2
  DEF IInv, Init, TableMatchesOutbox, CreatedFirst, PreviousStatusWasReal

\* Every step of the service keeps the invariant.
LEMMA NextInv == IInv /\ [Next]_domainVars => IInv'
<1> SUFFICES ASSUME IInv, [Next]_domainVars PROVE IInv'
  OBVIOUS
<1>1. ASSUME NEW h \in Handlers, Call(h) PROVE IInv'
  <2>1. CASE \E in \in CreateInputs : CreateRequest(h, in)
    BY <2>1, CreateKeepsInv
  <2>2. CASE \E in \in UpdateInputs : LoadRequest(h, in)
    BY <2>2, LoadKeepsInv
  <2>3. CASE StampUpdate(h)
    BY <2>3, StampKeepsInv
  <2>4. CASE Persist(h)
    BY <2>4, PersistKeepsInv
  <2>5. CASE PersistFails(h)
    <3>1. "Internal" \in Codes
      BY DEF Codes
    <3>2. QED
      BY <2>5, <3>1, AnswerKeepsInv DEF PersistFails
  <2>6. QED
    BY <1>1, <2>1, <2>2, <2>3, <2>4, <2>5 DEF Call
<1>2. CASE UNCHANGED domainVars
  BY <1>2 DEF domainVars, IInv, TypeOK, CallsInFlight, Recorded,
              TableMatchesOutbox, CreatedFirst, PreviousStatusWasReal
<1>3. QED
  BY <1>1, <1>2, RestartKeepsInv, TickKeepsInv DEF Next

\* The inductive invariant holds in every reachable state.
THEOREM Inductive == Spec => []IInv
  BY InitInv, NextInv, PTL DEF Spec

\* Every variable of the domain service keeps its type.
THEOREM TypeCorrect == Spec => []TypeOK
  BY Inductive, PTL DEF IInv

\* The requests table never disagrees with the outbox: every row has its
\* events and the status of the last of them, for any number of concurrent
\* calls, failed transactions and restarts (postgres.go, ADR-0003).
THEOREM TableAndOutboxAgree == Spec => []TableMatchesOutbox
  BY Inductive, PTL DEF IInv

\* The outbox announces the creation of each request once and first.
THEOREM CreationComesFirst == Spec => []CreatedFirst
  BY Inductive, PTL DEF IInv

\* Every announced change is a legal step from a status the request had,
\* although the status may have moved on since the handler read it.
THEOREM AnnouncedStepsAreLegal == Spec => []PreviousStatusWasReal
  BY Inductive, PTL DEF IInv
=============================================================================
