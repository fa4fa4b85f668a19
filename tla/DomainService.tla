---------------------------- MODULE DomainService ----------------------------
(***************************************************************************)
(* The request service of apps/domain (service.go) on its Postgres store   *)
(* (postgres.go): the requests table, the transactional outbox, and the    *)
(* gRPC handlers that run concurrently.  CreateRequest is one transaction. *)
(* UpdateRequestStatus reads the row, checks the lifecycle, and writes in  *)
(* a later transaction that neither locks nor re-reads what it checked.    *)
(* Each of these steps is an action, so that other handlers, a store       *)
(* failure or a restart of the process can fall between them.              *)
(***************************************************************************)
EXTENDS Naturals, Sequences

CONSTANTS
  Requests,   \* request ids the service may draw (uuid.NewString)
  Handlers,   \* gRPC calls that can be in flight at once
  MaxTime,    \* bound: seconds the wall clock may advance
  MaxEvents,  \* bound: rows of the outbox
  NoEvent     \* the event of a handler that is not serving a call

VARIABLES
  status,     \* requests.status of each row; Absent when there is no row
  outbox,     \* the outbox table; rows stand in commit order
  clock,      \* the wall clock, in seconds: what RFC3339 keeps of it
  pc,         \* where each handler is
  event,      \* the event each handler is building
  reply       \* the gRPC code each handler answered last

domainVars == <<status, outbox, clock, pc, event, reply>>

Absent == "none"
Statuses ==
  {"created", "triaged", "in_progress", "resolved", "closed", "cancelled"}
Roles == {"user", "operator"}
EventTypes == {"request-created", "request-status-changed"}
Codes == {"none", "OK", "InvalidArgument", "PermissionDenied", "NotFound",
          "FailedPrecondition", "Internal", "Unavailable"}

\* A row of the outbox: the event without its opaque uuid, whose part is
\* played by the row's position, and without the fields no step looks at
\* (title, description, subject).  A creation has no previous status.
Events == [type : EventTypes, request : Requests, status : Statuses,
           prev : Statuses \cup {Absent}, at : 0..MaxTime]

ASSUME DomainAssumption ==
  /\ MaxTime \in Nat
  /\ MaxEvents \in Nat
  /\ NoEvent \notin Events

-----------------------------------------------------------------------------
\* The lifecycle.  A terminal status has no successor.
transitions ==
  [s \in Statuses |->
     CASE s = "created"     -> {"triaged", "cancelled"}
       [] s = "triaged"     -> {"in_progress", "cancelled"}
       [] s = "in_progress" -> {"resolved", "cancelled"}
       [] s = "resolved"    -> {"closed"}
       [] OTHER             -> {}]

CanTransition(from, to) == from \in Statuses /\ to \in transitions[from]

\* The arguments of the two calls that change state.  title is "blank" when
\* TrimSpace leaves nothing, "long" past maxTitleLen; "" is an absent field.
CreateInputs == [title : {"blank", "fits", "long"}, description : {"fits", "long"},
                 subject : {"", "given"}]
UpdateInputs == [request : Requests \cup {""}, actor : {"", "given"},
                 role : Roles, status : Statuses \cup {"unknown"}]

\* The early returns of CreateRequest; "OK" when the call goes on.
CreateCheck(in) ==
  IF \/ in.title # "fits"
     \/ in.description # "fits"
     \/ in.subject = ""
  THEN "InvalidArgument" ELSE "OK"

\* The early returns of UpdateRequestStatus up to the read, in their order.
UpdateCheck(in) ==
  IF in.request = "" \/ in.actor = "" THEN "InvalidArgument"
  ELSE IF in.role # "operator" THEN "PermissionDenied"
  ELSE IF in.status \notin Statuses THEN "InvalidArgument"
  ELSE "OK"

\* Mutant of LoadCheck: the lifecycle is not checked.
LoadCheckNoLifecycle(in) == IF status[in.request] = Absent THEN "NotFound" ELSE "OK"

\* What follows the read of the row: not found, or an illegal transition.
LoadCheck(in) ==
  IF status[in.request] = Absent THEN "NotFound"
  ELSE IF ~CanTransition(status[in.request], in.status) THEN "FailedPrecondition"
  ELSE "OK"

-----------------------------------------------------------------------------
Init ==
  /\ status  = [r \in Requests |-> Absent]
  /\ outbox  = <<>>
  /\ clock   = 0
  /\ pc      = [h \in Handlers |-> "idle"]
  /\ event   = [h \in Handlers |-> NoEvent]
  /\ reply   = [h \in Handlers |-> "none"]

\* The handler returns code to its caller.
Answer(h, code) ==
  /\ pc'    = [pc EXCEPT ![h] = "idle"]
  /\ event' = [event EXCEPT ![h] = NoEvent]
  /\ reply' = [reply EXCEPT ![h] = code]

\* The handler goes on with event e.
Proceed(h, at, e) ==
  /\ pc'    = [pc EXCEPT ![h] = at]
  /\ event' = [event EXCEPT ![h] = e]
  /\ reply' = [reply EXCEPT ![h] = "none"]

\* Mutant of Fresh: an id may come twice.
FreshAny(r) == TRUE

\* A uuid no row has and no call in flight has drawn.
Fresh(r) ==
  /\ status[r] = Absent
  /\ \A h \in Handlers : pc[h] # "idle" => event[h].request # r

\* CreateRequest up to the call of the store: validation, then the clock is
\* read once for the row and its event.
CreateRequest(h, in) ==
  /\ pc[h] = "idle"
  /\ \/ /\ CreateCheck(in) # "OK"
        /\ Answer(h, CreateCheck(in))
     \/ /\ CreateCheck(in) = "OK"
        /\ \E r \in Requests :
             /\ Fresh(r)
             /\ Proceed(h, "stamped",
                  [type |-> "request-created", request |-> r, status |-> "created",
                   prev |-> Absent, at |-> clock])
  /\ UNCHANGED <<status, outbox, clock>>

\* UpdateRequestStatus up to the lifecycle check, on the row as it is read now.
LoadRequest(h, in) ==
  /\ pc[h] = "idle"
  /\ \/ /\ UpdateCheck(in) # "OK"
        /\ Answer(h, UpdateCheck(in))
     \/ /\ UpdateCheck(in) = "OK"
        /\ LoadCheck(in) # "OK"
        /\ Answer(h, LoadCheck(in))
     \/ /\ UpdateCheck(in) = "OK"
        /\ Answer(h, "Internal")                 \* store.GetRequest fails
     \/ /\ UpdateCheck(in) = "OK"
        /\ LoadCheck(in) = "OK"
        /\ Proceed(h, "loaded",
             [type |-> "request-status-changed", request |-> in.request,
              status |-> in.status, prev |-> status[in.request], at |-> clock])
  /\ UNCHANGED <<status, outbox, clock>>

\* Mutant of StampUpdate: the time is rounded up to the next second.
StampRoundedUp(h) ==
  /\ pc[h] = "loaded"
  /\ Proceed(h, "stamped", [event[h] EXCEPT !.at = clock + 1])
  /\ UNCHANGED <<status, outbox, clock>>

\* s.now(), after the read and before the store's transaction.
StampUpdate(h) ==
  /\ pc[h] = "loaded"
  /\ Proceed(h, "stamped", [event[h] EXCEPT !.at = clock])
  /\ UNCHANGED <<status, outbox, clock>>

\* Mutant of Persist: two transactions, the second of which may fail.
PersistSplit(h) ==
  /\ pc[h] = "stamped"
  /\ Len(outbox) < MaxEvents
  /\ status'  = [status EXCEPT ![event[h].request] = event[h].status]
  /\ outbox'  \in {outbox, Append(outbox, event[h])}
  /\ \E code \in {"OK", "Internal"} : Answer(h, code)
  /\ UNCHANGED clock

\* Mutant of Persist: the outbox keeps one row per request, which a later
\* event overwrites.
PersistUpsert(h) ==
  /\ pc[h] = "stamped"
  /\ Len(outbox) < MaxEvents
  /\ status'  = [status EXCEPT ![event[h].request] = event[h].status]
  /\ outbox'  = IF \E i \in 1..Len(outbox) : outbox[i].request = event[h].request
                THEN [i \in 1..Len(outbox) |->
                        IF outbox[i].request = event[h].request THEN event[h] ELSE outbox[i]]
                ELSE Append(outbox, event[h])
  /\ \E code \in {"OK", "Internal"} : Answer(h, code)
  /\ UNCHANGED clock

\* The store's transaction commits: the row and its event together, for a
\* creation (CreateRequestWithEvent) and for a change alike
\* (UpdateRequestStatusWithEvent: UPDATE ... WHERE id, whatever status the
\* row has by now).  When the connection is lost during COMMIT the caller is
\* told Internal although the transaction took effect.
Persist(h) ==
  /\ pc[h] = "stamped"
  /\ Len(outbox) < MaxEvents
  /\ status'  = [status EXCEPT ![event[h].request] = event[h].status]
  /\ outbox'  = Append(outbox, event[h])
  /\ \E code \in {"OK", "Internal"} : Answer(h, code)
  /\ UNCHANGED clock

\* The transaction fails before COMMIT and is rolled back by the defer.
PersistFails(h) ==
  /\ pc[h] = "stamped"
  /\ Answer(h, "Internal")
  /\ UNCHANGED <<status, outbox, clock>>

\* The process dies and is started again: calls in flight are gone, what
\* was committed stays.
Restart ==
  /\ \E h \in Handlers : pc[h] # "idle"
  /\ pc'    = [h \in Handlers |-> "idle"]
  /\ event' = [h \in Handlers |-> NoEvent]
  /\ reply' = [h \in Handlers |->
                 IF pc[h] = "idle" THEN reply[h] ELSE "Unavailable"]
  /\ UNCHANGED <<status, outbox, clock>>

Tick ==
  /\ clock < MaxTime
  /\ clock' = clock + 1
  /\ UNCHANGED <<status, outbox, pc, event, reply>>

Call(h) ==
  \/ \E in \in CreateInputs : CreateRequest(h, in)
  \/ \E in \in UpdateInputs : LoadRequest(h, in)
  \/ StampUpdate(h)
  \/ Persist(h)
  \/ PersistFails(h)

Next ==
  \/ \E h \in Handlers : Call(h)
  \/ Restart
  \/ Tick

Spec == Init /\ [][Next]_domainVars

-----------------------------------------------------------------------------
\* Every variable has its type.
TypeOK ==
  /\ status  \in [Requests -> Statuses \cup {Absent}]
  /\ outbox  \in Seq(Events)
  /\ Len(outbox) <= MaxEvents
  /\ clock   \in 0..MaxTime
  /\ pc      \in [Handlers -> {"idle", "loaded", "stamped"}]
  /\ event   \in [Handlers -> Events \cup {NoEvent}]
  /\ reply   \in [Handlers -> Codes]

\* The table and the outbox tell the same story whatever commits, fails or
\* restarts in between: a request has a row exactly when it has events, and
\* the row's status is the one its last committed event announces
\* (postgres.go writes both in one transaction, ADR-0003).
TableMatchesOutbox ==
  \A r \in Requests :
    \/ /\ status[r] = Absent
       /\ \A i \in 1..Len(outbox) : outbox[i].request # r
    \/ \E i \in 1..Len(outbox) :
         /\ outbox[i].request = r
         /\ outbox[i].status = status[r]
         /\ \A j \in (i + 1)..Len(outbox) : outbox[j].request # r

\* A request-created event is the first of its request and every later one
\* is a request-status-changed event: no creation is announced twice and no
\* change is announced for a request nobody announced.
CreatedFirst ==
  \A j \in 1..Len(outbox) :
    (outbox[j].type = "request-created") <=>
      (\A i \in 1..(j - 1) : outbox[i].request # outbox[j].request)

\* The previous_status a change announces is one its request really had at
\* some earlier commit, and the announced step is one the lifecycle allows,
\* even when the handler's read was stale by the time it wrote.
PreviousStatusWasReal ==
  \A j \in 1..Len(outbox) :
    outbox[j].type = "request-status-changed" =>
      /\ CanTransition(outbox[j].prev, outbox[j].status)
      /\ \E i \in 1..(j - 1) : /\ outbox[i].request = outbox[j].request
                               /\ outbox[i].status = outbox[j].prev

\* A status changes only along the lifecycle (docs/sequences.md, 2).
OnlyLegalTransitions ==
  [][\A r \in Requests :
       status[r] # Absent /\ status'[r] # status[r] =>
         CanTransition(status[r], status'[r])]_domainVars

=============================================================================
