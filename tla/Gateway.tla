------------------------------- MODULE Gateway -------------------------------
(***************************************************************************)
(* The HTTP gateway (apps/gateway) in front of the domain service: the     *)
(* bearer check, its own validation, one gRPC call per HTTP request, and   *)
(* the HTTP status made of the gRPC code.  The changes go through the      *)
(* actions of DomainService, the gateway being its only client; the two    *)
(* reads (GetRequest, ListRequests) are one query each and are added here, *)
(* with the columns of the requests table only they look at.               *)
(***************************************************************************)
EXTENDS Naturals, Sequences, FiniteSets

CONSTANTS
  Ids,              \* the request ids that may be drawn, in the order of uuids
  Handlers,         \* HTTP requests that can be in progress at once
  MaxTime, MaxEvents, NoEvent,   \* see DomainService
  Subjects,         \* verified token subjects
  Operators,        \* the subjects whose token carries the role operator
  MaxTitle,         \* maxTitleLen
  DefaultList,      \* defaultListLimit
  MaxList           \* maxListLimit

Requests == {Ids[i] : i \in DOMAIN Ids}
Rank(r) == CHOOSE i \in DOMAIN Ids : Ids[i] = r

VARIABLES
  status, outbox, clock, pc, event, reply,   \* see DomainService
  owner,      \* requests.subject
  born,       \* requests.created_at
  busy,       \* what the HTTP handler waits for: "", "create" or "update"
  caller,     \* whose bearer token the request carried; Nobody when refused
  wrote,      \* whether a transaction of this request took effect
  answer,     \* HTTP status of the last response; 0 before the first
  shown       \* the requests the last response of a read contained

D == INSTANCE DomainService

Nobody == "nobody"

\* A verified token has a subject; without one the service refuses the call.
ASSUME GatewayAssumption ==
  /\ Ids \in Seq(Requests)
  /\ Operators \subseteq Subjects
  /\ Subjects \cap {Nobody, ""} = {}
  /\ MaxTitle \in Nat /\ DefaultList \in Nat \ {0} /\ MaxList \in Nat \ {0}

domainVars  == <<status, outbox, clock, pc, event, reply>>
columns     == <<owner, born>>
gatewayVars == <<busy, caller, wrote, answer, shown>>
vars == <<domainVars, columns, gatewayVars>>

Rows == {r \in Requests : status[r] # D!Absent}

roleOf(c) == IF c \in Operators THEN "operator" ELSE "user"

-----------------------------------------------------------------------------
\* The body of POST /requests: rune lengths of the title as sent and trimmed.
Payloads == {p \in [len : 0..(MaxTitle + 1), trimmed : 0..(MaxTitle + 1),
                    description : {"fits", "long"}] : p.trimmed <= p.len}

\* Mutant of validatePayload: only a missing title is refused.
validateBlankOnly(p) == p.trimmed # 0

\* The gateway trims before it looks for a blank title, not before it
\* measures.
validatePayload(p) ==
  /\ p.trimmed # 0
  /\ p.len <= MaxTitle
  /\ p.description = "fits"

\* What the domain service makes of the same title: it trims, then measures.
CreateInput(p, c) ==
  [title |-> IF p.trimmed = 0 THEN "blank"
             ELSE IF p.trimmed <= MaxTitle THEN "fits" ELSE "long",
   description |-> p.description,
   subject |-> IF c = Nobody THEN "" ELSE "given"]

\* Mutant of domainError: an unexpected code reads as a conflict.
domainErrorConflict(code) ==
  CASE code = "NotFound" -> 404
    [] code = "InvalidArgument" -> 400
    [] code = "PermissionDenied" -> 403
    [] OTHER -> 409

\* writeDomainError.
domainError(code) ==
  CASE code = "NotFound" -> 404
    [] code = "InvalidArgument" -> 400
    [] code = "PermissionDenied" -> 403
    [] code = "FailedPrecondition" -> 409
    [] OTHER -> 502

-----------------------------------------------------------------------------
\* ListRequests of the service: the filter after defaults and clamping.  A
\* plain user's subject filter is replaced by the user.
ListLimit(n) ==
  LET m == IF n = 0 THEN DefaultList ELSE n
  IN  IF m > MaxList THEN MaxList ELSE m

Newer(r, s) == born[r] > born[s] \/ (born[r] = born[s] /\ Rank(r) > Rank(s))

Matching(st, sub) == {r \in Rows : /\ st = "" \/ status[r] = st
                                   /\ sub = "" \/ owner[r] = sub}

\* What sort.Slice makes of the rows in found: each comes before the rows it is
\* newer than.
Sorted(found) ==
  CHOOSE f \in [1..Cardinality(found) -> found] :
    \A i, j \in 1..Cardinality(found) : i < j => Newer(f[i], f[j])

\* The store of the tests: filter, sort.Slice, cut to the limit.
MemoryList(st, sub, limit) ==
  LET all == Sorted(Matching(st, sub))
  IN  IF limit > 0 /\ Len(all) > limit THEN SubSeq(all, 1, limit) ELSE all

\* Mutant of PostgresList: ASC for DESC.
PostgresOldestFirst(st, sub, limit) ==
  LET found == Matching(st, sub)
      lim   == IF limit = 0 THEN DefaultList ELSE limit
      size  == IF Cardinality(found) < lim THEN Cardinality(found) ELSE lim
  IN  [i \in 1..size |->
         CHOOSE r \in found : Cardinality({s \in found : Newer(r, s)}) = i - 1]

\* The store of production: ORDER BY created_at DESC, id DESC LIMIT, where
\* row i is the one with i - 1 matching rows before it.
PostgresList(st, sub, limit) ==
  LET found == Matching(st, sub)
      lim   == IF limit = 0 THEN DefaultList ELSE limit
      size  == IF Cardinality(found) < lim THEN Cardinality(found) ELSE lim
  IN  [i \in 1..size |->
         CHOOSE r \in found : Cardinality({s \in found : Newer(s, r)}) = i - 1]

-----------------------------------------------------------------------------
Init ==
  /\ D!Init
  /\ owner  = [r \in Requests |-> Nobody]
  /\ born   = [r \in Requests |-> 0]
  /\ busy   = [h \in Handlers |-> ""]
  /\ caller = [h \in Handlers |-> Nobody]
  /\ wrote  = [h \in Handlers |-> FALSE]
  /\ answer = [h \in Handlers |-> 0]
  /\ shown  = [h \in Handlers |-> <<>>]

\* A request of c comes in; the handler starts with a clean slate.
Accept(h, c) ==
  /\ busy[h] = ""
  /\ caller' = [caller EXCEPT ![h] = c]
  /\ wrote'  = [wrote EXCEPT ![h] = FALSE]

\* The handler answers without having called the domain service.
Respond(h, code, list) ==
  /\ answer' = [answer EXCEPT ![h] = code]
  /\ shown'  = [shown EXCEPT ![h] = list]
  /\ UNCHANGED <<domainVars, columns, busy>>

\* The handler waits for its gRPC call.
Wait(h, kind) ==
  /\ busy'   = [busy EXCEPT ![h] = kind]
  /\ answer' = [answer EXCEPT ![h] = 0]
  /\ shown'  = [shown EXCEPT ![h] = <<>>]
  /\ UNCHANGED columns

\* bearerIdentity fails: no header, an empty token, or Verify refuses it.
Unauthenticated(h) == Accept(h, Nobody) /\ Respond(h, 401, <<>>)

\* POST /requests.  A body that does not decode counts as invalid.
handleCreateRequest(h, c, p) ==
  /\ Accept(h, c)
  /\ \/ ~validatePayload(p) /\ Respond(h, 400, <<>>)
     \/ /\ validatePayload(p)
        /\ D!CreateRequest(h, CreateInput(p, c))
        /\ Wait(h, "create")

\* PATCH /requests/{id}/status; "" stands for a blank or undecodable body.
handleUpdateStatus(h, c, r, to) ==
  /\ Accept(h, c)
  /\ \/ roleOf(c) # "operator" /\ Respond(h, 403, <<>>)
     \/ roleOf(c) = "operator" /\ to = "" /\ Respond(h, 400, <<>>)
     \/ /\ roleOf(c) = "operator" /\ to # ""
        /\ D!LoadRequest(h, [request |-> r, actor |-> "given",
                             role |-> roleOf(c), status |-> to])
        /\ Wait(h, "update")

\* Mutant of MaySee: everybody sees every request.
MaySeeAll(c, r) == TRUE

MaySee(c, r) == roleOf(c) = "operator" \/ owner[r] = c

\* GET /requests/{id}.  The query may fail.
handleGetRequest(h, c, r) ==
  /\ Accept(h, c)
  /\ \/ r \in Rows /\ MaySee(c, r) /\ Respond(h, 200, <<r>>)
     \/ ~(r \in Rows /\ MaySee(c, r)) /\ Respond(h, domainError("NotFound"), <<>>)
     \/ Respond(h, domainError("Internal"), <<>>)

\* GET /requests?status&subject&limit; limit 0 is an absent parameter.
handleListRequests(h, c, st, sub, n) ==
  /\ Accept(h, c)
  /\ \/ n > MaxList /\ Respond(h, 400, <<>>)
     \/ n <= MaxList /\ Respond(h, domainError("Internal"), <<>>)
     \/ /\ n <= MaxList
        /\ Respond(h, 200, PostgresList(st,
             IF roleOf(c) = "operator" THEN sub ELSE c, ListLimit(n)))

\* The gRPC call returns.  Every error of a creation is a 502.
Return(h) ==
  /\ busy[h] # ""
  /\ pc[h] = "idle"
  /\ busy' = [busy EXCEPT ![h] = ""]
  /\ answer' = [answer EXCEPT ![h] =
       IF reply[h] = "OK" THEN (IF busy[h] = "create" THEN 201 ELSE 200)
       ELSE IF busy[h] = "create" THEN 502 ELSE domainError(reply[h])]
  /\ UNCHANGED <<domainVars, columns, caller, wrote, shown>>

\* The store's transaction, with the columns a creation fills.
Commit(h) ==
  /\ D!Persist(h)
  /\ wrote' = [wrote EXCEPT ![h] = TRUE]
  /\ \/ /\ event[h].type = "request-created"
        /\ owner' = [owner EXCEPT ![event[h].request] = caller[h]]
        /\ born'  = [born EXCEPT ![event[h].request] = event[h].at]
     \/ event[h].type # "request-created" /\ UNCHANGED columns
  /\ UNCHANGED <<busy, caller, answer, shown>>

DomainStep ==
  /\ \/ \E h \in Handlers : D!StampUpdate(h) \/ D!PersistFails(h)
     \/ D!Restart
     \/ D!Tick
  /\ UNCHANGED <<columns, gatewayVars>>

StatusFilters == {"", "created", "triaged"}

Request(h) ==
  \/ Unauthenticated(h)
  \/ \E c \in Subjects :
       \/ \E p \in Payloads : handleCreateRequest(h, c, p)
       \/ \E r \in Requests, to \in {"", "triaged", "cancelled", "unknown"} :
            handleUpdateStatus(h, c, r, to)
       \/ \E r \in Requests : handleGetRequest(h, c, r)
       \/ \E st \in StatusFilters, sub \in Subjects \cup {""}, n \in 0..(MaxList + 1) :
            handleListRequests(h, c, st, sub, n)

Next ==
  \/ \E h \in Handlers : Request(h) \/ Return(h) \/ Commit(h)
  \/ DomainStep

Spec == Init /\ [][Next]_vars

-----------------------------------------------------------------------------
\* An HTTP answer says what happened: a success means the transaction took
\* effect, a 4xx means the request changed nothing, and only a 502 leaves it
\* open, whatever failed or restarted between the call and its reply.
AnswersTellTheTruth ==
  \A h \in Handlers :
    busy[h] = "" /\ answer[h] # 0 =>
      /\ answer[h] = 201 => wrote[h]
      /\ wrote[h] => answer[h] \in {200, 201, 502}

\* A creation that passes the gateway's checks is never refused by the
\* domain's, so its 502 never stands for a bad input (handleCreateRequest
\* answers 502 to every error, InvalidArgument included).
CreateChecksAgree ==
  \A h \in Handlers : busy[h] = "create" => reply[h] # "InvalidArgument"

\* A plain user is only ever shown requests that user created, by either
\* read and with every filter (service.go: own requests only).
UsersSeeTheirOwn ==
  \A h \in Handlers : \A i \in 1..Len(shown[h]) :
    roleOf(caller[h]) = "user" => owner[shown[h][i]] = caller[h]

\* The memory store the tests run on and the Postgres store of production
\* answer every list query alike, in every state the service reaches.
StoresAgree ==
  \A st \in StatusFilters, sub \in Subjects \cup {""}, n \in 0..MaxList :
    LET limit == ListLimit(n)
    IN  MemoryList(st, sub, limit) = PostgresList(st, sub, limit)
=============================================================================
