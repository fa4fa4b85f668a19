---------------------------- MODULE GatewayProofs ----------------------------
(***************************************************************************)
(* The gateway and the service behind it, for any requests, handlers,      *)
(* subjects and limits.                                                    *)
(***************************************************************************)
EXTENDS Gateway, FiniteSetTheorems, TLAPS

\* The time the provers get for a step, whatever the machine.
USE SMTT(20), ZenonT(20)

-----------------------------------------------------------------------------
(* The order of the list queries.                                          *)

Columns == [Requests -> Nat]

LEMMA IdsAreAList ==
  /\ Len(Ids) \in Nat /\ DOMAIN Ids = 1..Len(Ids)
  /\ Ids \in [1..Len(Ids) -> Requests]
<1>1. Ids \in Seq(Requests)
  BY GatewayAssumption, Zenon
<1>2. QED
  BY <1>1

\* A row's rank is its place among the ids, and tells it from the others.
LEMMA RankIsPlace ==
  ASSUME NEW r \in Requests
  PROVE  Rank(r) \in Nat /\ Ids[Rank(r)] = r
<1>1. \E i \in DOMAIN Ids : Ids[i] = r
  BY DEF Requests
<1>2. Rank(r) \in DOMAIN Ids /\ Ids[Rank(r)] = r
  BY <1>1, Zenon DEF Rank
<1>3. QED
  BY <1>2, IdsAreAList

LEMMA RequestsAreFinite == IsFiniteSet(Requests)
<1>1. IsFiniteSet(1..Len(Ids))
  BY IdsAreAList, FS_Interval
<1>2. Ids \in Surjection(1..Len(Ids), Requests)
  BY IdsAreAList, Zenon DEF Surjection, Requests
<1>3. QED
  BY <1>1, <1>2, FS_Surjection

\* Newer orders the rows strictly, and any two of them.
LEMMA NewerIsStrict ==
  ASSUME born \in Columns, NEW r \in Requests, NEW s \in Requests, NEW t \in Requests
  PROVE  /\ ~Newer(r, r)
         /\ Newer(r, s) /\ Newer(s, t) => Newer(r, t)
         /\ r # s => Newer(r, s) \/ Newer(s, r)
<1>1. born[r] \in Nat /\ born[s] \in Nat /\ born[t] \in Nat
  BY DEF Columns
<1>2. Rank(r) \in Nat /\ Rank(s) \in Nat /\ Rank(t) \in Nat
  BY RankIsPlace
<1>3. r # s => Rank(r) # Rank(s)
  BY RankIsPlace
<1>4. QED
  BY <1>1, <1>2, <1>3 DEF Newer

\* The rows of S that come before r, and how many they are.
Before(S, r) == {s \in S : Newer(s, r)}
Place(S, r) == Cardinality(Before(S, r))

\* A newer row has fewer rows before it.
LEMMA PlaceIsMonotone ==
  ASSUME born \in Columns, NEW S \in SUBSET Requests, NEW r \in S, NEW s \in S, Newer(r, s)
  PROVE  Place(S, r) < Place(S, s)
<1>1. IsFiniteSet(S)
  BY RequestsAreFinite, FS_Subset
<1>2. IsFiniteSet(Before(S, s)) /\ IsFiniteSet(Before(S, r))
  BY <1>1, FS_Subset DEF Before
<1>3. Before(S, r) \subseteq Before(S, s)
  BY NewerIsStrict, Zenon DEF Before
<1>4. r \in Before(S, s) /\ r \notin Before(S, r)
  BY NewerIsStrict, Zenon DEF Before
<1>5. /\ Cardinality(Before(S, r)) <= Cardinality(Before(S, s))
      /\ Cardinality(Before(S, r)) # Cardinality(Before(S, s))
  BY <1>2, <1>3, <1>4, FS_Subset
<1>6. Cardinality(Before(S, r)) \in Nat /\ Cardinality(Before(S, s)) \in Nat
  BY <1>2, FS_CardinalityType
<1>7. QED
  BY <1>5, <1>6 DEF Place

\* Different rows have different places, from 0 to the number of rows less 1.
LEMMA PlaceIsInjective ==
  ASSUME born \in Columns, NEW S \in SUBSET Requests
  PROVE  /\ Cardinality(S) \in Nat
         /\ \A r \in S : Place(S, r) \in 0..(Cardinality(S) - 1)
         /\ \A r, s \in S : Place(S, r) = Place(S, s) => r = s
<1>1. IsFiniteSet(S)
  BY RequestsAreFinite, FS_Subset
<1>2. Cardinality(S) \in Nat
  BY <1>1, FS_CardinalityType
<1>3. ASSUME NEW r \in S PROVE Place(S, r) \in 0..(Cardinality(S) - 1)
  <2>1. IsFiniteSet(Before(S, r)) /\ Cardinality(Before(S, r)) \in Nat
    BY <1>1, FS_Subset, FS_CardinalityType DEF Before
  <2>2. Before(S, r) \subseteq S /\ Before(S, r) # S
    BY NewerIsStrict, Zenon DEF Before
  <2>3. /\ Cardinality(Before(S, r)) <= Cardinality(S)
        /\ Cardinality(Before(S, r)) # Cardinality(S)
    BY <1>1, <2>2, FS_Subset
  <2>4. QED
    BY <1>2, <2>1, <2>3 DEF Place
<1>4. ASSUME NEW r \in S, NEW s \in S, Place(S, r) = Place(S, s) PROVE r = s
  <2>1. CASE Newer(r, s)
    BY <1>2, <1>3, <1>4, <2>1, PlaceIsMonotone
  <2>2. CASE Newer(s, r)
    BY <1>2, <1>3, <1>4, <2>2, PlaceIsMonotone
  <2>3. QED
    BY <2>1, <2>2, NewerIsStrict
<1>5. QED
  BY <1>2, <1>3, <1>4

\* Every place is taken: as many places as rows, by the pigeonhole principle.
LEMMA PlaceIsOnto ==
  ASSUME born \in Columns, NEW S \in SUBSET Requests, NEW i \in 1..Cardinality(S)
  PROVE  \E r \in S : Place(S, r) = i - 1
<1> DEFINE n == Cardinality(S)
           place == [r \in S |-> Place(S, r)]
<1>1. IsFiniteSet(S) /\ n \in Nat
  BY RequestsAreFinite, FS_Subset, FS_CardinalityType
<1>2. IsFiniteSet(0..(n - 1)) /\ Cardinality(0..(n - 1)) = n
  <2> HIDE DEF n
  <2>1. 0 \in Int /\ n - 1 \in Int
    BY <1>1
  <2>2. /\ IsFiniteSet(0..(n - 1))
        /\ Cardinality(0..(n - 1)) = IF 0 > n - 1 THEN 0 ELSE (n - 1) - 0 + 1
    BY <2>1, FS_Interval, Zenon
  <2>3. QED
    BY <1>1, <2>2
<1>3. place \in Injection(S, 0..(n - 1))
  BY PlaceIsInjective, Zenon DEF Injection, IsInjective
<1>4. place \in Surjection(S, 0..(n - 1))
  BY <1>2, <1>3, FS_Injection
<1>5. i - 1 \in 0..(n - 1)
  BY <1>1
<1>6. QED
  BY <1>4, <1>5, Zenon DEF Surjection

\* A list that has each row before the rows it is newer than has every row in
\* its place.
LEMMA SortedByPlace ==
  ASSUME born \in Columns, NEW S \in SUBSET Requests,
         NEW f \in [1..Cardinality(S) -> S],
         \A i, j \in 1..Cardinality(S) : i < j => Newer(f[i], f[j])
  PROVE  \A i \in 1..Cardinality(S) : Place(S, f[i]) = i - 1
<1> DEFINE n == Cardinality(S)
<1>1. IsFiniteSet(S) /\ n \in Nat
  BY RequestsAreFinite, FS_Subset, FS_CardinalityType
<1>2. \A i, j \in 1..n : f[i] = f[j] => i = j
  <2> SUFFICES ASSUME NEW i \in 1..n, NEW j \in 1..n, f[i] = f[j], i # j PROVE FALSE
    OBVIOUS
  <2>1. i < j \/ j < i
    BY <1>1
  <2>2. Newer(f[i], f[i]) /\ f[i] \in Requests
    BY <2>1, Zenon
  <2>3. QED
    BY <2>2, NewerIsStrict, Zenon
<1>3. f \in Injection(1..n, S)
  BY <1>2, Zenon DEF Injection, IsInjective
<1>4. IsFiniteSet(1..n) /\ Cardinality(1..n) = n
  <2> HIDE DEF n
  <2>1. 1 \in Int /\ n \in Int
    BY <1>1
  <2>2. IsFiniteSet(1..n) /\ Cardinality(1..n) = IF 1 > n THEN 0 ELSE n - 1 + 1
    BY <2>1, FS_Interval, Zenon
  <2>3. QED
    BY <1>1, <2>2
<1>5. f \in Surjection(1..n, S)
  BY <1>1, <1>3, <1>4, FS_Injection
<1> SUFFICES ASSUME NEW i \in 1..n PROVE Place(S, f[i]) = i - 1
  OBVIOUS
<1> DEFINE T == 1..(i - 1)
           g == [k \in T |-> f[k]]
<1>6. i \in Nat /\ i >= 1 /\ T \subseteq 1..n /\ \A k \in 1..n : k \in T <=> k < i
  BY <1>1
<1>7. Before(S, f[i]) = {f[k] : k \in T}
  <2>1. \A k \in T : f[k] \in S /\ Newer(f[k], f[i])
    BY <1>6, Zenon
  <2>2. ASSUME NEW s \in S, Newer(s, f[i]) PROVE \E k \in T : s = f[k]
    <3>1. PICK k \in 1..n : f[k] = s
      BY <1>5, Zenon DEF Surjection
    <3>2. k # i
      BY <2>2, <3>1, NewerIsStrict, Zenon
    <3>3. ~(i < k)
      BY <2>2, <3>1, NewerIsStrict, Zenon
    <3>4. k < i
      BY <1>6, <3>2, <3>3
    <3>5. QED
      BY <1>6, <3>1, <3>4, Zenon
  <2>3. QED
    BY <2>1, <2>2, Zenon DEF Before
<1>8. IsFiniteSet(T) /\ Cardinality(T) = i - 1
  <2>1. 1 \in Int /\ i - 1 \in Int
    BY <1>6
  <2>2. IsFiniteSet(T) /\ Cardinality(T) = IF 1 > i - 1 THEN 0 ELSE (i - 1) - 1 + 1
    BY <2>1, FS_Interval, Zenon
  <2> HIDE DEF T
  <2>3. QED
    BY <1>6, <2>2
<1> HIDE DEF T
<1>9. g \in Surjection(T, Before(S, f[i])) /\ g \in Injection(T, Before(S, f[i]))
  BY <1>2, <1>6, <1>7, Zenon DEF Surjection, Injection, IsInjective
<1>10. Cardinality(Before(S, f[i])) = Cardinality(T)
  BY <1>8, <1>9, FS_Surjection
<1>11. QED
  BY <1>8, <1>10 DEF Place

\* There is such a list: the one with every row in its place.
LEMMA SortedExists ==
  ASSUME born \in Columns, NEW S \in SUBSET Requests
  PROVE  /\ Sorted(S) \in [1..Cardinality(S) -> S]
         /\ \A i, j \in 1..Cardinality(S) : i < j => Newer(Sorted(S)[i], Sorted(S)[j])
<1> DEFINE n == Cardinality(S)
           f == [i \in 1..n |-> CHOOSE r \in S : Place(S, r) = i - 1]
<1>1. \A i \in 1..n : f[i] \in S /\ Place(S, f[i]) = i - 1
  BY PlaceIsOnto, Zenon
<1>2. f \in [1..n -> S]
  BY <1>1, Zenon
<1> HIDE DEF f
<1>3. ASSUME NEW i \in 1..n, NEW j \in 1..n, i < j PROVE Newer(f[i], f[j])
  <2>1. n \in Nat
    BY PlaceIsInjective, Zenon
  <2>2. f[i] \in S /\ f[j] \in S /\ Place(S, f[i]) = i - 1 /\ Place(S, f[j]) = j - 1
    BY <1>1, Zenon
  <2>3. i - 1 # j - 1 /\ ~(j - 1 < i - 1)
    BY <1>3, <2>1
  <2>4. f[i] # f[j]
    BY <2>2, <2>3
  <2>5. ~Newer(f[j], f[i])
    BY <2>2, <2>3, PlaceIsMonotone
  <2>6. QED
    BY <2>2, <2>4, <2>5, NewerIsStrict, Zenon
<1>4. QED
  BY <1>2, <1>3, Zenon DEF Sorted

-----------------------------------------------------------------------------
(* What the list queries return.                                           *)

LEMMA LimitIsPositive ==
  ASSUME NEW n \in Nat
  PROVE  ListLimit(n) \in Nat \ {0}
<1>1. DefaultList \in Nat \ {0} /\ MaxList \in Nat \ {0}
  BY GatewayAssumption, Zenon
<1>2. QED
  BY <1>1 DEF ListLimit

\* How many rows an answer has.
PageSize(st, sub, limit) ==
  IF Cardinality(Matching(st, sub)) < limit THEN Cardinality(Matching(st, sub)) ELSE limit

LEMMA PageFits ==
  ASSUME born \in Columns, NEW st, NEW sub, NEW limit \in Nat \ {0}
  PROVE  /\ Matching(st, sub) \in SUBSET Requests
         /\ Cardinality(Matching(st, sub)) \in Nat /\ PageSize(st, sub, limit) \in Nat
         /\ 1..PageSize(st, sub, limit) \subseteq 1..Cardinality(Matching(st, sub))
<1>1. Matching(st, sub) \in SUBSET Requests
  BY DEF Matching, Rows
<1>2. Cardinality(Matching(st, sub)) \in Nat
  BY <1>1, PlaceIsInjective, Zenon
<1>3. QED
  BY <1>1, <1>2 DEF PageSize

\* Row i of the production store's answer is the row in place i.
LEMMA PostgresRows ==
  ASSUME born \in Columns, NEW st, NEW sub, NEW limit \in Nat \ {0}
  PROVE  /\ PostgresList(st, sub, limit) \in [1..PageSize(st, sub, limit) -> Matching(st, sub)]
         /\ \A i \in 1..PageSize(st, sub, limit) :
              Place(Matching(st, sub), PostgresList(st, sub, limit)[i]) = i - 1
<1> DEFINE found == Matching(st, sub)
           size  == PageSize(st, sub, limit)
           list  == PostgresList(st, sub, limit)
<1>1. list = [i \in 1..size |-> CHOOSE r \in found : Place(found, r) = i - 1]
  <2>1. limit # 0
    OBVIOUS
  <2>2. QED
    BY <2>1 DEF PostgresList, Place, Before, PageSize
<1>2. \A i \in 1..size : \E r \in found : Place(found, r) = i - 1
  BY PageFits, PlaceIsOnto, Zenon
<1> HIDE DEF list, size, found
<1>3. \A i \in 1..size : list[i] \in found /\ Place(found, list[i]) = i - 1
  BY <1>1, <1>2, Zenon
<1>4. list \in [1..size -> found]
  BY <1>1, <1>3
<1>5. QED
  BY <1>3, <1>4, Zenon DEF list, size, found

\* The two stores answer alike in any state with creation times.
LEMMA StoresAnswerAlike ==
  ASSUME born \in Columns, NEW st, NEW sub, NEW limit \in Nat \ {0}
  PROVE  MemoryList(st, sub, limit) = PostgresList(st, sub, limit)
<1> DEFINE found == Matching(st, sub)
           n     == Cardinality(found)
           size  == PageSize(st, sub, limit)
           list  == PostgresList(st, sub, limit)
           all   == Sorted(found)
<1>1. found \in SUBSET Requests /\ n \in Nat /\ size \in Nat /\ 1..size \subseteq 1..n
  BY PageFits, Zenon
<1>2. list \in [1..size -> found] /\ \A i \in 1..size : Place(found, list[i]) = i - 1
  BY PostgresRows, Zenon
<1>3. all \in [1..n -> found]
  BY <1>1, SortedExists, Zenon
<1>4. \A i \in 1..n : Place(found, all[i]) = i - 1
  BY <1>1, SortedExists, SortedByPlace, Zenon
<1>5. \A r, s \in found : Place(found, r) = Place(found, s) => r = s
  BY <1>1, PlaceIsInjective, Zenon
<1>6. size = IF n < limit THEN n ELSE limit
  BY DEF PageSize
<1>7. MemoryList(st, sub, limit) = IF limit > 0 /\ Len(all) > limit
                                   THEN SubSeq(all, 1, limit) ELSE all
  BY DEF MemoryList
<1> HIDE DEF list, found, n, all, size
<1>8. ASSUME NEW i \in 1..size PROVE list[i] = all[i]
  <2>1. i \in 1..n /\ list[i] \in found
    BY <1>1, <1>2, Zenon
  <2>2. all[i] \in found
    BY <1>3, <2>1, Zenon
  <2>3. Place(found, list[i]) = Place(found, all[i])
    BY <1>2, <1>4, <2>1, Zenon
  <2>4. QED
    BY <1>5, <2>1, <2>2, <2>3, Zenon
<1>9. all \in Seq(found) /\ Len(all) = n
  BY <1>1, <1>3
<1>10. CASE n > limit
  <2>1. MemoryList(st, sub, limit) = SubSeq(all, 1, limit)
    BY <1>7, <1>9, <1>10
  <2>2. SubSeq(all, 1, limit) = [i \in 1..limit |-> all[i]]
    BY <1>1, <1>9, <1>10
  <2>3. size = limit
    BY <1>1, <1>6, <1>10
  <2>4. list = [i \in 1..limit |-> all[i]]
    BY <1>2, <1>8, <2>3
  <2>5. QED
    BY <2>1, <2>2, <2>4 DEF list
<1>11. CASE ~(n > limit)
  <2>1. MemoryList(st, sub, limit) = all
    BY <1>7, <1>9, <1>11
  <2>2. size = n
    BY <1>1, <1>6, <1>11
  <2>3. list = [i \in 1..n |-> all[i]]
    BY <1>2, <1>8, <2>2
  <2>4. all = [i \in 1..n |-> all[i]]
    BY <1>3
  <2>5. QED
    BY <2>1, <2>3, <2>4, Zenon DEF list
<1>12. QED
  BY <1>10, <1>11

-----------------------------------------------------------------------------
(* The invariant.                                                          *)

\* The events of calls in flight.
Flights == [type : D!EventTypes, request : Requests, status : D!Statuses,
            prev : D!Statuses \cup {D!Absent}, at : Nat]

DomainInv ==
  /\ status \in [Requests -> D!Statuses \cup {D!Absent}]
  /\ clock \in Nat
  /\ pc \in [Handlers -> {"idle", "loaded", "stamped"}]
  /\ event \in [Handlers -> Flights \cup {NoEvent}]
  /\ reply \in [Handlers -> D!Codes]
  /\ \A h \in Handlers : pc[h] # "idle" => event[h] \in Flights

HandlerInv ==
  /\ owner \in [Requests -> Subjects \cup {Nobody}]
  /\ born \in Columns
  /\ busy \in [Handlers -> {"", "create", "update"}]
  /\ caller \in [Handlers -> Subjects \cup {Nobody}]
  /\ wrote \in [Handlers -> BOOLEAN]
  /\ answer \in [Handlers -> Nat]
  /\ shown \in [Handlers -> Seq(Requests)]

\* The row of a creation in flight is still to come, and no other call is about
\* the same request.
CreationInv ==
  \A h \in Handlers : pc[h] # "idle" /\ event[h].type = "request-created" =>
    /\ status[event[h].request] = D!Absent
    /\ \A k \in Handlers \ {h} : pc[k] # "idle" => event[k].request # event[h].request

\* A call in flight belongs to an HTTP request that waits and has not written;
\* once it has returned, its code tells whether it wrote.
Tells(at, b, w, code) ==
  /\ at # "idle" => b # "" /\ ~w
  /\ b # "" /\ at = "idle" => (code = "OK" => w) /\ (w => code \in {"OK", "Internal"})

ReplyInv == \A h \in Handlers : Tells(pc[h], busy[h], wrote[h], reply[h])

\* What was shown are rows, and a user's own.
MayShow(st, own, c, list) ==
  \A i \in 1..Len(list) :
    st[list[i]] # D!Absent /\ (roleOf(c) = "user" => own[list[i]] = c)

ShownInv == \A h \in Handlers : MayShow(status, owner, caller[h], shown[h])

\* AnswersTellTheTruth of one handler.
Honest(b, w, a) ==
  b = "" /\ a # 0 => (a = 201 => w) /\ (w => a \in {200, 201, 502})

HonestInv == \A h \in Handlers : Honest(busy[h], wrote[h], answer[h])

GatewayInv == DomainInv /\ HandlerInv /\ CreationInv /\ ReplyInv /\ ShownInv
              /\ HonestInv /\ CreateChecksAgree

LEMMA EmptyShown == \A st, own, c : MayShow(st, own, c, <<>>)
BY DEF MayShow

\* A request that comes in starts from a clean slate and leaves the others be.
LEMMA Accepted ==
  ASSUME GatewayInv, NEW h \in Handlers, NEW c \in Subjects \cup {Nobody}, Accept(h, c)
  PROVE  /\ busy[h] = "" /\ pc[h] = "idle"
         /\ caller' \in [Handlers -> Subjects \cup {Nobody}]
         /\ wrote' \in [Handlers -> BOOLEAN]
         /\ caller'[h] = c /\ ~wrote'[h]
         /\ \A k \in Handlers \ {h} : caller'[k] = caller[k] /\ wrote'[k] = wrote[k]
<1>1. busy[h] = "" /\ pc[h] = "idle"
  BY Zenon DEF Accept, GatewayInv, ReplyInv, Tells
<1>2. caller \in [Handlers -> Subjects \cup {Nobody}] /\ wrote \in [Handlers -> BOOLEAN]
  BY Zenon DEF GatewayInv, HandlerInv
<1>3. QED
  BY <1>1, <1>2, Zenon DEF Accept

\* Calls that return or go on with the request they are about.
LEMMA CreationKept ==
  ASSUME CreationInv, status' = status,
         \A k \in Handlers : pc'[k] # "idle" => /\ pc[k] # "idle"
                                                /\ event'[k].type = event[k].type
                                                /\ event'[k].request = event[k].request
  PROVE  CreationInv'
<1> SUFFICES ASSUME NEW k \in Handlers, pc'[k] # "idle", event'[k].type = "request-created"
             PROVE  /\ status'[event'[k].request] = D!Absent
                    /\ \A j \in Handlers \ {k} :
                         pc'[j] # "idle" => event'[j].request # event'[k].request
  BY Zenon DEF CreationInv
<1>1. pc[k] # "idle" /\ event[k].type = "request-created" /\ event'[k].request = event[k].request
  BY Zenon
<1>2. /\ status[event[k].request] = D!Absent
      /\ \A j \in Handlers \ {k} : pc[j] # "idle" => event[j].request # event[k].request
  BY <1>1, Zenon DEF CreationInv
<1>3. QED
  BY <1>1, <1>2, Zenon

\* An answer given without a call, about rows the caller may see.
LEMMA RespondInv ==
  ASSUME GatewayInv, NEW h \in Handlers, NEW c \in Subjects \cup {Nobody}, Accept(h, c),
         NEW code \in Nat \ {201}, NEW list \in Seq(Requests), Respond(h, code, list),
         MayShow(status, owner, c, list)
  PROVE  GatewayInv'
<1>1. /\ busy[h] = "" /\ pc[h] = "idle"
      /\ caller' \in [Handlers -> Subjects \cup {Nobody}]
      /\ wrote' \in [Handlers -> BOOLEAN]
      /\ caller'[h] = c /\ ~wrote'[h]
      /\ \A k \in Handlers \ {h} : caller'[k] = caller[k] /\ wrote'[k] = wrote[k]
  BY Accepted, Zenon
<1>2. UNCHANGED <<status, outbox, clock, pc, event, reply, owner, born, busy>>
  BY Zenon DEF Respond, domainVars, columns
<1>3. /\ answer' \in [Handlers -> Nat] /\ shown' \in [Handlers -> Seq(Requests)]
      /\ answer'[h] = code /\ shown'[h] = list
      /\ \A k \in Handlers \ {h} : answer'[k] = answer[k] /\ shown'[k] = shown[k]
  BY ZenonT(40) DEF Respond, GatewayInv, HandlerInv
<1>4. DomainInv'
  BY <1>2, Zenon DEF GatewayInv, DomainInv
<1>5. HandlerInv'
  BY <1>1, <1>2, <1>3, Zenon DEF GatewayInv, HandlerInv
<1>6. CreationInv'
  BY <1>2, CreationKept, Zenon DEF GatewayInv
<1>7. ReplyInv'
  <2> SUFFICES ASSUME NEW k \in Handlers PROVE Tells(pc'[k], busy'[k], wrote'[k], reply'[k])
    BY Zenon DEF ReplyInv
  <2>1. CASE k = h
    BY <1>1, <1>2, <1>3, <2>1, ZenonT(40) DEF Tells
  <2>2. CASE k # h
    BY <1>1, <1>2, <1>3, <2>2, ZenonT(40) DEF GatewayInv, ReplyInv
  <2>3. QED
    BY <2>1, <2>2
<1>8. ShownInv'
  <2> SUFFICES ASSUME NEW k \in Handlers PROVE MayShow(status', owner', caller'[k], shown'[k])
    BY Zenon DEF ShownInv
  <2>1. CASE k = h
    BY <1>1, <1>2, <1>3, <2>1, Zenon
  <2>2. CASE k # h
    BY <1>1, <1>2, <1>3, <2>2, ZenonT(40) DEF GatewayInv, ShownInv
  <2>3. QED
    BY <2>1, <2>2
<1>9. HonestInv'
  <2> SUFFICES ASSUME NEW k \in Handlers PROVE Honest(busy'[k], wrote'[k], answer'[k])
    BY Zenon DEF HonestInv
  <2>1. CASE k = h
    BY <1>1, <1>2, <1>3, <2>1, Zenon DEF Honest
  <2>2. CASE k # h
    BY <1>1, <1>2, <1>3, <2>2, ZenonT(40) DEF GatewayInv, HonestInv
  <2>3. QED
    BY <2>1, <2>2
<1>10. CreateChecksAgree'
  BY <1>2, Zenon DEF GatewayInv, CreateChecksAgree
<1>11. QED
  BY <1>4, <1>5, <1>6, <1>7, <1>8, <1>9, <1>10, Zenon DEF GatewayInv

\* What Answer and Proceed do to the handlers of the service.
LEMMA AnswerStep ==
  ASSUME DomainInv, NEW h \in Handlers, NEW code \in D!Codes, D!Answer(h, code)
  PROVE  /\ pc' \in [Handlers -> {"idle", "loaded", "stamped"}]
         /\ event' \in [Handlers -> Flights \cup {NoEvent}]
         /\ reply' \in [Handlers -> D!Codes]
         /\ pc'[h] = "idle" /\ reply'[h] = code
         /\ \A k \in Handlers \ {h} :
              pc'[k] = pc[k] /\ event'[k] = event[k] /\ reply'[k] = reply[k]
BY Zenon DEF DomainInv, D!Answer

LEMMA ProceedStep ==
  ASSUME DomainInv, NEW h \in Handlers, NEW at \in {"loaded", "stamped"}, NEW e \in Flights,
         D!Proceed(h, at, e)
  PROVE  /\ pc' \in [Handlers -> {"idle", "loaded", "stamped"}]
         /\ event' \in [Handlers -> Flights \cup {NoEvent}]
         /\ reply' \in [Handlers -> D!Codes]
         /\ pc'[h] = at /\ event'[h] = e /\ reply'[h] = "none"
         /\ \A k \in Handlers \ {h} :
              pc'[k] = pc[k] /\ event'[k] = event[k] /\ reply'[k] = reply[k]
<1>1. "none" \in D!Codes
  BY Zenon DEF D!Codes
<1>2. QED
  BY <1>1, Zenon DEF DomainInv, D!Proceed

LEMMA Waiting ==
  ASSUME HandlerInv, NEW h \in Handlers, NEW kind \in {"create", "update"}, Wait(h, kind)
  PROVE  /\ owner' = owner /\ born' = born
         /\ busy' \in [Handlers -> {"", "create", "update"}]
         /\ answer' \in [Handlers -> Nat]
         /\ shown' \in [Handlers -> Seq(Requests)]
         /\ busy'[h] = kind /\ answer'[h] = 0 /\ shown'[h] = <<>>
         /\ \A k \in Handlers \ {h} :
              busy'[k] = busy[k] /\ answer'[k] = answer[k] /\ shown'[k] = shown[k]
<1>1. 0 \in Nat /\ <<>> \in Seq(Requests)
  OBVIOUS
<1>2. QED
  BY <1>1, Zenon DEF HandlerInv, Wait, columns

\* A call the service answers at once.
LEMMA RefusedInv ==
  ASSUME GatewayInv, NEW h \in Handlers, NEW c \in Subjects, Accept(h, c),
         NEW kind \in {"create", "update"}, Wait(h, kind),
         NEW code \in D!Codes \ {"OK"}, D!Answer(h, code),
         kind = "create" => code # "InvalidArgument",
         UNCHANGED <<status, outbox, clock>>
  PROVE  GatewayInv'
<1>1. /\ busy[h] = "" /\ pc[h] = "idle"
      /\ caller' \in [Handlers -> Subjects \cup {Nobody}]
      /\ wrote' \in [Handlers -> BOOLEAN]
      /\ caller'[h] = c /\ ~wrote'[h]
      /\ \A k \in Handlers \ {h} : caller'[k] = caller[k] /\ wrote'[k] = wrote[k]
  BY Accepted, Zenon
<1>2. /\ owner' = owner /\ born' = born
      /\ busy' \in [Handlers -> {"", "create", "update"}]
      /\ answer' \in [Handlers -> Nat]
      /\ shown' \in [Handlers -> Seq(Requests)]
      /\ busy'[h] = kind /\ answer'[h] = 0 /\ shown'[h] = <<>>
      /\ \A k \in Handlers \ {h} :
           busy'[k] = busy[k] /\ answer'[k] = answer[k] /\ shown'[k] = shown[k]
  BY Waiting, Zenon DEF GatewayInv
<1>3. /\ pc' \in [Handlers -> {"idle", "loaded", "stamped"}]
      /\ event' \in [Handlers -> Flights \cup {NoEvent}]
      /\ reply' \in [Handlers -> D!Codes]
      /\ pc'[h] = "idle" /\ reply'[h] = code
      /\ \A k \in Handlers \ {h} :
           pc'[k] = pc[k] /\ event'[k] = event[k] /\ reply'[k] = reply[k]
  BY AnswerStep, Zenon DEF GatewayInv
<1>4. DomainInv'
  BY <1>3, Zenon DEF GatewayInv, DomainInv
<1>5. HandlerInv'
  BY <1>1, <1>2, Zenon DEF GatewayInv, HandlerInv
<1>6. CreationInv'
  <2>1. \A k \in Handlers : pc'[k] # "idle" => pc[k] # "idle" /\ event'[k] = event[k]
    BY <1>3, Zenon
  <2>2. QED
    BY <2>1, CreationKept, Zenon DEF GatewayInv
<1>7. ReplyInv'
  <2> SUFFICES ASSUME NEW k \in Handlers PROVE Tells(pc'[k], busy'[k], wrote'[k], reply'[k])
    BY Zenon DEF ReplyInv
  <2>1. CASE k = h
    BY <1>1, <1>2, <1>3, <2>1, ZenonT(40) DEF Tells
  <2>2. CASE k # h
    BY <1>1, <1>2, <1>3, <2>2, ZenonT(40) DEF GatewayInv, ReplyInv
  <2>3. QED
    BY <2>1, <2>2
<1>8. ShownInv'
  <2> SUFFICES ASSUME NEW k \in Handlers PROVE MayShow(status', owner', caller'[k], shown'[k])
    BY Zenon DEF ShownInv
  <2>1. CASE k = h
    <3>1. shown'[k] = <<>>
      BY <1>2, <2>1, Zenon
    <3>2. QED
      BY <3>1, EmptyShown, Zenon
  <2>2. CASE k # h
    BY <1>1, <1>2, <2>2, Zenon DEF GatewayInv, ShownInv
  <2>3. QED
    BY <2>1, <2>2
<1>9. HonestInv'
  <2> SUFFICES ASSUME NEW k \in Handlers PROVE Honest(busy'[k], wrote'[k], answer'[k])
    BY Zenon DEF HonestInv
  <2>1. CASE k = h
    BY <1>1, <1>2, <2>1, Zenon DEF Honest
  <2>2. CASE k # h
    BY <1>1, <1>2, <2>2, Zenon DEF GatewayInv, HonestInv
  <2>3. QED
    BY <2>1, <2>2
<1>10. CreateChecksAgree'
  BY <1>2, <1>3, ZenonT(40) DEF GatewayInv, CreateChecksAgree
<1>11. QED
  BY <1>4, <1>5, <1>6, <1>7, <1>8, <1>9, <1>10, Zenon DEF GatewayInv

\* A call that goes on with event e, a creation about an id nobody has.
LEMMA StartedInv ==
  ASSUME GatewayInv, NEW h \in Handlers, NEW c \in Subjects, Accept(h, c),
         NEW kind \in {"create", "update"}, Wait(h, kind),
         NEW at \in {"loaded", "stamped"}, NEW e \in Flights, D!Proceed(h, at, e),
         e.type = "request-created" => D!Fresh(e.request),
         e.type # "request-created" => status[e.request] # D!Absent,
         UNCHANGED <<status, outbox, clock>>
  PROVE  GatewayInv'
<1>1. /\ busy[h] = "" /\ pc[h] = "idle"
      /\ caller' \in [Handlers -> Subjects \cup {Nobody}]
      /\ wrote' \in [Handlers -> BOOLEAN]
      /\ caller'[h] = c /\ ~wrote'[h]
      /\ \A k \in Handlers \ {h} : caller'[k] = caller[k] /\ wrote'[k] = wrote[k]
  BY Accepted, Zenon
<1>2. /\ owner' = owner /\ born' = born
      /\ busy' \in [Handlers -> {"", "create", "update"}]
      /\ answer' \in [Handlers -> Nat]
      /\ shown' \in [Handlers -> Seq(Requests)]
      /\ busy'[h] = kind /\ answer'[h] = 0 /\ shown'[h] = <<>>
      /\ \A k \in Handlers \ {h} :
           busy'[k] = busy[k] /\ answer'[k] = answer[k] /\ shown'[k] = shown[k]
  BY Waiting, Zenon DEF GatewayInv
<1>3. /\ pc' \in [Handlers -> {"idle", "loaded", "stamped"}]
      /\ event' \in [Handlers -> Flights \cup {NoEvent}]
      /\ reply' \in [Handlers -> D!Codes]
      /\ pc'[h] = at /\ event'[h] = e /\ reply'[h] = "none"
      /\ \A k \in Handlers \ {h} :
           pc'[k] = pc[k] /\ event'[k] = event[k] /\ reply'[k] = reply[k]
  BY ProceedStep, Zenon DEF GatewayInv
<1>4. DomainInv'
  BY <1>3, Zenon DEF GatewayInv, DomainInv
<1>5. HandlerInv'
  BY <1>1, <1>2, Zenon DEF GatewayInv, HandlerInv
<1>6. CreationInv'
  <2> SUFFICES ASSUME NEW k \in Handlers, pc'[k] # "idle", event'[k].type = "request-created"
               PROVE  /\ status[event'[k].request] = D!Absent
                      /\ \A j \in Handlers \ {k} :
                           pc'[j] # "idle" => event'[j].request # event'[k].request
    BY Zenon DEF CreationInv
  <2>1. CASE k = h
    <3>1. event'[k] = e /\ D!Fresh(e.request)
      BY <1>3, <2>1, Zenon
    <3>2. \A j \in Handlers \ {k} : pc'[j] = pc[j] /\ event'[j] = event[j]
      BY <1>3, <2>1, Zenon
    <3>3. QED
      BY <3>1, <3>2, Zenon DEF D!Fresh
  <2>2. CASE k # h
    <3>1. pc'[k] = pc[k] /\ event'[k] = event[k]
      BY <1>3, <2>2, Zenon
    <3>2. /\ status[event[k].request] = D!Absent
          /\ \A j \in Handlers \ {k} : pc[j] # "idle" => event[j].request # event[k].request
      BY <3>1, Zenon DEF GatewayInv, CreationInv
    <3>3. e.request # event[k].request
      BY <3>1, <3>2, Zenon DEF D!Fresh
    <3>4. \A j \in Handlers \ {k} : j # h => pc'[j] = pc[j] /\ event'[j] = event[j]
      BY <1>3, Zenon
    <3>5. event'[h] = e
      BY <1>3, Zenon
    <3>6. QED
      BY <3>1, <3>2, <3>3, <3>4, <3>5, Zenon
  <2>3. QED
    BY <2>1, <2>2
<1>7. ReplyInv'
  <2> SUFFICES ASSUME NEW k \in Handlers PROVE Tells(pc'[k], busy'[k], wrote'[k], reply'[k])
    BY Zenon DEF ReplyInv
  <2>1. CASE k = h
    BY <1>1, <1>2, <1>3, <2>1, ZenonT(40) DEF Tells
  <2>2. CASE k # h
    BY <1>1, <1>2, <1>3, <2>2, ZenonT(40) DEF GatewayInv, ReplyInv
  <2>3. QED
    BY <2>1, <2>2
<1>8. ShownInv'
  <2> SUFFICES ASSUME NEW k \in Handlers PROVE MayShow(status', owner', caller'[k], shown'[k])
    BY Zenon DEF ShownInv
  <2>1. CASE k = h
    <3>1. shown'[k] = <<>>
      BY <1>2, <2>1, Zenon
    <3>2. QED
      BY <3>1, EmptyShown, Zenon
  <2>2. CASE k # h
    BY <1>1, <1>2, <2>2, ZenonT(40) DEF GatewayInv, ShownInv
  <2>3. QED
    BY <2>1, <2>2
<1>9. HonestInv'
  <2> SUFFICES ASSUME NEW k \in Handlers PROVE Honest(busy'[k], wrote'[k], answer'[k])
    BY Zenon DEF HonestInv
  <2>1. CASE k = h
    BY <1>1, <1>2, <2>1, Zenon DEF Honest
  <2>2. CASE k # h
    BY <1>1, <1>2, <2>2, ZenonT(40) DEF GatewayInv, HonestInv
  <2>3. QED
    BY <2>1, <2>2
<1>10. CreateChecksAgree'
  BY <1>2, <1>3, Zenon DEF GatewayInv, CreateChecksAgree
<1>11. QED
  BY <1>4, <1>5, <1>6, <1>7, <1>8, <1>9, <1>10, Zenon DEF GatewayInv

\* The HTTP statuses of gRPC codes.
LEMMA Mapped ==
  ASSUME NEW code
  PROVE  domainError(code) \in {400, 403, 404, 409, 502} /\ domainError("Internal") = 502
BY DEF domainError

\* The answer to a call that has returned.
LEMMA ReturnInv ==
  ASSUME GatewayInv, NEW h \in Handlers, Return(h)
  PROVE  GatewayInv'
<1> DEFINE code == IF reply[h] = "OK" THEN (IF busy[h] = "create" THEN 201 ELSE 200)
                   ELSE IF busy[h] = "create" THEN 502 ELSE domainError(reply[h])
<1>1. busy[h] # "" /\ pc[h] = "idle"
  BY Zenon DEF Return
<1>2. /\ UNCHANGED <<status, outbox, clock, pc, event, reply, owner, born>>
      /\ UNCHANGED <<caller, wrote, shown>>
  BY Zenon DEF Return, domainVars, columns
<1>3. domainError(reply[h]) \in Nat
  BY Mapped
<1>4. code \in Nat
  BY <1>3
<1>5. answer' = [answer EXCEPT ![h] = code] /\ busy' = [busy EXCEPT ![h] = ""]
  BY Zenon DEF Return
<1>6. /\ (reply[h] = "OK" => wrote[h]) /\ (wrote[h] => reply[h] \in {"OK", "Internal"})
  BY <1>1, Zenon DEF GatewayInv, ReplyInv, Tells
<1>7. /\ code = 201 => reply[h] = "OK"
      /\ reply[h] \in {"OK", "Internal"} => code \in {200, 201, 502}
  <2>1. domainError(reply[h]) # 201
    BY Mapped
  <2>2. reply[h] = "Internal" => domainError(reply[h]) = 502
    BY Mapped
  <2>3. QED
    BY <2>1, <2>2
<1> HIDE DEF code
<1>8. /\ answer' \in [Handlers -> Nat] /\ busy' \in [Handlers -> {"", "create", "update"}]
      /\ answer'[h] = code /\ busy'[h] = ""
      /\ \A k \in Handlers \ {h} : answer'[k] = answer[k] /\ busy'[k] = busy[k]
  BY <1>4, <1>5, Zenon DEF GatewayInv, HandlerInv
<1>9. DomainInv' /\ CreationInv' /\ ShownInv'
  BY <1>2, Zenon DEF GatewayInv, DomainInv, CreationInv, ShownInv
<1>10. HandlerInv'
  BY <1>2, <1>8, Zenon DEF GatewayInv, HandlerInv
<1>11. ReplyInv'
  BY <1>1, <1>2, <1>8, Zenon DEF GatewayInv, ReplyInv, Tells
<1>12. HonestInv'
  <2> SUFFICES ASSUME NEW k \in Handlers PROVE Honest(busy'[k], wrote'[k], answer'[k])
    BY Zenon DEF HonestInv
  <2>1. CASE k = h
    <3>1. (code = 201 => wrote[h]) /\ (wrote[h] => code \in {200, 201, 502})
      BY <1>6, <1>7, ZenonT(40)
    <3>2. QED
      BY <1>2, <1>8, <2>1, <3>1, ZenonT(40) DEF Honest
  <2>2. CASE k # h
    BY <1>2, <1>8, <2>2, ZenonT(40) DEF GatewayInv, HonestInv
  <2>3. QED
    BY <2>1, <2>2
<1>13. CreateChecksAgree'
  BY <1>2, <1>8, Zenon DEF GatewayInv, CreateChecksAgree
<1>14. QED
  BY <1>9, <1>10, <1>11, <1>12, <1>13, Zenon DEF GatewayInv

\* The store's transaction commits.
LEMMA CommitInv ==
  ASSUME GatewayInv, NEW h \in Handlers, Commit(h)
  PROVE  GatewayInv'
<1> DEFINE e == event[h]
<1>1. pc[h] = "stamped" /\ e \in Flights
  BY Zenon DEF Commit, D!Persist, GatewayInv, DomainInv
<1>2. e.request \in Requests /\ e.status \in D!Statuses /\ e.at \in Nat
  BY <1>1 DEF Flights
<1>3. busy[h] # "" /\ ~wrote[h]
  BY <1>1, Zenon DEF GatewayInv, ReplyInv, Tells
<1>4. PICK code \in {"OK", "Internal"} : D!Answer(h, code)
  BY Zenon DEF Commit, D!Persist
<1>5. code \in D!Codes
  BY Zenon DEF D!Codes
<1>6. /\ pc' \in [Handlers -> {"idle", "loaded", "stamped"}]
      /\ event' \in [Handlers -> Flights \cup {NoEvent}]
      /\ reply' \in [Handlers -> D!Codes]
      /\ pc'[h] = "idle" /\ reply'[h] = code
      /\ \A k \in Handlers \ {h} :
           pc'[k] = pc[k] /\ event'[k] = event[k] /\ reply'[k] = reply[k]
  BY <1>4, <1>5, AnswerStep, Zenon DEF GatewayInv
<1>7. UNCHANGED <<clock, busy, caller, answer, shown>>
  BY Zenon DEF Commit, D!Persist
<1> HIDE DEF e
<1>8. /\ status' \in [Requests -> D!Statuses \cup {D!Absent}]
      /\ status'[e.request] = e.status
      /\ \A r \in Requests : r # e.request => status'[r] = status[r]
  BY <1>2, Zenon DEF Commit, D!Persist, GatewayInv, DomainInv, e
<1>9. /\ wrote' \in [Handlers -> BOOLEAN] /\ wrote'[h]
      /\ \A k \in Handlers \ {h} : wrote'[k] = wrote[k]
  BY Zenon DEF Commit, GatewayInv, HandlerInv
<1>10. /\ owner' \in [Requests -> Subjects \cup {Nobody}] /\ born' \in Columns
       /\ \A r \in Requests : owner'[r] # owner[r] =>
            r = e.request /\ e.type = "request-created"
  <2>1. /\ owner \in [Requests -> Subjects \cup {Nobody}] /\ born \in Columns
        /\ caller[h] \in Subjects \cup {Nobody}
    BY Zenon DEF GatewayInv, HandlerInv
  <2>2. CASE e.type = "request-created"
    <3>1. owner' = [owner EXCEPT ![e.request] = caller[h]]
          /\ born' = [born EXCEPT ![e.request] = e.at]
      BY <2>2, Zenon DEF Commit, e
    <3>2. QED
      BY <1>2, <2>1, <2>2, <3>1, Zenon DEF Columns
  <2>3. CASE e.type # "request-created"
    <3>1. owner' = owner /\ born' = born
      BY <2>3, Zenon DEF Commit, e, columns
    <3>2. QED
      BY <2>1, <3>1, Zenon
  <2>4. QED
    BY <2>2, <2>3
<1>11. D!Absent \notin D!Statuses
  BY DEF D!Absent, D!Statuses
<1>12. DomainInv'
  BY <1>6, <1>7, <1>8, Zenon DEF GatewayInv, DomainInv
<1>13. HandlerInv'
  BY <1>7, <1>9, <1>10, Zenon DEF GatewayInv, HandlerInv
<1>14. CreationInv'
  <2> SUFFICES ASSUME NEW k \in Handlers, pc'[k] # "idle", event'[k].type = "request-created"
               PROVE  /\ status'[event'[k].request] = D!Absent
                      /\ \A j \in Handlers \ {k} :
                           pc'[j] # "idle" => event'[j].request # event'[k].request
    BY Zenon DEF CreationInv
  <2>1. k # h /\ pc'[k] = pc[k] /\ event'[k] = event[k]
    BY <1>6, Zenon
  <2>2. /\ status[event[k].request] = D!Absent
        /\ \A j \in Handlers \ {k} : pc[j] # "idle" => event[j].request # event[k].request
    BY <2>1, Zenon DEF GatewayInv, CreationInv
  <2>3. \A j \in Handlers : pc'[j] # "idle" => pc[j] # "idle" /\ event'[j] = event[j]
    BY <1>6, Zenon
  <2>4. pc[h] # "idle"
    BY <1>1
  <2>5. event[k].request # e.request
    BY <2>1, <2>2, <2>4, Zenon DEF e
  <2>6. event[k] \in Flights
    BY <2>1, Zenon DEF GatewayInv, DomainInv
  <2>7. event[k].request \in Requests
    BY <2>6 DEF Flights
  <2>8. status'[event[k].request] = D!Absent
    BY <1>8, <2>2, <2>5, <2>7, Zenon
  <2>9. QED
    BY <2>1, <2>2, <2>3, <2>8, Zenon
<1>15. ReplyInv'
  <2> SUFFICES ASSUME NEW k \in Handlers PROVE Tells(pc'[k], busy'[k], wrote'[k], reply'[k])
    BY Zenon DEF ReplyInv
  <2>1. CASE k = h
    BY <1>6, <1>9, <2>1, ZenonT(40) DEF Tells
  <2>2. CASE k # h
    BY <1>6, <1>7, <1>9, <2>2, ZenonT(40) DEF GatewayInv, ReplyInv
  <2>3. QED
    BY <2>1, <2>2
<1>16. ShownInv'
  <2> SUFFICES ASSUME NEW k \in Handlers, NEW i \in 1..Len(shown[k])
               PROVE  /\ status'[shown[k][i]] # D!Absent
                      /\ roleOf(caller[k]) = "user" => owner'[shown[k][i]] = caller[k]
    BY <1>7, Zenon DEF ShownInv, MayShow
  <2>1. shown[k] \in Seq(Requests)
    BY Zenon DEF GatewayInv, HandlerInv
  <2>2. shown[k][i] \in Requests
    BY <2>1
  <2>3. /\ status[shown[k][i]] # D!Absent
        /\ roleOf(caller[k]) = "user" => owner[shown[k][i]] = caller[k]
    BY Zenon DEF GatewayInv, ShownInv, MayShow
  <2>4. status'[shown[k][i]] # D!Absent
    BY <1>2, <1>8, <1>11, <2>2, <2>3, Zenon
  <2>5. e.type = "request-created" => status[e.request] = D!Absent
    BY <1>1, Zenon DEF GatewayInv, CreationInv, e
  <2>6. owner'[shown[k][i]] = owner[shown[k][i]]
    BY <1>10, <2>2, <2>3, <2>5, Zenon
  <2>7. QED
    BY <2>3, <2>4, <2>6, Zenon
<1>17. HonestInv'
  <2> SUFFICES ASSUME NEW k \in Handlers PROVE Honest(busy'[k], wrote'[k], answer'[k])
    BY Zenon DEF HonestInv
  <2>1. CASE k = h
    BY <1>3, <1>7, <2>1, ZenonT(40) DEF Honest
  <2>2. CASE k # h
    BY <1>7, <1>9, <2>2, Zenon DEF GatewayInv, HonestInv
  <2>3. QED
    BY <2>1, <2>2
<1>18. CreateChecksAgree'
  BY <1>6, <1>7, Zenon DEF GatewayInv, CreateChecksAgree
<1>19. QED
  BY <1>12, <1>13, <1>14, <1>15, <1>16, <1>17, <1>18, ZenonT(40) DEF GatewayInv

\* What a step that leaves the gateway's variables and the rows alone has to keep.
LEMMA QuietInv ==
  ASSUME GatewayInv, UNCHANGED <<status, owner, born, busy, caller, wrote, answer, shown>>
  PROVE  HandlerInv' /\ ShownInv' /\ HonestInv'
BY Zenon DEF GatewayInv, HandlerInv, ShownInv, HonestInv

\* The update reads the clock.
LEMMA StampInv ==
  ASSUME GatewayInv, NEW h \in Handlers, D!StampUpdate(h), UNCHANGED <<columns, gatewayVars>>
  PROVE  GatewayInv'
<1> DEFINE e == [event[h] EXCEPT !.at = clock]
<1>1. pc[h] = "loaded" /\ event[h] \in Flights /\ clock \in Nat
  BY Zenon DEF D!StampUpdate, GatewayInv, DomainInv
<1>2. e \in Flights /\ e.type = event[h].type /\ e.request = event[h].request
  BY <1>1 DEF Flights
<1>3. D!Proceed(h, "stamped", e) /\ UNCHANGED <<status, outbox, clock>>
  BY Zenon DEF D!StampUpdate
<1>4. UNCHANGED <<status, owner, born, busy, caller, wrote, answer, shown>>
  BY <1>3, Zenon DEF columns, gatewayVars
<1> HIDE DEF e
<1>5. /\ pc' \in [Handlers -> {"idle", "loaded", "stamped"}]
      /\ event' \in [Handlers -> Flights \cup {NoEvent}]
      /\ reply' \in [Handlers -> D!Codes]
      /\ pc'[h] = "stamped" /\ event'[h] = e /\ reply'[h] = "none"
      /\ \A k \in Handlers \ {h} :
           pc'[k] = pc[k] /\ event'[k] = event[k] /\ reply'[k] = reply[k]
  BY <1>2, <1>3, ProceedStep, Zenon DEF GatewayInv
<1>6. DomainInv'
  BY <1>2, <1>3, <1>5, Zenon DEF GatewayInv, DomainInv
<1>7. CreationInv'
  <2>1. \A k \in Handlers : /\ pc'[k] # "idle" => pc[k] # "idle"
                            /\ event'[k].type = event[k].type
                            /\ event'[k].request = event[k].request
    BY <1>1, <1>2, <1>5, Zenon
  <2>2. QED
    BY <1>4, <2>1, CreationKept, Zenon DEF GatewayInv
<1>8. ReplyInv'
  <2> SUFFICES ASSUME NEW k \in Handlers PROVE Tells(pc'[k], busy'[k], wrote'[k], reply'[k])
    BY Zenon DEF ReplyInv
  <2>1. CASE k = h
    <3>1. busy[h] # "" /\ ~wrote[h]
      BY <1>1, Zenon DEF GatewayInv, ReplyInv, Tells
    <3>2. QED
      BY <1>4, <1>5, <2>1, <3>1, Zenon DEF Tells
  <2>2. CASE k # h
    BY <1>4, <1>5, <2>2, ZenonT(40) DEF GatewayInv, ReplyInv
  <2>3. QED
    BY <2>1, <2>2
<1>9. CreateChecksAgree'
  BY <1>4, <1>5, Zenon DEF GatewayInv, CreateChecksAgree
<1>10. QED
  BY <1>4, <1>6, <1>7, <1>8, <1>9, QuietInv, Zenon DEF GatewayInv

\* The transaction is rolled back.
LEMMA RollbackInv ==
  ASSUME GatewayInv, NEW h \in Handlers, D!PersistFails(h), UNCHANGED <<columns, gatewayVars>>
  PROVE  GatewayInv'
<1>1. pc[h] = "stamped" /\ D!Answer(h, "Internal") /\ UNCHANGED <<status, outbox, clock>>
  BY Zenon DEF D!PersistFails
<1>2. UNCHANGED <<status, owner, born, busy, caller, wrote, answer, shown>>
  BY <1>1, Zenon DEF columns, gatewayVars
<1>3. "Internal" \in D!Codes
  BY Zenon DEF D!Codes
<1>4. /\ pc' \in [Handlers -> {"idle", "loaded", "stamped"}]
      /\ event' \in [Handlers -> Flights \cup {NoEvent}]
      /\ reply' \in [Handlers -> D!Codes]
      /\ pc'[h] = "idle" /\ reply'[h] = "Internal"
      /\ \A k \in Handlers \ {h} :
           pc'[k] = pc[k] /\ event'[k] = event[k] /\ reply'[k] = reply[k]
  BY <1>1, <1>3, AnswerStep, Zenon DEF GatewayInv
<1>5. DomainInv'
  BY <1>1, <1>4, Zenon DEF GatewayInv, DomainInv
<1>6. CreationInv'
  <2>1. \A k \in Handlers : pc'[k] # "idle" => pc[k] # "idle" /\ event'[k] = event[k]
    BY <1>4, Zenon
  <2>2. QED
    BY <1>2, <2>1, CreationKept, Zenon DEF GatewayInv
<1>7. ReplyInv'
  <2> SUFFICES ASSUME NEW k \in Handlers PROVE Tells(pc'[k], busy'[k], wrote'[k], reply'[k])
    BY Zenon DEF ReplyInv
  <2>1. CASE k = h
    BY <1>4, <2>1, Zenon DEF Tells
  <2>2. CASE k # h
    BY <1>2, <1>4, <2>2, ZenonT(40) DEF GatewayInv, ReplyInv
  <2>3. QED
    BY <2>1, <2>2
<1>8. CreateChecksAgree'
  BY <1>2, <1>4, Zenon DEF GatewayInv, CreateChecksAgree
<1>9. QED
  BY <1>2, <1>5, <1>6, <1>7, <1>8, QuietInv, Zenon DEF GatewayInv

\* The process restarts.
LEMMA RestartInv ==
  ASSUME GatewayInv, D!Restart, UNCHANGED <<columns, gatewayVars>>
  PROVE  GatewayInv'
<1>1. /\ pc' = [h \in Handlers |-> "idle"] /\ event' = [h \in Handlers |-> NoEvent]
      /\ reply' = [h \in Handlers |-> IF pc[h] = "idle" THEN reply[h] ELSE "Unavailable"]
      /\ UNCHANGED <<status, outbox, clock>>
  BY Zenon DEF D!Restart
<1>2. UNCHANGED <<status, owner, born, busy, caller, wrote, answer, shown>>
  BY <1>1, Zenon DEF columns, gatewayVars
<1>3. \A h \in Handlers :
        /\ pc'[h] = "idle"
        /\ reply'[h] = IF pc[h] = "idle" THEN reply[h] ELSE "Unavailable"
  BY <1>1, Zenon
<1>4. reply \in [Handlers -> D!Codes] /\ "Unavailable" \in D!Codes
  BY Zenon DEF GatewayInv, DomainInv, D!Codes
<1>5. reply' \in [Handlers -> D!Codes]
  BY <1>1, <1>4
<1>6. DomainInv'
  BY <1>1, <1>3, <1>5, Zenon DEF GatewayInv, DomainInv
<1>7. CreationInv'
  BY <1>3, Zenon DEF CreationInv
<1>8. ReplyInv'
  <2> SUFFICES ASSUME NEW k \in Handlers PROVE Tells(pc'[k], busy'[k], wrote'[k], reply'[k])
    BY Zenon DEF ReplyInv
  <2>1. Tells(pc[k], busy[k], wrote[k], reply[k])
    BY Zenon DEF GatewayInv, ReplyInv
  <2>2. CASE pc[k] = "idle"
    BY <1>2, <1>3, <2>1, <2>2, Zenon
  <2>3. CASE pc[k] # "idle"
    BY <1>2, <1>3, <2>1, <2>3, Zenon DEF Tells
  <2>4. QED
    BY <2>2, <2>3
<1>9. CreateChecksAgree'
  BY <1>2, <1>3, Zenon DEF GatewayInv, CreateChecksAgree
<1>10. QED
  BY <1>2, <1>6, <1>7, <1>8, <1>9, QuietInv, Zenon DEF GatewayInv

LEMMA DomainStepInv ==
  ASSUME GatewayInv, DomainStep
  PROVE  GatewayInv'
<1>1. UNCHANGED <<columns, gatewayVars>>
  BY Zenon DEF DomainStep
<1>2. CASE D!Tick
  <2>1. clock \in Nat /\ clock' = clock + 1 /\ UNCHANGED <<status, outbox, pc, event, reply>>
    BY <1>2, Zenon DEF D!Tick, GatewayInv, DomainInv
  <2>2. clock' \in Nat
    BY <2>1
  <2>3. UNCHANGED <<owner, born, busy, caller, wrote, answer, shown>>
    BY <1>1, Zenon DEF columns, gatewayVars
  <2>4. DomainInv'
    BY <2>1, <2>2, Zenon DEF GatewayInv, DomainInv
  <2>5. CreationInv' /\ ReplyInv' /\ CreateChecksAgree'
    BY <2>1, <2>3, Zenon DEF GatewayInv, CreationInv, ReplyInv, CreateChecksAgree
  <2>6. QED
    BY <2>1, <2>3, <2>4, <2>5, QuietInv, Zenon DEF GatewayInv
<1>3. QED
  BY <1>1, <1>2, StampInv, RollbackInv, RestartInv, Zenon DEF DomainStep

-----------------------------------------------------------------------------
(* The steps of an HTTP request.                                           *)

\* What the gateway lets through, the service accepts.
LEMMA PayloadAccepted ==
  ASSUME NEW p \in Payloads, NEW c \in Subjects, validatePayload(p)
  PROVE  D!CreateCheck(CreateInput(p, c)) = "OK"
<1> MaxTitle \in Nat
  BY GatewayAssumption, Zenon
<1>1. p.trimmed \in Nat /\ p.len \in Nat /\ p.trimmed <= p.len
  BY DEF Payloads
<1>2. p.trimmed # 0 /\ p.trimmed <= MaxTitle /\ p.description = "fits"
  BY <1>1 DEF validatePayload
<1>3. c # Nobody
  BY GatewayAssumption, Zenon
<1>4. CreateInput(p, c) = [title |-> "fits", description |-> "fits", subject |-> "given"]
  BY <1>2, <1>3, Zenon DEF CreateInput
<1>5. QED
  BY <1>4 DEF D!CreateCheck

LEMMA ParametersAreNat ==
  (\A n \in 0..MaxList : n \in Nat) /\ (\A n \in 0..(MaxList + 1) : n \in Nat)
OBVIOUS

LEMMA NothingShown == <<>> \in Seq(Requests)
OBVIOUS

\* An answer that shows nothing.
LEMMA RefusalInv ==
  ASSUME GatewayInv, NEW h \in Handlers, NEW c \in Subjects \cup {Nobody}, Accept(h, c),
         NEW code \in Nat \ {201}, Respond(h, code, <<>>)
  PROVE  GatewayInv'
BY RespondInv, NothingShown, EmptyShown, Zenon

LEMMA CreateInv ==
  ASSUME GatewayInv, NEW h \in Handlers, NEW c \in Subjects, NEW p \in Payloads,
         handleCreateRequest(h, c, p)
  PROVE  GatewayInv'
<1>1. Accept(h, c)
  BY Zenon DEF handleCreateRequest
<1>2. CASE Respond(h, 400, <<>>)
  <2> DEFINE code == 400
  <2>1. code \in Nat \ {201} /\ c \in Subjects \cup {Nobody}
    OBVIOUS
  <2>2. Respond(h, code, <<>>)
    BY <1>2
  <2> HIDE DEF code
  <2>3. QED
    BY <1>1, <2>1, <2>2, RefusalInv, Zenon
<1>3. CASE /\ validatePayload(p) /\ D!CreateRequest(h, CreateInput(p, c)) /\ Wait(h, "create")
  <2>1. D!CreateCheck(CreateInput(p, c)) = "OK"
    BY <1>3, PayloadAccepted, Zenon
  <2>2. UNCHANGED <<status, outbox, clock>>
    BY <1>3, Zenon DEF D!CreateRequest
  <2>3. PICK r \in Requests :
          /\ D!Fresh(r)
          /\ D!Proceed(h, "stamped",
               [type |-> "request-created", request |-> r, status |-> "created",
                prev |-> D!Absent, at |-> clock])
    BY <1>3, <2>1, Zenon DEF D!CreateRequest
  <2> DEFINE e == [type |-> "request-created", request |-> r, status |-> "created",
                   prev |-> D!Absent, at |-> clock]
  <2>4. clock \in Nat
    BY Zenon DEF GatewayInv, DomainInv
  <2>5. e \in Flights
    BY <2>4 DEF Flights, D!EventTypes, D!Statuses
  <2>6. e.type = "request-created" /\ e.request = r
    OBVIOUS
  <2> HIDE DEF e
  <2>7. D!Proceed(h, "stamped", e)
    BY <2>3, Zenon DEF e
  <2>8. QED
    BY <1>1, <1>3, <2>2, <2>3, <2>5, <2>6, <2>7, StartedInv, Zenon
<1>4. QED
  BY <1>2, <1>3, Zenon DEF handleCreateRequest

LEMMA UpdateInv ==
  ASSUME GatewayInv, NEW h \in Handlers, NEW c \in Subjects, NEW r \in Requests, NEW to,
         handleUpdateStatus(h, c, r, to)
  PROVE  GatewayInv'
<1> DEFINE in == [request |-> r, actor |-> "given", role |-> roleOf(c), status |-> to]
<1>1. Accept(h, c)
  BY Zenon DEF handleUpdateStatus
<1>2. CASE Respond(h, 400, <<>>) \/ Respond(h, 403, <<>>)
  <2>1. c \in Subjects \cup {Nobody}
    BY Zenon
  <2>2. PICK code \in Nat \ {201} : Respond(h, code, <<>>)
    BY <1>2
  <2>3. QED
    BY <1>1, <2>1, <2>2, RefusalInv, Zenon
<1>3. CASE D!LoadRequest(h, in) /\ Wait(h, "update")
  <2>1. UNCHANGED <<status, outbox, clock>>
    BY <1>3, Zenon DEF D!LoadRequest
  <2>2. D!UpdateCheck(in) \in D!Codes /\ D!LoadCheck(in) \in D!Codes /\ "Internal" \in D!Codes
    BY DEF D!UpdateCheck, D!LoadCheck, D!Codes
  <2>3. ASSUME NEW code \in D!Codes \ {"OK"}, D!Answer(h, code) PROVE GatewayInv'
    BY <1>1, <1>3, <2>1, <2>3, RefusedInv, ZenonT(40)
  <2>4. CASE \/ D!UpdateCheck(in) # "OK" /\ D!Answer(h, D!UpdateCheck(in))
             \/ D!LoadCheck(in) # "OK" /\ D!Answer(h, D!LoadCheck(in))
             \/ D!Answer(h, "Internal")
    BY <2>2, <2>3, <2>4
  <2> DEFINE e == [type |-> "request-status-changed", request |-> in.request,
                   status |-> in.status, prev |-> status[in.request], at |-> clock]
  <2>5. CASE /\ D!UpdateCheck(in) = "OK" /\ D!LoadCheck(in) = "OK"
             /\ D!Proceed(h, "loaded", e)
    <3>1. clock \in Nat /\ status[r] \in D!Statuses \cup {D!Absent}
      BY Zenon DEF GatewayInv, DomainInv
    <3>2. in.request = r /\ in.status = to
      OBVIOUS
    <3>3. to \in D!Statuses
      BY <2>5, <3>2 DEF D!UpdateCheck
    <3>4. status[r] # D!Absent
      BY <2>5, <3>2 DEF D!LoadCheck
    <3> HIDE DEF in
    <3>5. e \in Flights
      BY <3>1, <3>2, <3>3 DEF Flights, D!EventTypes
    <3>6. e.type = "request-status-changed" /\ e.request = r
      BY <3>2
    <3> HIDE DEF e
    <3>7. e.type # "request-created"
      BY <3>6
    <3>8. QED
      BY <1>1, <1>3, <2>1, <2>5, <3>4, <3>5, <3>6, <3>7, StartedInv, ZenonT(40)
  <2>6. QED
    BY <1>3, <2>4, <2>5, Zenon DEF D!LoadRequest
<1>4. QED
  BY <1>2, <1>3, Zenon DEF handleUpdateStatus

\* GET /requests/{id}: one row the caller may see, or none.
LEMMA GetInv ==
  ASSUME GatewayInv, NEW h \in Handlers, NEW c \in Subjects, NEW r \in Requests,
         handleGetRequest(h, c, r)
  PROVE  GatewayInv'
<1>1. Accept(h, c) /\ c \in Subjects \cup {Nobody}
  BY Zenon DEF handleGetRequest
<1>2. CASE r \in Rows /\ MaySee(c, r) /\ Respond(h, 200, <<r>>)
  <2> DEFINE code == 200
  <2>1. <<r>> \in Seq(Requests) /\ code \in Nat \ {201}
    OBVIOUS
  <2>2. Respond(h, code, <<r>>)
    BY <1>2
  <2>3. status[r] # D!Absent
    BY <1>2 DEF Rows
  <2>4. roleOf(c) = "user" => owner[r] = c
    BY <1>2 DEF MaySee
  <2>5. MayShow(status, owner, c, <<r>>)
    BY <2>3, <2>4 DEF MayShow
  <2> HIDE DEF code
  <2>6. QED
    BY <1>1, <2>1, <2>2, <2>5, RespondInv, Zenon
<1>3. CASE \/ Respond(h, domainError("NotFound"), <<>>)
           \/ Respond(h, domainError("Internal"), <<>>)
  <2>1. domainError("NotFound") \in Nat \ {201} /\ domainError("Internal") \in Nat \ {201}
    BY Mapped
  <2>2. QED
    BY <1>1, <1>3, <2>1, RefusalInv, Zenon
<1>4. QED
  BY <1>2, <1>3, Zenon DEF handleGetRequest

\* GET /requests: rows the query found, a user's being the user's own.
LEMMA ListInv ==
  ASSUME GatewayInv, NEW h \in Handlers, NEW c \in Subjects,
         NEW st, NEW sub, NEW n \in Nat, handleListRequests(h, c, st, sub, n)
  PROVE  GatewayInv'
<1>1. Accept(h, c) /\ c \in Subjects \cup {Nobody}
  BY Zenon DEF handleListRequests
<1>2. CASE Respond(h, 400, <<>>) \/ Respond(h, domainError("Internal"), <<>>)
  <2>1. PICK code \in {400, domainError("Internal")} : Respond(h, code, <<>>)
    BY <1>2
  <2>2. code \in Nat \ {201}
    BY Mapped
  <2>3. QED
    BY <1>1, <2>1, <2>2, RefusalInv, Zenon
<1> DEFINE who  == IF roleOf(c) = "operator" THEN sub ELSE c
           list == PostgresList(st, who, ListLimit(n))
           size == PageSize(st, who, ListLimit(n))
<1>3. CASE Respond(h, 200, list)
  <2>1. born \in Columns /\ ListLimit(n) \in Nat \ {0}
    BY LimitIsPositive, Zenon DEF GatewayInv, HandlerInv
  <2>2. list \in [1..size -> Matching(st, who)] /\ size \in Nat
    BY <2>1, PostgresRows, PageFits, Zenon
  <2>3. roleOf(c) = "user" => who = c /\ who # ""
    <3>1. c # "" /\ "user" # "operator"
      BY GatewayAssumption
    <3>2. QED
      BY <3>1, Zenon
  <2>4. \A r \in Matching(st, who) : r \in Requests /\ status[r] # D!Absent
                                    /\ (roleOf(c) = "user" => owner[r] = c)
    BY <2>3, Zenon DEF Matching, Rows
  <2> HIDE DEF list, size, who
  <2>5. list \in Seq(Matching(st, who)) /\ Len(list) = size
    BY <2>2
  <2>6. \A i \in 1..Len(list) : list[i] \in Matching(st, who)
    BY <2>2, <2>5, Zenon
  <2>7. list \in Seq(Requests)
    <3>1. Matching(st, who) \subseteq Requests
      BY <2>4, Zenon
    <3>2. QED
      BY <2>5, <3>1
  <2>8. MayShow(status, owner, c, list)
    BY <2>4, <2>6, Zenon DEF MayShow
  <2> DEFINE code == 200
  <2>9. code \in Nat \ {201} /\ Respond(h, code, list)
    BY <1>3
  <2> HIDE DEF code
  <2>10. QED
    BY <1>1, <2>7, <2>8, <2>9, RespondInv, Zenon
<1>4. QED
  BY <1>2, <1>3, Zenon DEF handleListRequests

LEMMA InitInv == Init => GatewayInv
<1> SUFFICES ASSUME Init PROVE GatewayInv
  OBVIOUS
<1>1. DomainInv
  <2>1. status \in [Requests -> D!Statuses \cup {D!Absent}] /\ clock \in Nat
    BY DEF Init, D!Init
  <2>2. pc = [h \in Handlers |-> "idle"] /\ event = [h \in Handlers |-> NoEvent]
        /\ reply = [h \in Handlers |-> "none"] /\ "none" \in D!Codes
    BY Zenon DEF Init, D!Init, D!Codes
  <2>3. QED
    BY <2>1, <2>2 DEF DomainInv
<1>2. HandlerInv
  <2>1. owner \in [Requests -> Subjects \cup {Nobody}]
        /\ caller \in [Handlers -> Subjects \cup {Nobody}]
        /\ wrote \in [Handlers -> BOOLEAN]
    BY Zenon DEF Init
  <2>2. born \in Columns /\ busy \in [Handlers -> {"", "create", "update"}]
        /\ answer \in [Handlers -> Nat] /\ shown \in [Handlers -> Seq(Requests)]
    <3>1. 0 \in Nat
      OBVIOUS
    <3>2. QED
      BY <3>1, NothingShown, Zenon DEF Init, Columns
  <2>3. QED
    BY <2>1, <2>2, Zenon DEF HandlerInv
<1>3. \A h \in Handlers : /\ pc[h] = "idle" /\ busy[h] = "" /\ answer[h] = 0
                          /\ shown[h] = <<>>
  BY Zenon DEF Init, D!Init
<1>4. CreationInv /\ ReplyInv /\ HonestInv /\ CreateChecksAgree
  BY <1>3, ZenonT(40) DEF CreationInv, ReplyInv, Tells, HonestInv, Honest, CreateChecksAgree
<1>5. ShownInv
  BY <1>3, EmptyShown, Zenon DEF ShownInv
<1>6. QED
  BY <1>1, <1>2, <1>4, <1>5, Zenon DEF GatewayInv

LEMMA NextInv ==
  ASSUME GatewayInv, [Next]_vars
  PROVE  GatewayInv'
<1>1. ASSUME NEW h \in Handlers, Request(h) PROVE GatewayInv'
  <2>1. CASE Unauthenticated(h)
    <3> DEFINE code == 401
    <3>1. Nobody \in Subjects \cup {Nobody} /\ code \in Nat \ {201}
      OBVIOUS
    <3>2. Accept(h, Nobody) /\ Respond(h, code, <<>>)
      BY <2>1 DEF Unauthenticated
    <3> HIDE DEF code
    <3>3. QED
      BY <3>1, <3>2, RefusalInv, Zenon
  <2>2. QED
    BY <1>1, <2>1, ParametersAreNat, CreateInv, UpdateInv, GetInv, ListInv, Zenon DEF Request
<1>2. CASE UNCHANGED vars
  <2>1. UNCHANGED <<status, outbox, clock, pc, event, reply, owner, born,
                    busy, caller, wrote, answer, shown>>
    BY <1>2, Zenon DEF vars, domainVars, columns, gatewayVars
  <2>2. DomainInv' /\ CreationInv' /\ ReplyInv' /\ CreateChecksAgree'
    BY <2>1, Zenon DEF GatewayInv, DomainInv, CreationInv, ReplyInv, CreateChecksAgree
  <2>3. QED
    BY <2>1, <2>2, QuietInv, Zenon DEF GatewayInv
<1>3. QED
  BY <1>1, <1>2, ReturnInv, CommitInv, DomainStepInv, Zenon DEF Next

LEMMA GatewayInvariance == Spec => []GatewayInv
BY InitInv, NextInv, PTL DEF Spec

-----------------------------------------------------------------------------
(* The theorems.                                                           *)

\* Whatever fails or restarts between a call and its reply, a 201 means that
\* the transaction took effect and a 4xx that nothing changed.
THEOREM AnswersAreTrue == Spec => []AnswersTellTheTruth
<1>1. GatewayInv => AnswersTellTheTruth
  BY Zenon DEF GatewayInv, HonestInv, Honest, AnswersTellTheTruth
<1>2. QED
  BY <1>1, GatewayInvariance, PTL

\* No creation the gateway lets through is refused as invalid by the service.
THEOREM ChecksAgree == Spec => []CreateChecksAgree
<1>1. GatewayInv => CreateChecksAgree
  BY Zenon DEF GatewayInv
<1>2. QED
  BY <1>1, GatewayInvariance, PTL

\* Neither read ever shows a plain user a request of somebody else.
THEOREM OwnRequestsOnly == Spec => []UsersSeeTheirOwn
<1>1. GatewayInv => UsersSeeTheirOwn
  BY Zenon DEF GatewayInv, ShownInv, MayShow, UsersSeeTheirOwn
<1>2. QED
  BY <1>1, GatewayInvariance, PTL

\* The memory store and the Postgres store give the same rows in the same
\* order to every list query, for any number of rows and any limits.
THEOREM StoresAlike == Spec => []StoresAgree
<1>1. ASSUME GatewayInv PROVE StoresAgree
  <2> SUFFICES ASSUME NEW st \in StatusFilters, NEW sub \in Subjects \cup {""}, NEW n \in 0..MaxList
               PROVE  MemoryList(st, sub, ListLimit(n)) = PostgresList(st, sub, ListLimit(n))
    BY Zenon DEF StoresAgree
  <2>1. n \in Nat
    BY ParametersAreNat, Zenon
  <2>2. born \in Columns /\ ListLimit(n) \in Nat \ {0}
    BY <1>1, <2>1, LimitIsPositive, Zenon DEF GatewayInv, HandlerInv
  <2>3. QED
    BY <2>2, StoresAnswerAlike, Zenon
<1>2. QED
  BY <1>1, GatewayInvariance, PTL
=============================================================================
