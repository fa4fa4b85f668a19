----------------------------- MODULE ToolProofs ------------------------------
(***************************************************************************)
(* The tool door for all sets of runs, tools, tokens and payloads and any  *)
(* number of calls and faults, and the open_pr tool behind it for all sets *)
(* of branches and paths and any number of failures.                       *)
(***************************************************************************)
EXTENDS ToolExecution, PullRequest, FiniteSetTheorems, TLAPS

\* The time the provers get for a step, whatever the machine.
USE SMTT(20), ZenonT(20)

PolicyCodes == {"PROTECTED_PATH", "SENSITIVE_PATH", "TOOL_NOT_IN_ALLOWLIST", "ALLOWED",
                "POLICY_UNAVAILABLE", "POLICY_MALFORMED"}
GateCodes == {"SIGNATURE_INVALID", "RUN_UNKNOWN", "RUN_FINISHED", "CAPABILITY_EXPIRED",
              "TOOL_NOT_ALLOWED", "SCOPE_MISMATCH", "UNKNOWN_TOOL", "INVALID_TOOL_ARGS", "OPEN"}
HandlerCodes == {"EXECUTED", "EXECUTION_FAILED", "INVALID_TOOL_RESULT"}

\* A call as the executor keeps it.
CallRecords ==
  [tool : Tools, args : Arguments, run : Runs \cup {"", Blank},
   token : Tokens \cup {Forged}, scope : Scopes,
   decision : PolicyCodes \cup {"none"},
   reason : PolicyCodes \cup GateCodes \cup HandlerCodes \cup {"none"}, effect : {"none", "done"}]

TypeInv ==
  /\ runs \in [Runs -> {"unknown", "active", "finished"}]
  /\ held \subseteq Tokens
  /\ clock \in Nat
  /\ phase \in {"idle", "policy", "handler", "record"}
  /\ IF phase = "idle" THEN call = NoCall ELSE call \in CallRecords
  /\ faults \in Nat
  /\ IsFiniteSet(torn)

\* What the gates have established about a call.
Gated(c) ==
  /\ c.decision = "ALLOWED"
  /\ c.token.tool = c.tool
  /\ c.token.scope = Registered[c.tool]
  /\ c.args \notin {"malformed", "sensitive"}
  /\ c.tool = "write_file" => c.args # "protected"

\* The gates hold from the moment they are passed to the end of the call, and
\* nothing but a handler produces an effect.
CallInv ==
  /\ phase = "policy" => call.effect = "none"
  /\ phase = "handler" => /\ call.effect = "none"
                          /\ Gated(call)
                          /\ runs[call.token.run] = "active"
  /\ phase = "record" =>
       /\ call.reason = "EXECUTED" => call.effect = "done"
       /\ call.effect = "done" =>
            /\ Gated(call) /\ call.reason \in HandlerCodes
            /\ call.tool = "open_pr" => call.args # "protected"

\* The inductive invariant.
IInv == TypeInv /\ CallInv /\ AnswersTellEffects /\ EvidenceLossNeedsFault

-----------------------------------------------------------------------------
\* The codes of the gates are none of the handler's, and an open gate means
\* that the token is for this tool and its registered scope and its run active.
LEMMA GateFacts ==
  ASSUME TypeInv, call \in CallRecords
  PROVE  /\ Gate(call) \in GateCodes
         /\ Gate(call) = "OPEN" =>
              /\ call.token.tool = call.tool
              /\ call.token.scope = Registered[call.tool]
              /\ call.args # "malformed"
              /\ runs[call.token.run] = "active"
<1>1. Check(call) \in {"SIGNATURE_INVALID", "RUN_UNKNOWN", "RUN_FINISHED", "CAPABILITY_EXPIRED",
                       "TOOL_NOT_ALLOWED", "SCOPE_MISMATCH", "VALID"}
  BY Zenon DEF Check, RunState
<1>2. Check(call) = "VALID" => /\ call.token # Forged
                               /\ RunState(call.token.run) = "active"
                               /\ call.token.tool = call.tool
                               /\ call.token.scope = call.scope
  BY Zenon DEF Check, RunState
<1>3. call.token # Forged => call.token.run \in Runs
  BY Zenon DEF CallRecords, Tokens
<1>4. Check(call) = "VALID" => runs[call.token.run] = "active"
  BY <1>2, <1>3, Zenon DEF RunState, TypeInv
<1>5. Gate(call) \in GateCodes
  BY <1>1, Zenon DEF Gate, GateCodes
<1>6. Gate(call) = "OPEN" => /\ Check(call) = "VALID"
                            /\ Registered[call.tool] = call.scope
                            /\ call.args # "malformed"
  BY <1>1, Zenon DEF Gate
<1>7. QED
  BY <1>2, <1>4, <1>5, <1>6, Zenon

\* A payload is one file or none.
LEMMA PayloadIsOne ==
  ASSUME NEW c, NEW S, IsFiniteSet(S)
  PROVE  /\ IsFiniteSet(S \cup Payload(c))
         /\ Cardinality(S \cup Payload(c)) <= Cardinality(S) + 1
         /\ IsFiniteSet(S \ Payload(c))
         /\ Cardinality(S \ Payload(c)) <= Cardinality(S)
<1> DEFINE x == <<c.tool, c.args, c.reason>>
<1>1. Payload(c) = {} \/ Payload(c) = {x}
  BY Zenon DEF Payload
<1>2. IsFiniteSet(S \cup {x}) /\ Cardinality(S \cup {x}) \in {Cardinality(S), Cardinality(S) + 1}
  BY FS_AddElement, Zenon
<1>3. IsFiniteSet(S \ Payload(c)) /\ Cardinality(S \ Payload(c)) <= Cardinality(S)
  <2>1. S \ Payload(c) \subseteq S
    BY Zenon
  <2>2. QED
    BY <2>1, FS_Subset, Zenon
<1>4. Cardinality(S) \in Nat
  BY FS_CardinalityType, Zenon
<1>5. CASE Payload(c) = {}
  BY <1>3, <1>4, <1>5
<1>6. CASE Payload(c) = {x}
  BY <1>2, <1>3, <1>4, <1>6
<1>7. QED
  BY <1>1, <1>5, <1>6, Zenon

\* A write that is cut short spoils one payload at most and forgets none.
LEMMA TearLosesOne ==
  ASSUME NEW c, IsFiniteSet(torn), faults \in Nat, EvidenceLossNeedsFault,
         Tear(Payload(c)) \/ UNCHANGED <<whole, torn>>, faults' = faults + 1, due' = due
  PROVE  IsFiniteSet(torn') /\ EvidenceLossNeedsFault'
<1>1. Cardinality(torn) \in Nat
  BY FS_CardinalityType, Zenon
<1>2. CASE UNCHANGED <<whole, torn>>
  BY <1>1, <1>2 DEF EvidenceLossNeedsFault
<1>3. CASE whole' = whole \ Payload(c) /\ torn' = torn \cup Payload(c)
  <2>1. IsFiniteSet(torn') /\ Cardinality(torn') <= Cardinality(torn) + 1
    BY <1>3, PayloadIsOne, Zenon
  <2>2. due' \subseteq whole' \cup torn'
    BY <1>3, Zenon DEF EvidenceLossNeedsFault
  <2>3. Cardinality(torn') \in Nat
    BY <2>1, FS_CardinalityType, Zenon
  <2>4. QED
    BY <1>1, <2>1, <2>2, <2>3 DEF EvidenceLossNeedsFault
<1>4. QED
  BY <1>2, <1>3, Zenon DEF Tear

-----------------------------------------------------------------------------
\* The invariant holds when the bridge starts.
LEMMA InitInv == Init => IInv
<1> SUFFICES ASSUME Init PROVE IInv
  BY Zenon
<1>1. TypeInv
  BY ToolAssumption, FS_EmptySet, Zenon DEF Init, TypeInv
<1>2. Cardinality(torn) = 0
  BY FS_EmptySet, Zenon DEF Init
<1>3. QED
  BY <1>1, <1>2 DEF Init, IInv, CallInv, AnswersTellEffects, NoAnswer, EvidenceLossNeedsFault

\* A line that is accepted becomes a call without an effect.
LEMMA AcceptInv ==
  ASSUME IInv, NEW l \in Lines, AcceptLine(l)
  PROVE  IInv'
<1> DEFINE filled == IF Untouched(l) THEN l ELSE Inject(l)
<1>1. phase = "idle" /\ phase' = "policy" /\ call' = CallOf(filled) /\ Complete(filled)
  BY Zenon DEF AcceptLine
<1>2. filled \in [tool : Tools, args : Arguments, run : Runs \cup {"", Blank},
                  token : Tokens \cup {NoToken, Forged}, scope : Scopes \cup {""}]
  <2>1. l \in [tool : Tools, args : Arguments, run : Runs \cup {"", Blank},
               token : Tokens \cup {NoToken, Forged}, scope : Scopes \cup {""}]
    BY Zenon DEF Lines, IInv, TypeInv
  <2>2. CASE Untouched(l)
    BY <2>1, <2>2, Zenon
  <2>3. CASE ~Untouched(l)
    <3>1. l.tool \in DOMAIN Registered /\ Registered[l.tool] \in Scopes /\ BridgeRun \in Runs
      BY <2>3, ToolAssumption DEF Untouched
    <3>2. clock + TTL \in Nat
      BY ToolAssumption DEF IInv, TypeInv
    <3>3. Mint(BridgeRun, l.tool) \in Tokens
      BY <2>1, <3>1, <3>2, Zenon DEF Mint, Tokens
    <3>4. QED
      BY <2>1, <2>3, <3>1, <3>3, Zenon DEF Inject
  <2>4. QED
    BY <2>2, <2>3, Zenon
<1> HIDE DEF filled
<1>3. call' \in CallRecords /\ call'.effect = "none"
  BY <1>1, <1>2, Zenon DEF Complete, CallOf, CallRecords
<1>4. UNCHANGED <<runs, held, clock, due, whole, torn, faults>> /\ last' = NoAnswer
  BY Zenon DEF AcceptLine
<1>5. TypeInv' /\ CallInv'
  BY <1>1, <1>3, <1>4, Zenon DEF IInv, TypeInv, CallInv
<1>6. QED
  BY <1>4, <1>5, Zenon DEF IInv, AnswersTellEffects, NoAnswer, EvidenceLossNeedsFault

\* The policy's answer opens the gate, or sends the call to be recorded.
LEMMA ReplyInv ==
  ASSUME IInv, PolicyReplies
  PROVE  IInv'
<1>1. phase = "policy" /\ call \in CallRecords /\ call.effect = "none"
  <2>1. phase = "policy"
    BY Zenon DEF PolicyReplies
  <2>2. QED
    BY <2>1, Zenon DEF IInv, TypeInv, CallInv
<1>2. PICK d \in Evaluate(call) :
        /\ call' = [call EXCEPT !.decision = d, !.reason = IF Allows(d) THEN Gate(call) ELSE d]
        /\ phase' = IF (IF Allows(d) THEN Gate(call) ELSE d) = "OPEN" THEN "handler" ELSE "record"
  BY Zenon DEF PolicyReplies
<1>3. d \in PolicyCodes
  BY <1>2, Zenon DEF Evaluate, PolicyDecision, PolicyCodes
<1>4. Gate(call) \in GateCodes
  BY <1>1, GateFacts, Zenon DEF IInv
<1>5. UNCHANGED <<runs, held, clock, last, due, whole, torn, faults>>
  BY Zenon DEF PolicyReplies
<1>6. CASE Allows(d) /\ Gate(call) = "OPEN"
  <2>1. phase' = "handler" /\ call' \in CallRecords /\ call'.effect = "none"
    BY <1>1, <1>2, <1>3, <1>4, <1>6, ZenonT(40) DEF CallRecords
  <2>2. call'.decision = "ALLOWED"
    BY <1>1, <1>2, <1>6 DEF CallRecords, Allows
  <2>3. /\ call'.tool = call.tool /\ call'.args = call.args
        /\ call'.token = call.token
    BY <1>1, <1>2, Zenon DEF CallRecords
  <2>4. /\ call.args # "sensitive"
        /\ call.tool = "write_file" => call.args # "protected"
    <3>1. PolicyDecision(call) = "ALLOWED"
      BY <1>2, <1>6, Zenon DEF Evaluate, Allows
    <3>2. QED
      BY <3>1, Zenon DEF PolicyDecision
  <2>5. Gated(call') /\ runs[call'.token.run] = "active"
    BY <1>1, <1>6, <2>2, <2>3, <2>4, GateFacts, Zenon DEF IInv, Gated
  <2>6. TypeInv' /\ CallInv'
    BY <1>5, <2>1, <2>5, Zenon DEF IInv, TypeInv, CallInv
  <2>7. QED
    BY <1>5, <2>6, Zenon DEF IInv, AnswersTellEffects, EvidenceLossNeedsFault
<1>7. CASE ~(Allows(d) /\ Gate(call) = "OPEN")
  <2>1. (IF Allows(d) THEN Gate(call) ELSE d) \notin HandlerCodes \cup {"OPEN"}
    BY <1>3, <1>4, <1>7, Zenon DEF PolicyCodes, GateCodes, HandlerCodes
  <2>2. /\ phase' = "record" /\ call' \in CallRecords
        /\ call'.effect = "none" /\ call'.reason \notin HandlerCodes
    BY <1>1, <1>2, <1>3, <1>4, <2>1, Zenon DEF CallRecords
  <2>3. TypeInv' /\ CallInv'
    BY <1>5, <2>2, Zenon DEF IInv, TypeInv, CallInv, HandlerCodes
  <2>4. QED
    BY <1>5, <2>3 DEF IInv, AnswersTellEffects, EvidenceLossNeedsFault
<1>8. QED
  BY <1>6, <1>7, Zenon

\* Only here an effect arises.
LEMMA HandlerInv ==
  ASSUME IInv, RunHandler
  PROVE  IInv'
<1>1. phase = "handler" /\ call \in CallRecords /\ Gated(call)
  <2>1. phase = "handler"
    BY Zenon DEF RunHandler
  <2>2. QED
    BY <2>1, Zenon DEF IInv, TypeInv, CallInv
<1>2. PICK o \in HandlerOutcomes(call) : call' = [call EXCEPT !.reason = o[1], !.effect = o[2]]
  BY Zenon DEF RunHandler
<1>3. /\ o[1] \in HandlerCodes /\ o[2] \in {"none", "done"}
      /\ o[1] = "EXECUTED" => o[2] = "done"
      /\ o[2] = "done" => ~(call.tool = "open_pr" /\ call.args = "protected")
  BY <1>2 DEF HandlerOutcomes, HandlerCodes, Failure
<1>4. /\ call' \in CallRecords /\ call'.reason = o[1] /\ call'.effect = o[2]
      /\ call'.tool = call.tool /\ call'.args = call.args
      /\ call'.token = call.token /\ call'.decision = call.decision
  BY <1>1, <1>2, <1>3, Zenon DEF CallRecords
<1>5. Gated(call')
  BY <1>1, <1>4, Zenon DEF Gated
<1>6. /\ phase' = "record"
      /\ UNCHANGED <<runs, held, clock, last, due, whole, torn, faults>>
  BY Zenon DEF RunHandler
<1>7. TypeInv'
  BY <1>4, <1>6, Zenon DEF IInv, TypeInv
<1>8. CallInv'
  BY <1>3, <1>4, <1>5, <1>6, Zenon DEF CallInv
<1>9. QED
  BY <1>6, <1>7, <1>8, Zenon DEF IInv, AnswersTellEffects, EvidenceLossNeedsFault

\* The end of a call leaves the gates with nothing to guard.
LEMMA AnswerInv ==
  ASSUME TypeInv, NEW text, Answer(text),
         runs' \in [Runs -> {"unknown", "active", "finished"}], held' \subseteq Tokens,
         clock' = clock, faults' \in Nat, IsFiniteSet(torn'),
         text = "EXECUTED" => call.effect = "done",
         call.effect = "done" => text \in HandlerCodes \cup {"INTERNAL_ERROR", "lost"}
  PROVE  TypeInv' /\ CallInv' /\ AnswersTellEffects'
<1>1. phase' = "idle" /\ call' = NoCall
  BY Zenon DEF Answer
<1>2. last'.effect = call.effect /\ last'.answer = text
  BY Zenon DEF Answer
<1>3. TypeInv' /\ CallInv'
  BY <1>1, Zenon DEF TypeInv, CallInv
<1>4. QED
  BY <1>2, <1>3, Zenon DEF AnswersTellEffects, HandlerCodes

\* The evidence is complete, and the answer is the reason.
LEMMA RecordInv ==
  ASSUME IInv, Record
  PROVE  IInv'
<1>1. /\ phase = "record" /\ Answer(call.reason)
      /\ UNCHANGED <<runs, held, clock, faults>>
      /\ torn' = torn \ Payload(call)
  BY Zenon DEF Record
<1>2. IsFiniteSet(torn') /\ Cardinality(torn') <= Cardinality(torn)
  BY <1>1, PayloadIsOne, Zenon DEF IInv, TypeInv
<1>3. TypeInv' /\ CallInv' /\ AnswersTellEffects'
  BY <1>1, <1>2, AnswerInv, Zenon DEF IInv, TypeInv, CallInv
<1>4. due' \subseteq whole' \cup torn'
  BY Zenon DEF Record, Stored, IInv, EvidenceLossNeedsFault
<1>5. Cardinality(torn') \in Nat /\ Cardinality(torn) \in Nat /\ faults \in Nat
  BY <1>2, FS_CardinalityType, Zenon DEF IInv, TypeInv
<1>6. Cardinality(torn') <= faults'
  BY <1>1, <1>2, <1>5 DEF IInv, EvidenceLossNeedsFault
<1>7. QED
  BY <1>3, <1>4, <1>6, Zenon DEF IInv, EvidenceLossNeedsFault

\* An exception that reaches serve_stdio, and a restart, charge one fault.
LEMMA FaultInv ==
  ASSUME IInv, PolicyRaises \/ RecordFails \/ Restart
  PROVE  IInv'
<1>1. faults' = faults + 1 /\ faults' \in Nat /\ due' = due /\ clock' = clock
  BY DEF PolicyRaises, RecordFails, Restart, Fault, IInv, TypeInv
<1>2. Tear(Payload(call)) \/ UNCHANGED <<whole, torn>>
  BY Zenon DEF PolicyRaises, RecordFails, Restart
<1>3. IsFiniteSet(torn') /\ EvidenceLossNeedsFault'
  BY <1>1, <1>2, TearLosesOne, Zenon DEF IInv, TypeInv
<1>4. runs' \in [Runs -> {"unknown", "active", "finished"}] /\ held' \subseteq Tokens
  BY Zenon DEF PolicyRaises, RecordFails, Restart, IInv, TypeInv
<1>5. CASE Answer("INTERNAL_ERROR") \/ Answer("lost")
  BY <1>1, <1>3, <1>4, <1>5, AnswerInv, Zenon DEF IInv
<1>6. CASE phase = "idle" /\ UNCHANGED <<phase, call, last>>
  BY <1>1, <1>3, <1>4, <1>6, Zenon DEF IInv, TypeInv, CallInv, AnswersTellEffects
<1>7. QED
  BY <1>5, <1>6, Zenon DEF PolicyRaises, RecordFails, Restart

\* What the platform and other callers do between two lines.
LEMMA BetweenLinesInv ==
  ASSUME IInv, phase = "idle",
         \/ \E l \in Lines : RefuseLine(l)
         \/ \E r \in Runs : Start(r) \/ Finish(r)
         \/ \E r \in Runs, g \in Grants : Issue(r, g[1], g[2])
  PROVE  IInv'
<1>1. UNCHANGED <<clock, phase, call, last, due, whole, torn, faults>>
  BY Zenon DEF RefuseLine, Start, Finish, Issue
<1>2. runs' \in [Runs -> {"unknown", "active", "finished"}]
  BY Zenon DEF RefuseLine, Start, Finish, Issue, IInv, TypeInv
<1>3. held' \subseteq Tokens
  <2>1. CASE \E r \in Runs, g \in Grants : Issue(r, g[1], g[2])
    <3>1. PICK r \in Runs, g \in Grants : Issue(r, g[1], g[2])
      BY <2>1, Zenon
    <3>2. g[1] \in Tools /\ g[2] \in Scopes
      BY ToolAssumption, Zenon
    <3>3. clock + TTL \in Nat
      <4>1. clock \in Nat /\ TTL \in Nat
        BY ToolAssumption, Zenon DEF IInv, TypeInv
      <4>2. QED
        BY <4>1
    <3>4. [run |-> r, tool |-> g[1], scope |-> g[2], exp |-> clock + TTL] \in Tokens
      BY <3>2, <3>3, Zenon DEF Tokens
    <3>5. QED
      BY <3>1, <3>4, Zenon DEF Issue, IInv, TypeInv
  <2>2. CASE held' = held
    BY <2>2, Zenon DEF IInv, TypeInv
  <2>3. QED
    BY <2>1, <2>2, Zenon DEF RefuseLine, Start, Finish
<1>4. TypeInv' /\ CallInv'
  BY <1>1, <1>2, <1>3, Zenon DEF IInv, TypeInv, CallInv
<1>5. QED
  BY <1>1, <1>4, Zenon DEF IInv, AnswersTellEffects, EvidenceLossNeedsFault

\* Every step keeps the invariant.
LEMMA NextInv == IInv /\ [Next]_vars => IInv'
<1> SUFFICES ASSUME IInv, [Next]_vars PROVE IInv'
  BY Zenon
<1>1. CASE \E l \in Lines : AcceptLine(l)
  BY <1>1, AcceptInv, Zenon
<1>2. CASE Serve
  BY <1>2, ReplyInv, HandlerInv, RecordInv, Zenon DEF Serve
<1>3. CASE PolicyRaises \/ RecordFails \/ Restart
  BY <1>3, FaultInv, Zenon
<1>4. CASE \/ \E l \in Lines : RefuseLine(l)
           \/ \E r \in Runs : Start(r) \/ Finish(r)
           \/ \E r \in Runs, g \in Grants : Issue(r, g[1], g[2])
  <2>1. phase = "idle"
    BY <1>4, Zenon DEF RefuseLine, Start, Finish, Issue
  <2>2. QED
    BY <1>4, <2>1, BetweenLinesInv, Zenon
<1>5. CASE Tick
  <2>1. /\ clock' \in Nat
        /\ UNCHANGED <<runs, held, phase, call, last, due, whole, torn, faults>>
    BY <1>5 DEF Tick, IInv, TypeInv
  <2>2. TypeInv' /\ CallInv'
    BY <2>1, Zenon DEF IInv, TypeInv, CallInv
  <2>3. QED
    BY <2>1, <2>2, Zenon DEF IInv, AnswersTellEffects, EvidenceLossNeedsFault
<1>6. CASE UNCHANGED vars
  BY <1>6, Zenon DEF vars, IInv, TypeInv, CallInv, AnswersTellEffects, EvidenceLossNeedsFault
<1>7. QED
  BY <1>1, <1>2, <1>3, <1>4, <1>5, <1>6, Zenon DEF Next

\* The door always satisfies its invariant.
THEOREM Invariance == Spec => []IInv
  BY InitInv, NextInv, PTL DEF Spec

-----------------------------------------------------------------------------
\* EffectsWereGated for every set of runs, tools, grants and tokens, any
\* number of calls, restarts and refusals: executor.py lets no tool have an
\* effect that policy, capability and schema did not pass.
THEOREM OnlyGatedEffects == Spec => []EffectsWereGated
<1>1. IInv => EffectsWereGated
  BY Zenon DEF IInv, TypeInv, CallInv, Gated, EffectsWereGated
<1>2. QED
  BY <1>1, Invariance, PTL

\* FinishedRunsStayQuiet for every set of runs: RunRegistry.check looks at the
\* run when the gate is passed, and nothing finishes it before the tool runs.
THEOREM QuietAfterFinish == Spec => []FinishedRunsStayQuiet
<1>1. IInv => FinishedRunsStayQuiet
  BY Zenon DEF IInv, CallInv, FinishedRunsStayQuiet
<1>2. QED
  BY <1>1, Invariance, PTL

\* AnswersTellEffects for every number of calls and faults.
THEOREM TrueAnswers == Spec => []AnswersTellEffects
  BY Invariance, PTL DEF IInv

\* EvidenceLossNeedsFault for every set of payloads and number of faults:
\* each fault costs one payload at most, and no answered call goes unrecorded.
THEOREM EvidenceIsKept == Spec => []EvidenceLossNeedsFault
  BY Invariance, PTL DEF IInv

-----------------------------------------------------------------------------
(* The open_pr tool.                                                       *)

Trees == [Paths -> Nat]

\* What git keeps is well formed, and a file that is staged exists.
GitInv ==
  /\ work \in Trees /\ index \in Trees
  /\ \A p \in Paths : work[p] = 0 => index[p] = 0
  /\ {head, Main} \subseteq DOMAIN tree
  /\ DOMAIN tree \subseteq Branches \cup {Main}
  /\ tree \in [DOMAIN tree -> Trees]
  /\ commits \in [DOMAIN tree -> Nat]
  /\ start \in [DOMAIN tree -> Branches \cup {Main}]
  /\ remote \in [DOMAIN remote -> Trees]

\* A call is at most one step past the farthest any of its attempts got.
PullInv ==
  /\ step \in {"idle", "switch", "add", "commit", "push", "open"}
  /\ reached \in 0..5
  /\ step # "idle" \/ reached # 0 => pull \in Calls
  /\ step # "idle" => At <= reached + 1 /\ pull.paths \subseteq given[pull.branch]
  /\ given \in [Branches -> SUBSET Paths]
  /\ gitFaults \in Nat

\* What the steps that have done their work leave behind stays until something
\* else is written or asked for.
DoneInv ==
  /\ reached >= 1 => head = pull.branch
  /\ reached >= 2 => \A p \in pull.paths : work[p] # 0 /\ index[p] = work[p]
  /\ reached >= 3 => index = tree[head]
  /\ reached >= 4 => /\ pull.branch \in DOMAIN remote
                     /\ remote[pull.branch] = tree[pull.branch]
  /\ reached >= 5 => pull.branch \in prs

\* As long as nothing failed, no lock is left and nothing is staged but the
\* paths of the call that is about to commit.
StagedInv ==
  gitFaults = 0 =>
    /\ ~locked
    /\ step # "commit" => index = tree[head]
    /\ step = "commit" => \A p \in Paths \ pull.paths : index[p] = tree[head][p]

PullRequestInv == GitInv /\ PullInv /\ DoneInv /\ StagedInv /\ ForeignFilesNeedCause

-----------------------------------------------------------------------------
\* The number of a step.
LEMMA AtStep ==
  /\ step = "switch" => At = 1
  /\ step = "add" => At = 2
  /\ step = "commit" => At = 3
  /\ step = "push" => At = 4
  /\ step = "open" => At = 5
  BY DEF At, steps

\* A call that has returned has done all its steps.
LEMMA AllDone ==
  ASSUME DoneInv, reached = Len(steps)
  PROVE  /\ head = pull.branch /\ index = tree[head] /\ pull.branch \in prs
         /\ pull.branch \in DOMAIN remote /\ remote[pull.branch] = tree[pull.branch]
         /\ \A p \in pull.paths : index[p] = work[p]
<1>1. reached >= 1 /\ reached >= 2 /\ reached >= 3 /\ reached >= 4 /\ reached >= 5
  BY DEF steps
<1>2. QED
  BY <1>1, Zenon DEF DoneInv

\* Switching to the branch that is checked out does nothing.
LEMMA SwitchInPlace ==
  ASSUME GitInv, SwitchTo(head)
  PROVE  UNCHANGED <<work, index, tree, commits, start>>
<1>1. Differ(head) = {}
  BY Zenon DEF Differ
<1>2. work' = [p \in Paths |-> work[p]] /\ index' = [p \in Paths |-> index[p]]
  BY <1>1, Zenon DEF SwitchTo
<1>3. QED
  BY <1>2, Zenon DEF SwitchTo, GitInv, Trees

\* Every step keeps what git keeps well formed.
LEMMA WorkGit ==
  ASSUME GitInv, PullInv, DoneInv, Work
  PROVE  GitInv'
<1>1. CASE step = "switch" /\ SwitchTo(pull.branch) /\ pull.branch \in DOMAIN tree
           /\ head' = pull.branch /\ remote' = remote
  <2> DEFINE taken == {p \in Differ(pull.branch) : Clean(p)}
             Over(files) == [p \in Paths |-> IF p \in taken THEN tree[pull.branch][p] ELSE files[p]]
  <2>1. work' = Over(work) /\ index' = Over(index) /\ UNCHANGED <<tree, commits, start>>
    BY <1>1, Zenon DEF SwitchTo
  <2> HIDE DEF taken
  <2>2. \A p \in Paths : tree[pull.branch][p] \in Nat /\ work[p] \in Nat /\ index[p] \in Nat
    BY <1>1, Zenon DEF GitInv, Trees
  <2>3. work' \in Trees /\ index' \in Trees
    BY <2>1, <2>2, Zenon DEF Trees
  <2>4. \A p \in Paths : work'[p] = 0 => index'[p] = 0
    BY <2>1, Zenon DEF GitInv
  <2>5. QED
    BY <1>1, <2>1, <2>3, <2>4, Zenon DEF GitInv
<1>2. CASE step = "switch" /\ SwitchNew(pull.branch) /\ head' = pull.branch /\ remote' = remote
  <2>1. pull.branch \in Branches
    BY <1>2, Zenon DEF PullInv, Calls
  <2>2. DOMAIN tree' = DOMAIN tree \cup {pull.branch}
    BY <1>2, Zenon DEF SwitchNew, With
  <2>3. tree' \in [DOMAIN tree' -> Trees]
    BY <1>2, <2>2, Zenon DEF SwitchNew, With, GitInv
  <2>4. commits' \in [DOMAIN tree' -> Nat]
    BY <1>2, <2>2, Zenon DEF SwitchNew, With, GitInv
  <2>5. start' \in [DOMAIN tree' -> Branches \cup {Main}]
    BY <1>2, <2>2, Zenon DEF SwitchNew, With, GitInv
  <2>6. QED
    BY <1>2, <2>1, <2>2, <2>3, <2>4, <2>5, Zenon DEF SwitchNew, GitInv
<1>3. CASE step = "add" /\ Add
  <2>1. index' \in Trees /\ \A p \in Paths : work[p] = 0 => index'[p] = 0
    BY <1>3, Zenon DEF Add, GitInv, Trees
  <2>2. QED
    BY <1>3, <2>1, Zenon DEF Add, GitInv
<1>4. CASE step = "commit" /\ Commit
  <2>1. CASE HasStaged
    <3>1. tree' = [tree EXCEPT ![head] = index] /\ commits' = [commits EXCEPT ![head] = @ + 1]
      BY <1>4, <2>1, Zenon DEF Commit
    <3>2. tree' \in [DOMAIN tree -> Trees] /\ commits' \in [DOMAIN tree -> Nat]
      BY <3>1 DEF GitInv
    <3>3. DOMAIN tree' = DOMAIN tree
      BY <3>1, Zenon
    <3>4. QED
      BY <1>4, <3>2, <3>3, Zenon DEF Commit, GitInv
  <2>2. CASE ~HasStaged
    BY <1>4, <2>2, Zenon DEF Commit, GitInv
  <2>3. QED
    BY <2>1, <2>2, Zenon
<1>5. CASE step = "push" /\ Push
  <2>1. head = pull.branch
    BY <1>5, AtStep DEF PullInv, DoneInv
  <2>2. remote' \in [DOMAIN remote' -> Trees]
    BY <1>5, <2>1, Zenon DEF Push, With, GitInv
  <2>3. QED
    BY <1>5, <2>2, Zenon DEF Push, GitInv
<1>6. CASE step = "open" /\ Open
  BY <1>6, Zenon DEF Open, GitInv
<1>7. QED
  BY <1>1, <1>2, <1>3, <1>4, <1>5, <1>6, Zenon DEF Work, Switch

\* A step counts as reached once it has done its work.
LEMMA WorkReaches ==
  ASSUME PullInv, Work
  PROVE  /\ At \in 1..5
         /\ reached' = IF reached < At THEN At ELSE reached
         /\ reached' \in 0..5 /\ reached' >= At /\ reached' >= reached
         /\ reached' \in {reached, At}
<1>1. At \in 1..5
  BY AtStep DEF Work
<1>2. reached' = IF reached < At THEN At ELSE reached
  BY Zenon DEF Work
<1>3. QED
  BY <1>1, <1>2 DEF PullInv

\* A step does what it counts for and keeps what the steps before it, and
\* earlier attempts, have done.
LEMMA WorkDone ==
  ASSUME GitInv, PullInv, DoneInv, Work, pull' = pull
  PROVE  DoneInv'
<1>1. CASE step = "switch" /\ Switch
  <2>1. At = 1 /\ head' = pull.branch /\ UNCHANGED <<remote, prs>>
    BY <1>1, AtStep, Zenon DEF Switch
  <2>2. CASE reached = 0
    <3>1. reached' = 1
      BY <2>1, <2>2, WorkReaches
    <3>2. QED
      BY <2>1, <3>1 DEF DoneInv
  <2>3. CASE reached >= 1
    <3>1. reached' = reached /\ head = pull.branch
      BY <2>1, <2>3, WorkReaches DEF DoneInv, PullInv
    <3>2. UNCHANGED <<work, index, tree, commits, start>>
      BY <1>1, <3>1, SwitchInPlace, Zenon DEF Switch, GitInv
    <3>3. QED
      BY <2>1, <3>1, <3>2, Zenon DEF DoneInv
  <2>4. QED
    BY <2>2, <2>3 DEF PullInv
<1>2. CASE step = "add" /\ Add
  <2>1. At = 2 /\ UNCHANGED <<work, head, tree, remote, prs>>
    BY <1>2, AtStep, Zenon DEF Add
  <2>2. reached >= 1 /\ head = pull.branch /\ pull.paths \subseteq Paths
    BY <1>2, <2>1 DEF PullInv, DoneInv, Calls
  <2>3. index' = [p \in Paths |-> IF p \in pull.paths THEN work[p] ELSE index[p]]
    BY <1>2, Zenon DEF Add, Added
  <2>4. \A p \in pull.paths : work[p] # 0
    BY <1>2, <2>2, Zenon DEF Work, Refused, CanAdd, GitInv
  <2>5. \A p \in pull.paths : work'[p] # 0 /\ index'[p] = work'[p]
    BY <2>1, <2>2, <2>3, <2>4, Zenon
  <2>6. CASE reached = 1
    <3>1. reached' = 2
      BY <2>1, <2>6, WorkReaches
    <3>2. QED
      BY <2>1, <2>2, <2>5, <3>1 DEF DoneInv
  <2>7. CASE reached >= 2
    <3>1. reached' = reached
      BY <2>1, <2>7, WorkReaches DEF PullInv
    <3>2. index' = index
      BY <2>2, <2>3, <2>7, Zenon DEF DoneInv, GitInv, Trees
    <3>3. QED
      BY <2>1, <3>1, <3>2, Zenon DEF DoneInv
  <2>8. QED
    BY <2>2, <2>6, <2>7 DEF PullInv
<1>3. CASE step = "commit" /\ Commit
  <2>1. At = 3 /\ UNCHANGED <<work, index, head, remote, prs>>
    BY <1>3, AtStep, Zenon DEF Commit
  <2>2. reached >= 2
    BY <1>3, <2>1 DEF PullInv
  <2>3. index' = tree'[head']
    BY <1>3, <2>1, Zenon DEF Commit, HasStaged, GitInv
  <2>4. CASE reached = 2
    <3>1. reached' = 3
      BY <2>1, <2>4, WorkReaches
    <3>2. head' = pull'.branch
      BY <2>1, <2>4 DEF DoneInv
    <3>3. \A p \in pull'.paths : work'[p] # 0 /\ index'[p] = work'[p]
      BY <2>1, <2>4 DEF DoneInv
    <3>4. QED
      BY <2>3, <3>1, <3>2, <3>3 DEF DoneInv
  <2>5. CASE reached >= 3
    <3>1. reached' = reached
      BY <2>1, <2>5, WorkReaches DEF PullInv
    <3>2. tree' = tree
      BY <1>3, <2>5, Zenon DEF Commit, HasStaged, DoneInv
    <3>3. QED
      BY <2>1, <3>1, <3>2, Zenon DEF DoneInv
  <2>6. QED
    BY <2>2, <2>4, <2>5 DEF PullInv
<1>4. CASE step = "push" /\ Push
  <2>1. At = 4 /\ UNCHANGED <<work, index, head, tree, prs>>
    BY <1>4, AtStep, Zenon DEF Push
  <2>2. reached >= 3
    BY <1>4, <2>1 DEF PullInv
  <2>3. pull.branch \in DOMAIN remote' /\ remote'[pull.branch] = tree[pull.branch]
    BY <1>4, Zenon DEF Push, With
  <2>4. reached' = IF reached < 4 THEN 4 ELSE reached
    BY <2>1, WorkReaches, Zenon
  <2>5. QED
    BY <2>1, <2>2, <2>3, <2>4 DEF DoneInv, PullInv
<1>5. CASE step = "open" /\ Open
  <2>1. At = 5 /\ UNCHANGED <<work, index, head, tree, remote>>
    BY <1>5, AtStep, Zenon DEF Open
  <2>2. reached >= 4 /\ pull.branch \in prs'
    BY <1>5, <2>1 DEF PullInv, Open
  <2>3. QED
    BY <2>1, <2>2 DEF DoneInv, PullInv
<1>6. QED
  BY <1>1, <1>2, <1>3, <1>4, <1>5, Zenon DEF Work

-----------------------------------------------------------------------------
LEMMA PullInitInv == PullInit => PullRequestInv
<1> SUFFICES ASSUME PullInit PROVE PullRequestInv
  OBVIOUS
<1>1. GitInv
  BY DEF PullInit, GitInv, Trees
<1>2. PullInv
  BY DEF PullInit, PullInv
<1>3. DoneInv
  BY DEF PullInit, DoneInv
<1>4. StagedInv
  BY Zenon DEF PullInit, StagedInv
<1>5. ForeignFilesNeedCause
  BY Zenon DEF PullInit, ForeignFilesNeedCause
<1>6. QED
  BY <1>1, <1>2, <1>3, <1>4, <1>5, Zenon DEF PullRequestInv

\* Writing a file, removing the lock and making a call.
LEMMA WriteInv ==
  ASSUME PullRequestInv, NEW p \in Paths, Write(p)
  PROVE  PullRequestInv'
<1> USE DEF PullRequestInv
<1>1. work' = [work EXCEPT ![p] = @ + 1]
      /\ UNCHANGED <<index, head, tree, commits, start, remote, prs, locked, step, given, gitFaults>>
      /\ step = "idle" /\ reached' = 0
  BY Zenon DEF Write
<1>2. GitInv'
  <2>1. work' \in Trees /\ \A q \in Paths : work'[q] = 0 => work[q] = 0
    BY <1>1 DEF GitInv, Trees
  <2>2. QED
    BY <1>1, <2>1, Zenon DEF GitInv
<1>3. PullInv'
  BY <1>1 DEF PullInv
<1>4. DoneInv'
  BY <1>1 DEF DoneInv
<1>5. StagedInv'
  BY <1>1, Zenon DEF StagedInv
<1>6. ForeignFilesNeedCause'
  BY <1>1, Zenon DEF ForeignFilesNeedCause
<1>7. QED
  BY <1>2, <1>3, <1>4, <1>5, <1>6, Zenon

LEMMA UnlockInv ==
  ASSUME PullRequestInv, Unlock
  PROVE  PullRequestInv'
<1> USE DEF PullRequestInv
<1>1. UNCHANGED <<work, index, head, tree, commits, start, remote, prs>>
      /\ UNCHANGED <<pull, step, reached, given, gitFaults>> /\ locked' = FALSE
      /\ step = "idle"
  BY Zenon DEF Unlock, git
<1>2. GitInv'
  BY <1>1, Zenon DEF GitInv
<1>3. PullInv'
  BY <1>1, Zenon DEF PullInv
<1>4. DoneInv'
  BY <1>1, Zenon DEF DoneInv
<1>5. StagedInv'
  BY <1>1, Zenon DEF StagedInv
<1>6. ForeignFilesNeedCause'
  BY <1>1, Zenon DEF ForeignFilesNeedCause
<1>7. QED
  BY <1>2, <1>3, <1>4, <1>5, <1>6, Zenon

LEMMA PullCallInv ==
  ASSUME PullRequestInv, NEW c \in Calls, Call(c)
  PROVE  PullRequestInv'
<1> USE DEF PullRequestInv
<1>1. UNCHANGED <<work, index, head, tree, commits, start, remote, prs>>
      /\ UNCHANGED <<locked, gitFaults>> /\ pull' = c /\ step' = "switch" /\ step = "idle"
      /\ reached' = IF c = pull THEN reached ELSE 0
  BY Zenon DEF Call, git
<1>2. GitInv'
  BY <1>1, Zenon DEF GitInv
<1>3. c.branch \in Branches /\ c.paths \subseteq Paths
  BY Zenon DEF Calls
<1>4. given' = [given EXCEPT ![c.branch] = given[c.branch] \cup c.paths]
  BY Zenon DEF Call
<1>5. given' \in [Branches -> SUBSET Paths] /\ c.paths \subseteq given'[c.branch]
      /\ \A b \in Branches : given[b] \subseteq given'[b]
  BY <1>3, <1>4, Zenon DEF PullInv
<1>6. PullInv'
  <2>1. At' = 1
    BY <1>1 DEF At, steps
  <2>2. reached \in 0..5 /\ gitFaults \in Nat /\ gitFaults' = gitFaults
        /\ reached' = IF c = pull THEN reached ELSE 0
    BY <1>1, Zenon DEF PullInv
  <2>3. reached' \in 0..5 /\ At' <= reached' + 1 /\ gitFaults' \in Nat
    BY <2>1, <2>2
  <2>4. QED
    BY <1>1, <1>5, <2>3, Zenon DEF PullInv
<1>7. DoneInv'
  <2>1. CASE c = pull
    BY <1>1, <2>1, Zenon DEF DoneInv
  <2>2. CASE c # pull
    <3>1. reached' = 0
      BY <1>1, <2>2, Zenon
    <3>2. ~(reached' >= 1) /\ ~(reached' >= 2) /\ ~(reached' >= 3)
          /\ ~(reached' >= 4) /\ ~(reached' >= 5)
      BY <3>1
    <3>3. QED
      BY <3>2, Zenon DEF DoneInv
  <2>3. QED
    BY <2>1, <2>2, Zenon
<1>8. StagedInv'
  BY <1>1, Zenon DEF StagedInv
<1>9. ForeignFilesNeedCause'
  BY <1>1, <1>5, Zenon DEF ForeignFilesNeedCause, GitInv
<1>10. QED
  BY <1>2, <1>6, <1>7, <1>8, <1>9, Zenon

\* A failing call keeps the invariant: a refused step has done nothing, and
\* any other failure counts as a fault.
LEMMA RaiseInv ==
  ASSUME PullRequestInv, Raise
  PROVE  PullRequestInv'
<1> USE DEF PullRequestInv
<1>1. step # "idle" /\ step' = "idle" /\ UNCHANGED <<pull, given>>
  BY Zenon DEF Raise
<1>2. CASE Refused /\ UNCHANGED <<locked, reached, gitFaults>>
           /\ UNCHANGED <<work, index, head, tree, commits, start, remote, prs>>
  <2>1. UNCHANGED <<work, index, head, tree, commits, start, remote, prs>>
    BY <1>2, Zenon
  <2>2. GitInv'
    BY <2>1, Zenon DEF GitInv
  <2>3. PullInv'
    BY <1>1, <1>2, Zenon DEF PullInv
  <2>4. DoneInv'
    BY <1>1, <1>2, <2>1, Zenon DEF DoneInv
  <2>5. step = "commit" => locked
    BY <1>2, Zenon DEF Refused
  <2>6. StagedInv'
    BY <1>1, <1>2, <2>1, <2>5, Zenon DEF StagedInv
  <2>7. ForeignFilesNeedCause'
    BY <1>1, <1>2, <2>1, Zenon DEF ForeignFilesNeedCause
  <2>8. QED
    BY <2>2, <2>3, <2>4, <2>6, <2>7
<1>3. CASE /\ gitFaults' = gitFaults + 1
           /\ Work \/ UNCHANGED <<work, index, head, tree, commits, start, remote, prs, reached>>
  <2>1. gitFaults' # 0 /\ gitFaults' \in Nat
    BY <1>3 DEF PullInv
  <2>2. GitInv' /\ DoneInv' /\ reached' \in 0..5
    <3>1. CASE Work
      BY <1>1, <3>1, WorkGit, WorkDone, WorkReaches, ZenonT(40)
    <3>2. CASE UNCHANGED <<work, index, head, tree, commits, start, remote, prs, reached>>
      BY <1>1, <3>2, Zenon DEF GitInv, DoneInv, PullInv
    <3>3. QED
      BY <1>3, <3>1, <3>2, Zenon
  <2>3. PullInv'
    BY <1>1, <2>1, <2>2, Zenon DEF PullInv
  <2>4. StagedInv' /\ ForeignFilesNeedCause'
    BY <2>1, Zenon DEF StagedInv, ForeignFilesNeedCause
  <2>5. QED
    BY <2>2, <2>3, <2>4, ZenonT(40)
<1>4. QED
  BY <1>2, <1>3, Zenon DEF Raise, git

\* What a step that does its work stages and commits while nothing has failed:
\* switching leaves the index at the tip, adding stages the paths of the call,
\* committing takes them and nothing else.
LEMMA WorkStages ==
  ASSUME PullRequestInv, Work, gitFaults = 0, UNCHANGED <<pull, given>>
  PROVE  /\ step # "add" => index' = tree'[head']
         /\ step = "add" => \A p \in Paths \ pull.paths : index'[p] = tree'[head'][p]
         /\ \A b \in DOMAIN tree' \ {Main} : start'[b] = Main =>
              {p \in Paths : tree'[b][p] # tree'[Main][p]} \subseteq given'[b]
<1> USE DEF PullRequestInv
<1>1. \A b \in DOMAIN tree \ {Main} : start[b] = Main =>
        {p \in Paths : tree[b][p] # tree[Main][p]} \subseteq given[b]
  BY Zenon DEF ForeignFilesNeedCause
<1>2. CASE step = "switch" /\ pull.branch \in DOMAIN tree /\ Switch
  <2>1. head' = pull.branch /\ SwitchTo(pull.branch) /\ UNCHANGED <<tree, start>>
    BY <1>2, Zenon DEF Switch, SwitchTo
  <2>2. index = tree[head]
    BY <1>2, Zenon DEF StagedInv
  <2>3. \A p \in Paths : index[p] # tree[pull.branch][p] =>
          p \in Differ(pull.branch) /\ Clean(p)
    BY <1>2, <2>2, Zenon DEF Work, Refused, CanSwitch, Differ
  <2>4. \A p \in Paths : index'[p] = tree[pull.branch][p]
    BY <2>1, <2>3, Zenon DEF SwitchTo
  <2>5. index' \in Trees /\ tree[pull.branch] \in Trees
    BY <1>2, WorkGit, Zenon DEF GitInv
  <2>6. index' = tree[pull.branch]
    BY <2>4, <2>5 DEF Trees
  <2>7. QED
    BY <1>1, <1>2, <2>1, <2>6, Zenon
<1>3. CASE step = "switch" /\ pull.branch \notin DOMAIN tree /\ Switch
  <2>1. /\ tree' = With(tree, pull.branch, tree[head]) /\ start' = With(start, pull.branch, head)
        /\ head' = pull.branch /\ index' = index /\ index = tree[head]
    BY <1>3, Zenon DEF Switch, SwitchNew, StagedInv
  <2>2. /\ DOMAIN tree' = DOMAIN tree \cup {pull.branch} /\ tree'[pull.branch] = tree[head]
        /\ \A b \in DOMAIN tree : tree'[b] = tree[b]
    BY <1>3, <2>1, Zenon DEF With
  <2>3. start'[pull.branch] = head /\ \A b \in DOMAIN tree : start'[b] = start[b]
    BY <1>3, <2>1, Zenon DEF With, GitInv
  <2>4. Main \in DOMAIN tree
    BY Zenon DEF GitInv
  <2>5. ASSUME NEW b \in DOMAIN tree' \ {Main}, start'[b] = Main, NEW p \in Paths,
               tree'[b][p] # tree'[Main][p]
        PROVE  p \in given[b]
    <3>1. tree'[Main] = tree[Main]
      BY <2>2, <2>4, Zenon
    <3>2. CASE b = pull.branch
      BY <2>2, <2>3, <2>5, <3>1, <3>2, Zenon
    <3>3. CASE b \in DOMAIN tree
      BY <1>1, <2>2, <2>3, <2>5, <3>1, <3>3, Zenon
    <3>4. QED
      BY <2>2, <3>2, <3>3, Zenon
  <2>6. index' = tree'[head']
    BY <2>1, <2>2, Zenon
  <2>7. QED
    BY <1>3, <2>5, <2>6, Zenon
<1>4. CASE step = "add" /\ Add
  <2>1. /\ index' = [p \in Paths |-> IF p \in pull.paths THEN work[p] ELSE index[p]]
        /\ UNCHANGED <<head, tree, start>> /\ index = tree[head]
    BY <1>4, Zenon DEF Add, Added, StagedInv
  <2>2. QED
    BY <1>1, <1>4, <2>1, Zenon
<1>5. CASE step = "commit" /\ Commit
  <2>1. /\ UNCHANGED <<index, head, start>> /\ tree' = [tree EXCEPT ![head] = index]
    BY <1>5, Zenon DEF Commit, HasStaged, GitInv
  <2>2. head = pull.branch /\ head \in Branches /\ head # Main
    <3>1. At = 3 /\ At <= reached + 1 /\ reached \in 0..5 /\ pull \in Calls
      BY <1>5, AtStep, Zenon DEF PullInv
    <3>2. reached >= 1 /\ pull.branch \in Branches
      BY <3>1 DEF Calls
    <3>3. QED
      BY <3>2, PullRequestAssumption, Zenon DEF DoneInv
  <2>3. \A p \in Paths : index[p] # tree[head][p] => p \in given[head]
    BY <1>5, <2>2, Zenon DEF StagedInv, PullInv
  <2>4. DOMAIN tree' = DOMAIN tree /\ tree'[head] = index
        /\ \A b \in DOMAIN tree : b # head => tree'[b] = tree[b]
    BY <2>1, Zenon DEF GitInv
  <2>5. head \in DOMAIN tree /\ Main \in DOMAIN tree
    BY Zenon DEF GitInv
  <2>6. ASSUME NEW b \in DOMAIN tree \ {Main}, start[b] = Main, NEW p \in Paths,
               tree'[b][p] # tree[Main][p]
        PROVE  p \in given[b]
    BY <1>1, <2>3, <2>4, <2>6, Zenon
  <2>7. tree'[Main] = tree[Main]
    BY <2>2, <2>4, <2>5, Zenon
  <2>8. QED
    BY <1>5, <2>1, <2>4, <2>5, <2>6, <2>7, ZenonT(40)
<1>6. CASE step \in {"push", "open"} /\ (Push \/ Open)
  <2>1. UNCHANGED <<index, head, tree, start>> /\ index = tree[head]
    BY <1>6, Zenon DEF Push, Open, StagedInv
  <2>2. QED
    BY <1>1, <1>6, <2>1, Zenon
<1>7. QED
  BY <1>2, <1>3, <1>4, <1>5, <1>6, ZenonT(40) DEF Work

LEMMA AdvanceInv ==
  ASSUME PullRequestInv, Advance
  PROVE  PullRequestInv'
<1> USE DEF PullRequestInv
<1>1. Work /\ UNCHANGED <<locked, pull, given, gitFaults>>
      /\ step' = IF step = "open" THEN "idle" ELSE steps[At + 1]
  BY Zenon DEF Advance
<1>2. GitInv' /\ DoneInv'
  BY <1>1, WorkGit, WorkDone, Zenon
<1>3. /\ step = "switch" => step' = "add" /\ At = 1
      /\ step = "add" => step' = "commit" /\ At = 2
      /\ step = "commit" => step' = "push" /\ At = 3
      /\ step = "push" => step' = "open" /\ At = 4
      /\ step = "open" => step' = "idle"
  BY <1>1, AtStep DEF steps
<1>4. step \in {"switch", "add", "commit", "push", "open"}
  BY <1>1, Zenon DEF Work
<1>5. PullInv'
  <2>1. step' # "idle" => At' = At + 1
    BY <1>3, <1>4, AtStep DEF At, steps
  <2>2. reached' \in 0..5 /\ reached' >= At /\ At \in 1..5
    BY <1>1, WorkReaches, Zenon
  <2>3. pull \in Calls /\ pull.paths \subseteq given[pull.branch]
    BY <1>4, Zenon DEF PullInv
  <2>4. QED
    BY <1>1, <1>3, <1>4, <2>1, <2>2, <2>3 DEF PullInv
<1>6. StagedInv'
  <2>1. CASE gitFaults = 0
    <3>1. ~locked'
      BY <1>1, <2>1, Zenon DEF StagedInv
    <3>2. step' = "commit" <=> step = "add"
      BY <1>3, <1>4, Zenon
    <3>3. QED
      BY <1>1, <2>1, <3>1, <3>2, WorkStages, Zenon DEF StagedInv
  <2>2. QED
    BY <1>1, <2>1, Zenon DEF StagedInv
<1>7. ForeignFilesNeedCause'
  <2>1. CASE gitFaults = 0
    BY <1>1, <2>1, WorkStages, Zenon DEF ForeignFilesNeedCause
  <2>2. QED
    BY <1>1, <2>1, Zenon DEF ForeignFilesNeedCause
<1>8. QED
  BY <1>2, <1>5, <1>6, <1>7, Zenon

LEMMA PullNextInv == PullRequestInv /\ [PullNext]_pullVars => PullRequestInv'
<1> SUFFICES ASSUME PullRequestInv, [PullNext]_pullVars PROVE PullRequestInv'
  OBVIOUS
<1>1. CASE UNCHANGED pullVars
  BY <1>1 DEF pullVars, git, PullRequestInv, GitInv, PullInv, At, DoneInv, StagedInv,
     ForeignFilesNeedCause
<1>2. QED
  BY <1>1, WriteInv, UnlockInv, PullCallInv, AdvanceInv, RaiseInv, Zenon DEF PullNext

LEMMA PullInvariance == PullSpec => []PullRequestInv
  BY PullInitInv, PullNextInv, PTL DEF PullSpec

-----------------------------------------------------------------------------
\* ReturnedIsPublished for any branches, files and number of failures.
THEOREM ReturnPublishes == PullSpec => []ReturnedIsPublished
<1>1. PullRequestInv => ReturnedIsPublished
  <2> SUFFICES ASSUME PullRequestInv, reached = Len(steps) PROVE
                 /\ pull.branch \in prs
                 /\ \A p \in pull.paths : remote[pull.branch][p] = work[p]
    BY Zenon DEF ReturnedIsPublished
  <2>1. DoneInv
    BY Zenon DEF PullRequestInv
  <2>2. QED
    BY <2>1, AllDone, Zenon
<1>2. QED
  BY <1>1, PullInvariance, PTL

\* RepeatChangesNothing, likewise.
THEOREM RepeatIsQuiet == PullSpec => RepeatChangesNothing
<1>1. ASSUME PullRequestInv, [PullNext]_pullVars, reached = Len(steps)
      PROVE  UNCHANGED <<tree, commits, remote, prs>>
  <2>1. DoneInv
    BY <1>1, Zenon DEF PullRequestInv
  <2>2. /\ head = pull.branch /\ index = tree[head] /\ pull.branch \in prs
        /\ pull.branch \in DOMAIN remote /\ remote[pull.branch] = tree[pull.branch]
    BY <1>1, <2>1, AllDone, Zenon
  <2>3. GitInv
    BY <1>1, Zenon DEF PullRequestInv
  <2>4. CASE Work
    <3>1. CASE Switch
      <4>1. SwitchTo(head) /\ UNCHANGED <<remote, prs>>
        BY <2>2, <2>3, <3>1, Zenon DEF Switch, GitInv
      <4>2. QED
        BY <2>3, <4>1, SwitchInPlace, Zenon
    <3>2. CASE Add
      BY <3>2, Zenon DEF Add
    <3>3. CASE Commit
      BY <2>2, <3>3, Zenon DEF Commit, HasStaged
    <3>4. CASE Push
      <4>1. With(remote, pull.branch, tree[pull.branch]) = remote
        BY <2>2, <2>3, Zenon DEF With, GitInv
      <4>2. QED
        BY <3>4, <4>1, Zenon DEF Push
    <3>5. CASE Open
      BY <2>2, <3>5, Zenon DEF Open
    <3>6. QED
      BY <2>4, <3>1, <3>2, <3>3, <3>4, <3>5, ZenonT(40) DEF Work
  <2>5. CASE UNCHANGED git
    BY <2>5, Zenon DEF git
  <2>6. CASE \E p \in Paths : Write(p)
    BY <2>6, Zenon DEF Write
  <2>7. Work \/ UNCHANGED git \/ \E p \in Paths : Write(p)
    BY <1>1, Zenon DEF PullNext, Unlock, Call, Advance, Raise, pullVars
  <2>8. QED
    BY <2>4, <2>5, <2>6, <2>7, Zenon
<1>2. QED
  BY <1>1, PullInvariance, PTL DEF PullSpec, RepeatChangesNothing

\* RetryGetsAsFar, likewise.
THEOREM RetriesGetAsFar == PullSpec => []RetryGetsAsFar
<1>1. PullRequestInv => RetryGetsAsFar
  <2> SUFFICES ASSUME PullRequestInv, step # "idle", At <= reached, ~locked PROVE ~Refused
    BY Zenon DEF RetryGetsAsFar
  <2>1. CASE step = "switch"
    <3>1. head = pull.branch
      BY <2>1, AtStep, Zenon DEF PullRequestInv, PullInv, DoneInv
    <3>2. CanSwitch
      BY <3>1, Zenon DEF CanSwitch, Differ
    <3>3. QED
      BY <2>1, <3>2, Zenon DEF Refused
  <2>2. CASE step = "add"
    <3>1. CanAdd
      BY <2>2, AtStep, Zenon DEF PullRequestInv, PullInv, DoneInv, CanAdd
    <3>2. QED
      BY <2>2, <3>1, Zenon DEF Refused
  <2>3. CASE step = "open"
    <3>1. CanOpen
      BY <2>3, AtStep, Zenon DEF PullRequestInv, PullInv, DoneInv, CanOpen
    <3>2. QED
      BY <2>3, <3>1, Zenon DEF Refused
  <2>4. CASE step \notin {"switch", "add", "open"}
    BY <2>4, Zenon DEF Refused
  <2>5. QED
    BY <2>1, <2>2, <2>3, <2>4, Zenon
<1>2. QED
  BY <1>1, PullInvariance, PTL

\* ForeignFilesNeedCause, likewise.
THEOREM ForeignFilesExplained == PullSpec => []ForeignFilesNeedCause
<1>1. PullRequestInv => ForeignFilesNeedCause
  BY DEF PullRequestInv
<1>2. QED
  BY <1>1, PullInvariance, PTL
=============================================================================
