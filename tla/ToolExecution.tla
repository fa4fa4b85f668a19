---------------------------- MODULE ToolExecution ----------------------------
(***************************************************************************)
(* The single door of the control plane: the stdio MCP bridge (cli.py,     *)
(* mcp/), the run registry with its capability tokens (runner/), the       *)
(* policy-gated executor, and the content-addressed evidence store.  The   *)
(* bridge serves one line at a time; while it waits for the policy service *)
(* or for a tool, time passes, and the process can die and be started      *)
(* again.  The platform code that embeds the registry starts and finishes  *)
(* runs and issues tokens between two lines; a caller that holds such a    *)
(* token sends it along, any other caller has one minted by the bridge.    *)
(***************************************************************************)
EXTENDS Naturals, Sequences, FiniteSets

CONSTANTS
  Runs,        \* run ids
  BridgeRun,   \* SDLC_RUN_ID: the run the bridge starts for its agent
  Tools,       \* tool names a caller may send
  Registered,  \* the scope of each tool in the ToolRegistry
  Grants,      \* bound: the <<tool, scope>> pairs tokens are issued for
  Tracked,     \* bound: the payloads followed in the evidence store
  TTL,         \* DEFAULT_TTL_SECONDS
  NoCall,      \* no call is being served
  NoToken,     \* a line without a token
  Forged,      \* a token decode_token does not accept
  MaxTime,     \* bound: clock
  MaxCalls,    \* bound: lines served
  MaxTokens,   \* bound: tokens held by callers
  MaxFaults    \* bound: exceptions outside the tools, and restarts

VARIABLES
  runs,        \* RunRegistry._runs: "unknown", "active" or "finished"
  held,        \* capability tokens issued to callers
  clock,       \* int(time.time())
  phase,       \* what the executor does next: idle, policy, handler, record
  call,        \* the call being served; NoCall when idle
  last,        \* the effect and the answer of the last call, until the next
  due,         \* payloads of the calls that were answered
  served,      \* lines read
  whole, torn, \* payloads in the evidence store, byte-exact and truncated
  faults       \* failures so far

vars == <<runs, held, clock, phase, call, last, due, served, whole, torn, faults>>

Scopes == {"workspace", "vcs"}

ASSUME ToolAssumption ==
  /\ BridgeRun \in Runs
  /\ DOMAIN Registered \subseteq Tools
  /\ \A t \in DOMAIN Registered : Registered[t] \in Scopes
  /\ Grants \subseteq Tools \X Scopes
  /\ {TTL, MaxTime, MaxCalls, MaxTokens, MaxFaults} \subseteq Nat

\* The arguments as the gates tell them apart: a plain path, one in a
\* protected zone, one with a sensitive marker, or an object the tool's
\* schema refuses.
Arguments == {"plain", "protected", "sensitive", "malformed"}

\* What decode_token can yield.
Tokens == [run : Runs, tool : Tools, scope : Scopes, exp : Nat]

\* A tools/call line; "" is an absent field, and Blank one that is there but
\* no usable string.
Blank == "blank"
Lines == [tool : Tools, args : Arguments, run : Runs \cup {"", Blank},
          token : held \cup {NoToken, Forged}, scope : Scopes \cup {""}]

-----------------------------------------------------------------------------
\* policies/pre_tool_call.rego; the reason is the first of the sorted codes.
allowed_tools ==
  {"read_file", "write_file", "list_files", "run_tests", "read_artifact",
   "write_artifact", "list_artifacts", "open_pr", "skill.grill",
   "skill.grill-security", "skill.planner", "skill.task-writer", "skill.reviewer"}

PolicyDecision(c) ==
  IF c.tool = "write_file" /\ c.args = "protected" THEN "PROTECTED_PATH"
  ELSE IF c.args = "sensitive" THEN "SENSITIVE_PATH"
  ELSE IF c.tool \notin allowed_tools THEN "TOOL_NOT_IN_ALLOWLIST"
  ELSE "ALLOWED"

\* What PolicyClient.evaluate can return: the decision, or a refusal when OPA
\* does not answer in time or answers with something else.
Evaluate(c) == {PolicyDecision(c), "POLICY_UNAVAILABLE", "POLICY_MALFORMED"}

\* Mutant of RunState: a finished run is not looked for.
RunStateIfKnown(r) == IF runs[r] = "unknown" THEN "RUN_UNKNOWN" ELSE "active"

RunState(r) ==
  IF runs[r] = "unknown" THEN "RUN_UNKNOWN"
  ELSE IF runs[r] = "finished" THEN "RUN_FINISHED"
  ELSE "active"

\* RunRegistry.check, in the order of its tests.
Check(c) ==
  IF c.token = Forged THEN "SIGNATURE_INVALID"
  ELSE IF RunState(c.token.run) # "active" THEN RunState(c.token.run)
  ELSE IF c.token.exp < clock THEN "CAPABILITY_EXPIRED"
  ELSE IF c.token.tool # c.tool THEN "TOOL_NOT_ALLOWED"
  ELSE IF c.token.scope # c.scope THEN "SCOPE_MISMATCH"
  ELSE "VALID"

\* The gates of execute() after an allowing policy, up to the handler.
Gate(c) ==
  IF Check(c) # "VALID" THEN Check(c)
  ELSE IF c.tool \notin DOMAIN Registered THEN "UNKNOWN_TOOL"
  ELSE IF Registered[c.tool] # c.scope THEN "SCOPE_MISMATCH"
  ELSE IF c.args = "malformed" THEN "INVALID_TOOL_ARGS"
  ELSE "OPEN"

\* What _record writes: tool, arguments and output or reason.  The store is
\* keyed by the digest, so equal payloads are one file.
Payload(c) == {<<c.tool, c.args, c.reason>>} \cap Tracked

-----------------------------------------------------------------------------
NoAnswer == [effect |-> "none", answer |-> "none"]

Init ==
  /\ runs   = [r \in Runs |-> IF r = BridgeRun THEN "active" ELSE "unknown"]
  /\ held   = {}
  /\ clock  = 0
  /\ phase  = "idle"
  /\ call   = NoCall
  /\ last   = NoAnswer
  /\ due    = {}
  /\ served = 0
  /\ whole  = {}
  /\ torn   = {}
  /\ faults = 0

\* The line is answered with the outcome or with an error, and the loop of
\* serve_stdio reads the next.
Answer(text) ==
  /\ phase' = "idle"
  /\ call'  = NoCall
  /\ last'  = [effect |-> call.effect, answer |-> text]

\* All three fields are usable strings: the test of inject_capability before
\* it fills in anything, and of _call before it executes.
Complete(l) == l.run \notin {"", Blank} /\ l.token # NoToken /\ l.scope # ""

\* inject_capability leaves a line alone that is complete or names a tool that
\* is not registered.  Otherwise it evaluates issue() for the bridge's run,
\* even when only another field is missing.
Untouched(l) == Complete(l) \/ l.tool \notin DOMAIN Registered

Mint(r, t) == [run |-> r, tool |-> t, scope |-> Registered[t], exp |-> clock + TTL]

\* setdefault: only absent fields are filled in.
Inject(l) ==
  [l EXCEPT !.run   = IF @ = "" THEN BridgeRun ELSE @,
            !.scope = IF @ = "" THEN Registered[l.tool] ELSE @,
            !.token = IF @ = NoToken THEN Mint(BridgeRun, l.tool) ELSE @]

\* A call as the executor keeps it: the fields and what happened so far.
CallOf(filled) ==
  [tool |-> filled.tool, args |-> filled.args, run |-> filled.run,
   token |-> filled.token, scope |-> filled.scope,
   decision |-> "none", reason |-> "none", effect |-> "none"]

\* A line is read and does not reach the gates: the bridge's run is finished
\* and issue() raises, a field is still missing, or execute() does not know
\* the run.
RefuseLine(l) ==
  /\ phase = "idle"
  /\ served < MaxCalls
  /\ served' = served + 1
  /\ LET filled == IF Untouched(l) THEN l ELSE Inject(l)
     IN  \/ ~Untouched(l) /\ runs[BridgeRun] # "active"
         \/ ~Complete(filled)
         \/ Complete(filled) /\ runs[filled.run] = "unknown"
  /\ UNCHANGED <<runs, held, clock, phase, call, last, due, whole, torn, faults>>

\* A line is read, its fields are filled in, and the executor finds its run:
\* the policy service is asked.
AcceptLine(l) ==
  /\ phase = "idle"
  /\ served < MaxCalls
  /\ served' = served + 1
  /\ Untouched(l) \/ runs[BridgeRun] = "active"
  /\ LET filled == IF Untouched(l) THEN l ELSE Inject(l)
     IN  /\ Complete(filled)
         /\ runs[filled.run] # "unknown"
         /\ call' = CallOf(filled)
  /\ phase' = "policy"
  /\ last'  = NoAnswer
  /\ UNCHANGED <<runs, held, clock, due, whole, torn, faults>>

\* Mutant of Allows: an unavailable policy service lets the call pass.
AllowsUnlessDenied(d) == d \in {"ALLOWED", "POLICY_UNAVAILABLE"}

\* PolicyResult.allow.
Allows(d) == d = "ALLOWED"

\* The policy call returns; the decision document is built and the gates are
\* tried in order on the registry and the clock as they are now.
PolicyReplies ==
  /\ phase = "policy"
  /\ \E d \in Evaluate(call) :
       LET reason == IF Allows(d) THEN Gate(call) ELSE d
       IN  /\ call' = [call EXCEPT !.decision = d, !.reason = reason]
           /\ phase' = IF reason = "OPEN" THEN "handler" ELSE "record"
  /\ UNCHANGED <<runs, held, clock, last, due, served, whole, torn, faults>>

Fault ==
  /\ faults < MaxFaults
  /\ faults' = faults + 1

\* The policy client raises: a reply that breaks off or that is no text is not
\* among the exceptions it handles.  serve_stdio answers; nothing is recorded.
PolicyRaises ==
  /\ phase = "policy"
  /\ Fault
  /\ Answer("INTERNAL_ERROR")
  /\ UNCHANGED <<runs, held, clock, due, served, whole, torn>>

\* Mutant of Failure: an exception of the handler is swallowed.
FailureSwallowed == "EXECUTED"

Failure == "EXECUTION_FAILED"

\* How a handler ends, and whether it had its effect: it succeeds, raises
\* before or after the effect, or returns what its result schema refuses.
\* open_pr rejects protected paths before it touches anything.
HandlerOutcomes(c) ==
  IF c.tool = "open_pr" /\ c.args = "protected"
  THEN {<<Failure, "none">>}
  ELSE {<<"EXECUTED", "done">>, <<Failure, "none">>, <<Failure, "done">>,
        <<"INVALID_TOOL_RESULT", "done">>}

RunHandler ==
  /\ phase = "handler"
  /\ \E o \in HandlerOutcomes(call) :
       call' = [call EXCEPT !.reason = o[1], !.effect = o[2]]
  /\ phase' = "record"
  /\ UNCHANGED <<runs, held, clock, last, due, served, whole, torn, faults>>

\* Mutant of Stored: only successful calls leave evidence.
StoredIfExecuted(c) == IF c.reason = "EXECUTED" THEN Payload(c) ELSE {}

\* What EvidenceStore.put is given.
Stored(c) == Payload(c)

\* process_tool_output: the payload is stored, then the call is answered with
\* its output or with the reason as a tool error.
Record ==
  /\ phase = "record"
  /\ whole' = whole \cup Stored(call)
  /\ torn'  = torn \ Payload(call)
  /\ due'   = due \cup Payload(call)
  /\ Answer(call.reason)
  /\ UNCHANGED <<runs, held, clock, served, faults>>

\* write_bytes truncates the file before it writes it.
Tear(p) ==
  \/ UNCHANGED <<whole, torn>>
  \/ whole' = whole \ p /\ torn' = torn \cup p

\* The store raises (a full disk): serve_stdio answers with an internal error.
RecordFails ==
  /\ phase = "record"
  /\ Fault
  /\ Tear(Payload(call))
  /\ Answer("INTERNAL_ERROR")
  /\ UNCHANGED <<runs, held, clock, due, served>>

\* The process dies and is started again with the run id of its environment:
\* the registry and the counters are new, the store remains.  Tokens that are
\* held stay good if the secret comes from the environment too.
Restart ==
  /\ Fault
  /\ runs' = [r \in Runs |-> IF r = BridgeRun THEN "active" ELSE "unknown"]
  /\ \/ phase = "idle" /\ UNCHANGED <<phase, call, last, whole, torn>>
     \/ /\ phase # "idle"
        /\ Answer("lost")
        /\ \/ phase = "record" /\ Tear(Payload(call))
           \/ phase # "record" /\ UNCHANGED <<whole, torn>>
  /\ held' \in {held, {}}
  /\ UNCHANGED <<clock, due, served>>

\* RunRegistry.start replaces whatever the id stood for.
Start(r) ==
  /\ phase = "idle"
  /\ runs' = [runs EXCEPT ![r] = "active"]
  /\ UNCHANGED <<held, clock, phase, call, last, due, served, whole, torn, faults>>

Finish(r) ==
  /\ phase = "idle"
  /\ runs[r] # "unknown"
  /\ runs' = [runs EXCEPT ![r] = "finished"]
  /\ UNCHANGED <<held, clock, phase, call, last, due, served, whole, torn, faults>>

Issue(r, t, s) ==
  /\ phase = "idle"
  /\ runs[r] = "active"
  /\ Cardinality(held) < MaxTokens
  /\ held' = held \cup {[run |-> r, tool |-> t, scope |-> s, exp |-> clock + TTL]}
  /\ UNCHANGED <<runs, clock, phase, call, last, due, served, whole, torn, faults>>

Tick ==
  /\ clock < MaxTime
  /\ clock' = clock + 1
  /\ UNCHANGED <<runs, held, phase, call, last, due, served, whole, torn, faults>>

Serve == PolicyReplies \/ RunHandler \/ Record

Next ==
  \/ \E l \in Lines : RefuseLine(l) \/ AcceptLine(l)
  \/ Serve
  \/ PolicyRaises
  \/ RecordFails
  \/ Restart
  \/ \E r \in Runs : Start(r) \/ Finish(r)
  \/ \E r \in Runs, g \in Grants : Issue(r, g[1], g[2])
  \/ Tick

Spec == Init /\ [][Next]_vars

-----------------------------------------------------------------------------
\* A tool has had its effect only in a call the policy allowed, under a token
\* for that very tool and for the scope it is registered with, on arguments
\* of its schema; neither write_file nor open_pr touches a protected zone,
\* although the policy refuses it only to the first.
EffectsWereGated ==
  call # NoCall /\ call.effect = "done" =>
    /\ call.decision = "ALLOWED"
    /\ call.token.tool = call.tool
    /\ call.token.scope = Registered[call.tool]
    /\ call.args \notin {"malformed", "sensitive"}
    /\ call.tool \in {"write_file", "open_pr"} => call.args # "protected"

\* A run that is finished takes no further effect: whenever a tool runs, the
\* run whose token opened the gate is still active, although tokens outlive
\* their run.
FinishedRunsStayQuiet ==
  phase = "handler" => runs[call.token.run] = "active"

\* Answers tell what happened: success means the effect took place, and a
\* refusal by policy, capability or schema means it did not.  Only the two
\* failures of the handler itself, a failed evidence write and a restart
\* leave it open.
AnswersTellEffects ==
  /\ last.answer = "EXECUTED" => last.effect = "done"
  /\ last.effect = "done" => last.answer \in {"EXECUTED", "EXECUTION_FAILED",
                       "INVALID_TOOL_RESULT", "INTERNAL_ERROR", "lost"}

\* Every call that was decided and answered has its evidence in the store,
\* byte-exact; each fault can spoil at most one payload (executor.py: every
\* execution is auditable, ADR-0007: byte-exact original).
EvidenceLossNeedsFault ==
  /\ due \subseteq whole \cup torn
  /\ Cardinality(torn) <= faults

=============================================================================
