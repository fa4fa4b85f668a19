------------------------------ MODULE Governance ------------------------------
(***************************************************************************)
(* The gate on the status of artifacts.  A change of status is put to      *)
(* policies/artifact_transition.rego with the open findings and the        *)
(* waivers; waivers are judged a second time by waiver/enforcement.py.     *)
(* Time passes, findings come and go, and waivers run out or are revoked   *)
(* between these steps.  The gate on releases is in ReleaseGate.           *)
(***************************************************************************)
EXTENDS Naturals, FiniteSets

CONSTANTS
  Artifacts,   \* artifact ids
  ArtifactType,\* the type of each artifact
  Risks,       \* risk ids
  Authors,     \* who create, approve and own waivers
  Reported,    \* the severities findings are reported with
  MaxTime,     \* bound: clock
  MaxWaivers   \* bound: waivers written

VARIABLES
  status,      \* the status of each artifact
  findings,    \* open findings, [risk, severity]
  waivers,     \* the waivers written, with their status
  clock        \* the moment passed as now

vars == <<status, findings, waivers, clock>>

ASSUME GovernanceAssumption == MaxTime \in Nat

ActorTypes == {"human", "agent", "ci"}

\* policies/artifact_transition.rego
statuses(type) ==
  CASE type \in {"specification", "threat-model"} -> {"draft", "in_review", "approved", "rejected", "superseded"}
    [] type = "plan"          -> {"draft", "approved", "superseded"}
    [] type = "task"          -> {"todo", "in_progress", "implemented", "in_review",
                                  "done", "blocked"}
    [] type = "waiver"        -> {"active", "expired", "revoked"}
    [] OTHER                  -> {}

LifecycleTypes == {"specification", "threat-model", "plan", "task", "waiver"}
AllStatuses == UNION {statuses(t) : t \in LifecycleTypes}

Edge(from, to) == [from |-> from, to |-> to]
Edges(from, targets) == {Edge(from, t) : t \in targets}

lifecycles(type) ==
  CASE type \in {"specification", "threat-model"} ->
         Edges("draft", {"in_review", "superseded"}) \cup Edges("in_review", {"approved", "rejected"})
         \cup Edges("approved", {"superseded"}) \cup Edges("rejected", {"draft", "superseded"})
    [] type = "plan" ->
         Edges("draft", {"approved", "superseded"}) \cup Edges("approved", {"superseded"})
    [] type = "task" ->
         Edges("todo", {"in_progress", "blocked"}) \cup Edges("in_progress", {"implemented", "blocked"})
         \cup Edges("implemented", {"in_review", "blocked"})
         \cup Edges("in_review", {"done", "implemented", "blocked"})
         \cup Edges("blocked", {"todo", "in_progress"})
    [] type = "waiver" -> Edges("active", {"expired", "revoked"})
    [] OTHER -> {}

\* Mutant of EndStatuses: statuses without a way out need no entry.
NoEndStatuses(type) == {}

\* The statuses listed with an empty set of targets.
EndStatuses(type) ==
  CASE type = "task"   -> {"done"}
    [] type = "waiver" -> {"expired", "revoked"}
    [] OTHER           -> {}

\* The keys of the lifecycle object.
LifecycleKeys(type) == {e.from : e \in lifecycles(type)} \cup EndStatuses(type)

\* Mutant of waiver_is_unexpired: the last moment counts as before it.
UnexpiredAtEnd(w, now) == w.format = "rfc3339" /\ now <= w.expires

\* time.parse_rfc3339_ns is undefined, and so is the rule, for anything else.
waiver_is_unexpired(w, now) == w.format = "rfc3339" /\ now < w.expires

medium_is_waived(risk, ws, now) ==
  \E w \in ws : /\ w.risk = risk
                /\ w.severity = "medium"
                /\ w.status = "active"
                /\ waiver_is_unexpired(w, now)

\* Mutant of UnresolvedMedium: only the two highest severities count.
NoneUnresolved(fs, ws, now) == FALSE

UnresolvedMedium(fs, ws, now) ==
  \E f \in fs : f.severity = "medium" /\ ~medium_is_waived(f.risk, ws, now)

deny_reasons(type, from, to, actor, fs, ws, now) ==
  {r \in {"UNKNOWN_ARTIFACT_TYPE"} : type \notin LifecycleTypes}
  \cup {r \in {"UNKNOWN_STATUS"} : to \notin statuses(type) \/ from \notin statuses(type)}
  \cup {r \in {"ILLEGAL_TRANSITION"} :
          from \in LifecycleKeys(type) /\ Edge(from, to) \notin lifecycles(type)}
  \cup {r \in {"AGENT_MAY_NOT_APPROVE"} : actor = "agent" /\ to \in {"approved", "done"}}
  \cup {r \in {"BLOCKING_FINDING"} : \E f \in fs : f.severity \in {"critical", "high"}}
  \cup {r \in {"UNRESOLVED_MEDIUM"} : UnresolvedMedium(fs, ws, now)}

-----------------------------------------------------------------------------
\* waiver/enforcement.py

\* What parse_timestamp reads: fromisoformat takes more than RFC 3339, a bare
\* date for one, and a missing zone is UTC.
Readable(w) == w.format \in {"rfc3339", "iso"}

validate_waiver(w) ==
  {r \in {"SEVERITY_NOT_WAIVABLE"} : w.severity # "medium"}
  \cup {r \in {"AGENT_MAY_NOT_CREATE"} : w.created_by # "human"}
  \cup {r \in {"AGENT_MAY_NOT_APPROVE"} : w.approved_by.type # "human"}
  \cup {r \in {"APPROVER_NOT_SECURITY_REVIEWER"} : w.approved_by.role # "security-reviewer"}
  \cup {r \in {"APPROVER_IS_RISK_OWNER"} :
          w.approved_by.role = "security-reviewer" /\ w.owner = "security-reviewer"}
  \cup {r \in {"INVALID_WAIVER"} : ~Readable(w)}
  \cup {r \in {"EXPIRES_BEFORE_CREATED"} : Readable(w) /\ w.expires <= w.created}

waiver_state(w, now) ==
  CASE w.status # "active" -> w.status
    [] w.status = "active" /\ ~Readable(w) -> "invalid"
    [] w.status = "active" /\ Readable(w) -> IF now >= w.expires THEN "expired" ELSE "active"

WaiverValid(w, now) == validate_waiver(w) = {} /\ waiver_state(w, now) = "active"

\* evaluate_risk(...).blocked
RiskBlocks(f, ws, now) ==
  \/ f.severity \notin {"medium", "low"}
  \/ f.severity = "medium" /\ ~\E w \in ws : w.risk = f.risk /\ WaiverValid(w, now)

-----------------------------------------------------------------------------
\* The status the role skills give to what they assemble.
InitialStatus(type) == IF type = "task" THEN "todo" ELSE "draft"

Init ==
  /\ status    = [a \in Artifacts |-> InitialStatus(ArtifactType[a])]
  /\ findings  = {}
  /\ waivers   = {}
  /\ clock     = 0

\* evaluate_transition for an artifact; the caller changes the status if the
\* gate allows it.  A denial, be it that the policy service could not be
\* asked, changes nothing.
Transition(a, to, actor) ==
  /\ deny_reasons(ArtifactType[a], status[a], to, actor, findings, waivers, clock) = {}
  /\ status' = [status EXCEPT ![a] = to]
  /\ UNCHANGED <<findings, waivers, clock>>

\* The same for a waiver, which is expired or revoked by its own lifecycle.
CloseWaiver(w, to, actor) ==
  /\ deny_reasons("waiver", w.status, to, actor, {}, {}, clock) = {}
  /\ waivers' = (waivers \ {w}) \cup {[w EXCEPT !.status = to]}
  /\ UNCHANGED <<status, findings, clock>>

\* Someone writes a waiver document.
WriteWaiver(risk, severity, who, expires, format) ==
  /\ Cardinality(waivers) < MaxWaivers
  /\ waivers' = waivers \cup
       {[risk |-> risk, severity |-> severity, status |-> "active",
         created_by |-> who.created_by, approved_by |-> who.approved_by, owner |-> who.owner,
         created |-> clock, expires |-> expires, format |-> format]}
  /\ UNCHANGED <<status, findings, clock>>

\* A scan or a review reports a finding, or it is resolved.
Report(f) ==
  /\ \A g \in findings : g.risk # f.risk
  /\ findings' = findings \cup {f}
  /\ UNCHANGED <<status, waivers, clock>>

Resolve(f) ==
  /\ findings' = findings \ {f}
  /\ UNCHANGED <<status, waivers, clock>>

Tick ==
  /\ clock < MaxTime
  /\ clock' = clock + 1
  /\ UNCHANGED <<status, findings, waivers>>

Next ==
  \/ \E a \in Artifacts, actor \in ActorTypes :
       \E to \in AllStatuses : Transition(a, to, actor)
  \/ \E w \in waivers, to \in statuses("waiver"), actor \in ActorTypes : CloseWaiver(w, to, actor)
  \/ \E risk \in Risks, severity \in {"medium", "high"}, who \in Authors, expires \in 0..MaxTime,
        format \in {"rfc3339", "iso", "other"} :
       WriteWaiver(risk, severity, who, expires, format)
  \/ \E f \in [risk : Risks, severity : Reported] : Report(f)
  \/ \E f \in findings : Resolve(f)
  \/ Tick

Spec == Init /\ [][Next]_vars

-----------------------------------------------------------------------------
\* The two judges of a waiver agree to the second.  Of properly written
\* waivers the policy accepts none that Python refuses, and what Python
\* accepts the policy accepts too if its expiry is in RFC 3339; the schema
\* does not enforce that (validate_document passes no format checker), and a
\* bare date is a waiver to Python and none to the policy.
WaiverJudgesAgree ==
  \A risk \in Risks :
    LET f       == [risk |-> risk, severity |-> "medium"]
        written == {w \in waivers : validate_waiver(w) = {}}
        waived  == medium_is_waived(risk, written, clock)
    IN  /\ waived => ~RiskBlocks(f, waivers, clock)
        /\ (\A w \in waivers : w.format = "rfc3339") =>
             (~RiskBlocks(f, waivers, clock) => waived)

\* No artifact changes its status over an open finding that Python would let
\* nobody waive, or over a medium one without a waiver in force at that time.
NoAdvanceOverFindings ==
  [][status' # status =>
       \A f \in findings :
         /\ f.severity \notin {"critical", "high"}
         /\ f.severity = "medium" =>
              \E w \in waivers : /\ w.risk = f.risk /\ w.severity = "medium"
                                 /\ waiver_state(w, clock) = "active"]_vars

\* What is done stays done, and a waiver once expired or revoked is never
\* active again, whoever asks: the empty target sets of the lifecycles.
EndsAreFinal ==
  [][/\ \A a \in Artifacts : status[a] = "done" => status'[a] = "done"
     /\ \A w \in waivers : w.status # "active" => w \in waivers']_vars

\* Every change of status is one its lifecycle lists: an illegal transition
\* is denied (artifact_transition.rego, "Fail-closed: unknown artifact/status,
\* illegal transition ... all deny").
OnlyListedTransitions ==
  [][\A a \in Artifacts :
       status'[a] # status[a] => Edge(status[a], status'[a]) \in lifecycles(ArtifactType[a])]_vars
=============================================================================
