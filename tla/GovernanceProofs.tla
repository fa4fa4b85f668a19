--------------------------- MODULE GovernanceProofs ---------------------------
(***************************************************************************)
(* The gate on transitions for any artifacts, risks, findings, waivers and *)
(* authors, however many waivers are written, and the gate on releases for *)
(* any candidates and any number of calls, of which any number are cut     *)
(* short.                                                                  *)
(***************************************************************************)
EXTENDS Governance, ReleaseGate, TLAPS

\* The time the provers get for a step, whatever the machine.
USE SMTT(20), ZenonT(20)

\* Every artifact has a status, and moments are numbers, which comparing the
\* expiry with the clock needs.
IInv ==
  /\ DOMAIN status = Artifacts
  /\ clock \in Nat
  /\ \A w \in waivers : "expires" \in DOMAIN w /\ w.expires \in Nat

\* A denial for none of the reasons: each rule of artifact_transition.rego on
\* its own.
LEMMA Allowed ==
  ASSUME NEW type, NEW from, NEW to, NEW actor, NEW fs, NEW ws, NEW now,
         deny_reasons(type, from, to, actor, fs, ws, now) = {}
  PROVE  /\ to \in statuses(type) /\ from \in statuses(type)
         /\ from \in LifecycleKeys(type) => Edge(from, to) \in lifecycles(type)
         /\ \A f \in fs : f.severity \notin {"critical", "high"}
         /\ \A f \in fs : f.severity = "medium" => medium_is_waived(f.risk, ws, now)
<1>1. to \in statuses(type) /\ from \in statuses(type)
  BY DEF deny_reasons
<1>2. from \in LifecycleKeys(type) => Edge(from, to) \in lifecycles(type)
  BY DEF deny_reasons
<1>3. \A f \in fs : f.severity \notin {"critical", "high"}
  BY DEF deny_reasons
<1>4. ~UnresolvedMedium(fs, ws, now)
  BY DEF deny_reasons
<1>5. QED
  BY <1>1, <1>2, <1>3, <1>4 DEF UnresolvedMedium

\* A task that is done, and a waiver that is not active, have no way out.
LEMMA NoWayOut ==
  ASSUME NEW type, NEW from, NEW to, NEW actor, NEW fs, NEW ws, NEW now,
         deny_reasons(type, from, to, actor, fs, ws, now) = {}
  PROVE  from # "done" /\ (type = "waiver" => from = "active")
<1>1. /\ from \in statuses(type)
      /\ from \in LifecycleKeys(type) => Edge(from, to) \in lifecycles(type)
  BY Allowed
<1>2. ASSUME from = "done" PROVE FALSE
  <2>1. type = "task"
    BY <1>1, <1>2 DEF statuses
  <2>2. from \in LifecycleKeys(type)
    BY <1>2, <2>1 DEF LifecycleKeys, EndStatuses
  <2>3. Edge(from, to) \notin lifecycles(type)
    BY <1>2, <2>1 DEF lifecycles, Edges, Edge
  <2>4. QED
    BY <1>1, <2>2, <2>3
<1>3. ASSUME type = "waiver", from # "active" PROVE FALSE
  <2>1. from \in {"expired", "revoked"}
    BY <1>1, <1>3 DEF statuses
  <2>2. from \in LifecycleKeys(type)
    BY <1>3, <2>1 DEF LifecycleKeys, EndStatuses
  <2>3. Edge(from, to) \notin lifecycles(type)
    BY <1>3 DEF lifecycles, Edges, Edge
  <2>4. QED
    BY <1>1, <2>2, <2>3
<1>4. QED
  BY <1>2, <1>3

\* What the policy takes for a waiver is in force for Python too, to the moment.
LEMMA UnexpiredIsActive ==
  ASSUME NEW w, NEW now \in Nat, w.expires \in Nat, w.status = "active"
  PROVE  /\ waiver_is_unexpired(w, now) => waiver_state(w, now) = "active"
         /\ w.format = "rfc3339" /\ waiver_state(w, now) = "active" => waiver_is_unexpired(w, now)
  BY DEF waiver_is_unexpired, waiver_state, Readable

-----------------------------------------------------------------------------
\* Every artifact starts with a status, at moment zero and without waivers.
LEMMA InitInv == Init => IInv
  BY DEF Init, IInv

\* Artifacts keep a status and waivers their moments, whatever becomes of them.
LEMMA NextInv == IInv /\ [Next]_vars => IInv'
<1> SUFFICES ASSUME IInv, [Next]_vars PROVE IInv'
  OBVIOUS
<1>1. ASSUME NEW w \in waivers, NEW to \in statuses("waiver"), NEW actor \in ActorTypes,
             CloseWaiver(w, to, actor)
      PROVE  IInv'
  BY <1>1 DEF CloseWaiver, IInv
<1>2. ASSUME NEW risk \in Risks, NEW severity \in {"medium", "high"}, NEW who \in Authors,
             NEW expires \in 0..MaxTime, NEW format \in {"rfc3339", "iso", "other"},
             WriteWaiver(risk, severity, who, expires, format)
      PROVE  IInv'
  BY <1>2, GovernanceAssumption DEF WriteWaiver, IInv
<1>3. CASE Tick
  BY <1>3 DEF Tick, IInv
<1>4. CASE DOMAIN status' = DOMAIN status /\ UNCHANGED <<waivers, clock>>
  BY <1>4 DEF IInv
<1>5. ASSUME NEW a \in Artifacts, NEW to, NEW actor, Transition(a, to, actor)
      PROVE  DOMAIN status' = DOMAIN status /\ UNCHANGED <<waivers, clock>>
  BY <1>5 DEF Transition
<1>6. QED
  BY <1>1, <1>2, <1>3, <1>4, <1>5 DEF Next, Report, Resolve, vars

\* The invariant holds at all times.
THEOREM Invariance == Spec => []IInv
  BY InitInv, NextInv, PTL DEF Spec

\* WaiverJudgesAgree for any risks, authors and waivers, any number of them and
\* at any moment.
THEOREM JudgesAgree == Spec => []WaiverJudgesAgree
<1>1. ASSUME IInv PROVE WaiverJudgesAgree
  <2> SUFFICES ASSUME NEW risk \in Risks
               PROVE  LET f       == [risk |-> risk, severity |-> "medium"]
                          written == {w \in waivers : validate_waiver(w) = {}}
                          waived  == medium_is_waived(risk, written, clock)
                      IN  /\ waived => ~RiskBlocks(f, waivers, clock)
                          /\ (\A w \in waivers : w.format = "rfc3339") =>
                               (~RiskBlocks(f, waivers, clock) => waived)
    BY DEF WaiverJudgesAgree
  <2> DEFINE f       == [risk |-> risk, severity |-> "medium"]
             written == {w \in waivers : validate_waiver(w) = {}}
  <2>1. RiskBlocks(f, waivers, clock) <=>
          ~\E w \in waivers : w.risk = risk /\ WaiverValid(w, clock)
    BY DEF RiskBlocks
  <2>2. ASSUME medium_is_waived(risk, written, clock)
        PROVE  \E w \in waivers : w.risk = risk /\ WaiverValid(w, clock)
    <3>1. PICK w \in written : /\ w.risk = risk /\ w.status = "active"
                               /\ waiver_is_unexpired(w, clock)
      BY <2>2 DEF medium_is_waived
    <3>2. WaiverValid(w, clock)
      BY <1>1, <3>1, UnexpiredIsActive DEF WaiverValid, IInv
    <3>3. QED
      BY <3>1, <3>2
  <2>3. ASSUME \A w \in waivers : w.format = "rfc3339",
               NEW w \in waivers, w.risk = risk, WaiverValid(w, clock)
        PROVE  medium_is_waived(risk, written, clock)
    <3>1. validate_waiver(w) = {} /\ waiver_state(w, clock) = "active"
      BY <2>3 DEF WaiverValid
    <3>2. w.severity = "medium"
      BY <3>1 DEF validate_waiver
    <3>3. w.status = "active"
      BY <3>1 DEF waiver_state
    <3>4. waiver_is_unexpired(w, clock)
      BY <1>1, <2>3, <3>1, <3>3, UnexpiredIsActive DEF IInv
    <3>5. QED
      BY <2>3, <3>1, <3>2, <3>3, <3>4 DEF medium_is_waived
  <2>4. QED
    BY <2>1, <2>2, <2>3
<1>2. QED
  BY <1>1, Invariance, PTL

\* NoAdvanceOverFindings for any artifacts, findings and waivers: a transition
\* is decided on the findings and the waivers as they are at that moment.
THEOREM FindingsHold == Spec => NoAdvanceOverFindings
<1> DEFINE Held == \A f \in findings :
                     /\ f.severity \notin {"critical", "high"}
                     /\ f.severity = "medium" =>
                          \E w \in waivers : /\ w.risk = f.risk /\ w.severity = "medium"
                                             /\ waiver_state(w, clock) = "active"
<1>1. ASSUME IInv, Next, status' # status PROVE Held
  <2>1. PICK a \in Artifacts, actor \in ActorTypes, to \in AllStatuses : Transition(a, to, actor)
    BY <1>1 DEF Next, CloseWaiver, WriteWaiver, Report, Resolve, Tick
  <2>2. /\ \A f \in findings : f.severity \notin {"critical", "high"}
        /\ \A f \in findings : f.severity = "medium" => medium_is_waived(f.risk, waivers, clock)
    BY <2>1, Allowed DEF Transition
  <2>3. ASSUME NEW f \in findings, f.severity = "medium"
        PROVE  \E w \in waivers : /\ w.risk = f.risk /\ w.severity = "medium"
                                  /\ waiver_state(w, clock) = "active"
    <3>1. PICK w \in waivers : /\ w.risk = f.risk /\ w.severity = "medium"
                               /\ w.status = "active" /\ waiver_is_unexpired(w, clock)
      BY <2>2, <2>3 DEF medium_is_waived
    <3>2. waiver_state(w, clock) = "active"
      BY <1>1, <3>1, UnexpiredIsActive DEF IInv
    <3>3. QED
      BY <3>1, <3>2
  <2>4. QED
    BY <2>2, <2>3
<1>2. IInv /\ [Next]_vars => [status' # status => Held]_vars
  BY <1>1
<1>3. QED
  BY <1>2, Invariance, PTL DEF Spec, NoAdvanceOverFindings

\* EndsAreFinal for any artifacts and waivers: the empty target sets of the
\* lifecycles leave no way out, for whatever actor.
THEOREM EndsStay == Spec => EndsAreFinal
<1> DEFINE Stay == /\ \A a \in Artifacts : status[a] = "done" => status'[a] = "done"
                   /\ \A w \in waivers : w.status # "active" => w \in waivers'
<1>1. ASSUME IInv, NEW a \in Artifacts, NEW to, NEW actor, Transition(a, to, actor) PROVE Stay
  <2>1. status[a] # "done"
    BY <1>1, NoWayOut DEF Transition
  <2>2. QED
    BY <1>1, <2>1 DEF Transition, IInv
<1>2. ASSUME NEW w \in waivers, NEW to, NEW actor, CloseWaiver(w, to, actor) PROVE Stay
  <2>1. w.status = "active"
    BY <1>2, NoWayOut DEF CloseWaiver
  <2>2. QED
    BY <1>2, <2>1 DEF CloseWaiver
<1>3. ASSUME UNCHANGED status, waivers \subseteq waivers' PROVE Stay
  BY <1>3
<1>4. IInv /\ [Next]_vars => [Stay]_vars
  BY <1>1, <1>2, <1>3 DEF Next, WriteWaiver, Report, Resolve, Tick
<1>5. QED
  BY <1>4, Invariance, PTL DEF Spec, EndsAreFinal

-----------------------------------------------------------------------------
\* The decision document of the running call.
Decided == build_policy_decision(result, "pre-deployment")

\* The files of the output directory belong together.
Pair ==
  \/ bundleFile = Nothing /\ decisionFile = Nothing
  \/ /\ Whole(bundleFile) /\ Whole(decisionFile)
     /\ decisionFile.input_digest = deployment_input(bundleFile.candidate_digest)

\* What the running call has at hand at each step.
CallInv ==
  /\ step \in {"idle", "evaluate", "bundle", "decision", "exit"}
  /\ wanted \in {"files", "none"}
  /\ step # "idle" => candidate \in Candidates /\ exit = Nothing
  /\ step \in {"bundle", "decision", "exit"} => result \in PolicyResults(candidate)

\* The files match at every step but between the two writes, where the bundle
\* is already the new one.
FilesInv ==
  /\ step = "decision" => bundleFile = Bundle(candidate)
  /\ step = "exit" /\ wanted = "files" => bundleFile = Bundle(candidate) /\ decisionFile = Decided
  /\ step # "decision" /\ whole = "yes" => Pair

\* The inductive invariant.
ReleaseInv == CallInv /\ FilesInv /\ AllowsWereGiven

-----------------------------------------------------------------------------
\* The policy looks at nothing that build_deployment_input leaves out.
LEMMA InputSuffices ==
  ASSUME NEW c
  PROVE  release_deny_reasons(deployment_input(c)) = release_deny_reasons(c)
<1> DEFINE i == deployment_input(c)
<1>1. /\ i.image = c.image /\ i.signature = c.signature /\ i.sbom = c.sbom
      /\ i.provenance = c.provenance /\ i.policy_decisions = c.policy_decisions
      /\ i.required_approver_role = c.required_approver_role /\ i.approvals = c.approvals
  BY DEF deployment_input
<1> HIDE DEF i
<1>2. release_deny_reasons(i) = release_deny_reasons(c)
  BY <1>1 DEF release_deny_reasons, point_allowed, approval_present
<1>3. QED
  BY <1>2 DEF i

\* An allowing result was given for its input and without an objection; every
\* other outcome of PolicyClient.evaluate is a denial.
LEMMA ResultFacts ==
  ASSUME NEW c, NEW r \in PolicyResults(c)
  PROVE  /\ r.input_digest = deployment_input(c)
         /\ r.decision = "allow" => release_deny_reasons(deployment_input(c)) = {}
<1>1. CASE r = PolicyAnswer(c)
  BY <1>1 DEF PolicyAnswer
<1>2. CASE \E x \in {"POLICY_UNAVAILABLE", "POLICY_MALFORMED"} : r = FailClosed(x, c)
  BY <1>2 DEF FailClosed
<1>3. QED
  BY <1>1, <1>2 DEF PolicyResults

\* The document says what the result says.
LEMMA DecidedFacts ==
  ASSUME NEW r
  PROVE  LET d == build_policy_decision(r, "pre-deployment")
         IN  d.decision = r.decision /\ d.input_digest = r.input_digest
  BY DEF build_policy_decision

\* The digest of a bundle is that of its candidate.
LEMMA BundleFacts ==
  ASSUME NEW c
  PROVE  Bundle(c).candidate_digest = c
  BY DEF Bundle

-----------------------------------------------------------------------------
\* The invariant holds in an empty directory.
LEMMA ReleaseInitInv == ReleaseInit => ReleaseInv
  BY DEF ReleaseInit, ReleaseInv, CallInv, FilesInv, Pair, AllowsWereGiven, Whole

\* A candidate is read, or refused.
LEMMA LoadInv ==
  ASSUME ReleaseInv, NEW file \in Candidates \cup {NotACandidate}, NEW output \in {"files", "none"},
         Load(file, output)
  PROVE  ReleaseInv'
<1>1. step = "idle" /\ UNCHANGED <<bundleFile, decisionFile, whole>>
  BY DEF Load
<1>2. AllowsWereGiven'
  BY <1>1 DEF ReleaseInv, AllowsWereGiven, Whole
<1>3. CASE ValidCandidate(file) /\ step' = "evaluate" /\ candidate' = file /\ wanted' = output
           /\ exit' = Nothing
  <2>1. file \in Candidates
    BY <1>3 DEF ValidCandidate
  <2>2. QED
    BY <1>1, <1>2, <1>3, <2>1 DEF ReleaseInv, CallInv, FilesInv, Pair, Whole
<1>4. CASE Exit(1)
  BY <1>1, <1>2, <1>4 DEF Exit, ReleaseInv, CallInv, FilesInv, Pair, Whole
<1>5. QED
  BY <1>3, <1>4 DEF Load

\* The policy is asked.
LEMMA EvaluateInv ==
  ASSUME ReleaseInv, Evaluate
  PROVE  ReleaseInv'
<1>1. AllowsWereGiven'
  BY DEF Evaluate, ReleaseInv, AllowsWereGiven, Whole
<1>2. CallInv'
  BY DEF Evaluate, ReleaseInv, CallInv
<1>3. FilesInv'
  BY DEF Evaluate, ReleaseInv, CallInv, FilesInv, Pair, Whole
<1>4. QED
  BY <1>1, <1>2, <1>3 DEF ReleaseInv

\* The two files are written, and belong together afterwards.
LEMMA WriteInv ==
  ASSUME ReleaseInv, WriteBundle \/ WriteDecision
  PROVE  ReleaseInv'
<1>1. CASE WriteBundle
  <2>1. AllowsWereGiven'
    BY <1>1 DEF WriteBundle, ReleaseInv, AllowsWereGiven, Whole
  <2>2. QED
    BY <1>1, <2>1 DEF WriteBundle, ReleaseInv, CallInv, FilesInv
<1>2. CASE WriteDecision
  <2>1. /\ candidate \in Candidates /\ result \in PolicyResults(candidate)
        /\ bundleFile = Bundle(candidate)
    BY <1>2 DEF WriteDecision, ReleaseInv, CallInv, FilesInv
  <2>2. decisionFile' = Decided /\ UNCHANGED <<candidate, result, bundleFile, wanted, exit>>
        /\ step' = "exit"
    BY <1>2 DEF WriteDecision, Decided
  <2>3. Decided.decision = result.decision /\ Decided.input_digest = deployment_input(candidate)
    BY <2>1, ResultFacts, DecidedFacts DEF Decided
  <2>4. Whole(bundleFile') /\ Whole(decisionFile')
    BY <2>1, <2>2, ReleaseAssumption DEF Whole, Decided
  <2>5. Pair'
    BY <2>1, <2>2, <2>3, <2>4, BundleFacts DEF Pair
  <2>6. AllowsWereGiven'
    BY <2>1, <2>2, <2>3, ResultFacts DEF AllowsWereGiven
  <2>7. Decided' = Decided
    BY <2>2 DEF Decided
  <2>8. CallInv'
    BY <1>2, <2>1, <2>2 DEF WriteDecision, ReleaseInv, CallInv
  <2>9. FilesInv'
    BY <2>1, <2>2, <2>5, <2>7 DEF FilesInv
  <2>10. QED
    BY <2>6, <2>8, <2>9 DEF ReleaseInv
<1>3. QED
  BY <1>1, <1>2

\* The call ends, or is cut short.
LEMMA EndInv ==
  ASSUME ReleaseInv, Return \/ Cut
  PROVE  ReleaseInv'
<1>1. step' = "idle" /\ wanted' = "none"
  BY DEF Return, Cut, Died, Exit
<1>2. CallInv'
  BY <1>1 DEF CallInv
<1>3. CASE UNCHANGED <<bundleFile, decisionFile>>
  <2>1. AllowsWereGiven'
    BY <1>3 DEF ReleaseInv, AllowsWereGiven, Whole
  <2>2. whole' = "yes" => whole = "yes" /\ step # "decision"
    BY <1>3 DEF Return, Cut
  <2>3. FilesInv'
    BY <1>1, <1>3, <2>2 DEF ReleaseInv, FilesInv, Pair, Whole
  <2>4. QED
    BY <1>2, <2>1, <2>3 DEF ReleaseInv
<1>4. CASE Cut /\ step = "bundle" /\ bundleFile' = Torn /\ UNCHANGED decisionFile
  <2>1. AllowsWereGiven'
    BY <1>4 DEF ReleaseInv, AllowsWereGiven, Whole
  <2>2. whole' # "yes"
    BY <1>4, ReleaseAssumption DEF Cut, ReleaseInv, FilesInv, Pair, Whole
  <2>3. QED
    BY <1>1, <1>2, <2>1, <2>2 DEF ReleaseInv, FilesInv
<1>5. CASE Cut /\ step = "decision" /\ decisionFile' = Torn /\ UNCHANGED bundleFile
  <2>1. AllowsWereGiven'
    BY <1>5 DEF AllowsWereGiven, Whole
  <2>2. whole' # "yes"
    BY <1>5 DEF Cut
  <2>3. QED
    BY <1>1, <1>2, <2>1, <2>2 DEF ReleaseInv, FilesInv
<1>6. QED
  BY <1>3, <1>4, <1>5 DEF Return, Cut

\* Every step keeps the invariant.
LEMMA ReleaseNextInv == ReleaseInv /\ [ReleaseNext]_releaseVars => ReleaseInv'
<1> SUFFICES ASSUME ReleaseInv, [ReleaseNext]_releaseVars PROVE ReleaseInv'
  OBVIOUS
<1>1. CASE UNCHANGED releaseVars
  BY <1>1 DEF releaseVars, ReleaseInv, CallInv, FilesInv, Pair, Decided, AllowsWereGiven, Whole
<1>2. CASE ReleaseNext
  BY <1>2, LoadInv, EvaluateInv, WriteInv, EndInv DEF ReleaseNext
<1>3. QED
  BY <1>1, <1>2

\* The output directory always satisfies the invariant.
THEOREM ReleaseInvariance == ReleaseSpec => []ReleaseInv
  BY ReleaseInitInv, ReleaseNextInv, PTL DEF ReleaseSpec

\* PairsMatch for any candidates and any number of calls, cut short or not.
THEOREM MatchingPairs == ReleaseSpec => []PairsMatch
<1>1. ReleaseInv => PairsMatch
  BY DEF ReleaseInv, FilesInv, Pair, PairsMatch
<1>2. QED
  BY <1>1, ReleaseInvariance, PTL

\* AllowsWereGiven for any candidates, refusals and crashes.
THEOREM GivenAllows == ReleaseSpec => []AllowsWereGiven
  BY ReleaseInvariance, PTL DEF ReleaseInv

\* A call that ends with exit code 0 has a candidate without objections, and
\* has put its documents on disk if it was asked to.
LEMMA ZeroStep ==
  ASSUME ReleaseInv, ReleaseNext, step # "idle", exit' = 0
  PROVE  /\ release_deny_reasons(candidate) = {}
         /\ wanted = "files" => /\ bundleFile' = Bundle(candidate)
                                /\ Whole(decisionFile') /\ decisionFile'.decision = "allow"
<1>1. exit # 0 /\ 1 # 0
  BY ReleaseAssumption DEF ReleaseInv, CallInv
<1>2. Return
  BY <1>1 DEF ReleaseNext, Load, Evaluate, WriteBundle, WriteDecision, Cut, Died, Exit
<1>3. step = "exit" /\ result.decision = "allow" /\ UNCHANGED <<bundleFile, decisionFile>>
  BY <1>1, <1>2 DEF Return, Exit
<1>4. candidate \in Candidates /\ result \in PolicyResults(candidate)
  BY <1>3 DEF ReleaseInv, CallInv
<1>5. release_deny_reasons(candidate) = {}
  BY <1>3, <1>4, ResultFacts, InputSuffices
<1>6. ASSUME wanted = "files"
      PROVE  /\ bundleFile' = Bundle(candidate)
             /\ Whole(decisionFile') /\ decisionFile'.decision = "allow"
  <2>1. bundleFile' = Bundle(candidate) /\ decisionFile' = Decided
    BY <1>3, <1>6 DEF ReleaseInv, FilesInv
  <2>2. Whole(decisionFile')
    BY <1>4, <2>1, ReleaseAssumption DEF Whole, Decided
  <2>3. QED
    BY <1>3, <2>1, <2>2, DecidedFacts DEF Decided
<1>7. QED
  BY <1>5, <1>6

\* ZeroIsBacked for any candidates, answers of the policy service and faults:
\* the deployment goes ahead on nothing that is not on disk and allowed.
THEOREM BackedZero == ReleaseSpec => ZeroIsBacked
<1>1. ReleaseInv /\ [ReleaseNext]_releaseVars =>
        [step # "idle" /\ exit' = 0 =>
           /\ release_deny_reasons(candidate) = {}
           /\ wanted = "files" => /\ bundleFile' = Bundle(candidate)
                                  /\ Whole(decisionFile') /\ decisionFile'.decision = "allow"]_releaseVars
  BY ZeroStep
<1>2. QED
  BY <1>1, ReleaseInvariance, PTL DEF ReleaseSpec, ZeroIsBacked

-----------------------------------------------------------------------------
\* Two sequences one after the other, by position.
LEMMA TwoParts ==
  ASSUME NEW S, NEW T, NEW s \in Seq(S), NEW t \in Seq(T), NEW w, w = s \o t
  PROVE  /\ Len(w) = Len(s) + Len(t) /\ w \in Seq(S \cup T)
         /\ \A i \in 1..Len(s) : w[i] = s[i]
         /\ \A i \in 1..Len(t) : w[Len(s) + i] = t[i]
  OBVIOUS

\* Three sequences one after the other, by position.
LEMMA ConcatPositions ==
  ASSUME NEW R, NEW S, NEW T, NEW r \in Seq(R), NEW s \in Seq(S), NEW t \in Seq(T),
         NEW w, w = (r \o s) \o t
  PROVE  /\ Len(w) = Len(r) + Len(s) + Len(t)
         /\ \A i \in 1..Len(r) : w[i] = r[i]
         /\ \A i \in 1..Len(s) : w[Len(r) + i] = s[i]
         /\ \A i \in 1..Len(t) : w[Len(r) + Len(s) + i] = t[i]
<1> DEFINE q == r \o s
<1>1. q \in Seq(R \cup S)
  OBVIOUS
<1>2. /\ Len(q) = Len(r) + Len(s)
      /\ Len(r) \in Nat /\ Len(s) \in Nat /\ Len(t) \in Nat
      /\ \A i \in 1..Len(r) : q[i] = r[i]
      /\ \A i \in 1..Len(s) : q[Len(r) + i] = s[i]
  OBVIOUS
<1>3. w = q \o t
  OBVIOUS
<1> HIDE DEF q
<1>4. /\ Len(w) = Len(q) + Len(t)
      /\ \A i \in 1..Len(q) : w[i] = q[i]
      /\ \A i \in 1..Len(t) : w[Len(q) + i] = t[i]
  BY <1>1, <1>3, TwoParts
<1>5. \A i \in 1..Len(r) : i \in 1..Len(q)
  BY <1>2
<1>6. \A i \in 1..Len(s) : Len(r) + i \in 1..Len(q)
  BY <1>2
<1>7. QED
  BY <1>2, <1>4, <1>5, <1>6

\* The items of a bundle by position: three of the candidate itself, then the
\* policy decisions, then the approvals.
LEMMA ItemPositions ==
  ASSUME NEW c \in Candidates
  PROVE  LET items == collect_items(c)
             n == Len(c.policy_decisions)
             m == Len(c.approvals)
         IN  /\ n \in Nat /\ m \in Nat /\ Len(items) = 3 + n + m
             /\ items[1] = Item("signature", "candidate", c.signature)
             /\ items[2] = Item("sbom", "candidate", c.sbom)
             /\ items[3] = Item("provenance", "candidate", c.provenance)
             /\ \A i \in 1..n : items[3 + i] = Item("policy-decision",
                                  c.policy_decisions[i].point, c.policy_decisions[i])
             /\ \A i \in 1..m : items[3 + n + i] = Item("approval",
                                  c.approvals[i].role, c.approvals[i])
<1> DEFINE n == Len(c.policy_decisions)
           m == Len(c.approvals)
           own == <<Item("signature", "candidate", c.signature),
                    Item("sbom", "candidate", c.sbom),
                    Item("provenance", "candidate", c.provenance)>>
           decisions == [i \in DOMAIN c.policy_decisions |->
                           Item("policy-decision", c.policy_decisions[i].point,
                                c.policy_decisions[i])]
           approvals == ApprovalItems(c)
<1>1. /\ n \in Nat /\ m \in Nat
      /\ DOMAIN c.policy_decisions = 1..n /\ DOMAIN c.approvals = 1..m
  BY ReleaseAssumption
<1>2. Len(own) = 3 /\ Len(decisions) = n /\ Len(approvals) = m
  BY <1>1 DEF ApprovalItems
<1>3. own \in Seq(Range(own)) /\ decisions \in Seq(Range(decisions))
  BY <1>1 DEF Range
<1>4. approvals \in Seq(Range(approvals))
  BY <1>1 DEF Range, ApprovalItems
<1>5. /\ own[1] = Item("signature", "candidate", c.signature)
      /\ own[2] = Item("sbom", "candidate", c.sbom)
      /\ own[3] = Item("provenance", "candidate", c.provenance)
  OBVIOUS
<1>6. \A i \in 1..n : decisions[i] = Item("policy-decision", c.policy_decisions[i].point,
                                          c.policy_decisions[i])
  BY <1>1
<1>7. \A i \in 1..m : approvals[i] = Item("approval", c.approvals[i].role, c.approvals[i])
  BY <1>1 DEF ApprovalItems
<1>8. collect_items(c) = (own \o decisions) \o approvals
  BY DEF collect_items
<1> DEFINE items == collect_items(c)
<1> HIDE DEF own, decisions, approvals, n, m, items
<1>9. /\ Len(items) = Len(own) + Len(decisions) + Len(approvals)
      /\ \A i \in 1..Len(own) : items[i] = own[i]
      /\ \A i \in 1..Len(decisions) : items[Len(own) + i] = decisions[i]
      /\ \A i \in 1..Len(approvals) : items[Len(own) + Len(decisions) + i] = approvals[i]
  BY <1>3, <1>4, <1>8, ConcatPositions DEF items
<1>10. items[1] = own[1] /\ items[2] = own[2] /\ items[3] = own[3]
  BY <1>2, <1>9
<1>11. /\ Len(items) = 3 + n + m
       /\ \A i \in 1..n : items[3 + i] = decisions[i]
       /\ \A i \in 1..m : items[3 + n + i] = approvals[i]
  BY <1>2, <1>9
<1>12. QED
  BY <1>1, <1>5, <1>6, <1>7, <1>10, <1>11, Zenon DEF items, n, m

\* A list that is n decisions and then m approvals, after its first three
\* items, is no list of k decisions for a greater k: an approval would stand
\* where a decision does.
LEMMA CountsAgree ==
  ASSUME NEW s, NEW n \in Nat, NEW m \in Nat, NEW k \in Nat, NEW l \in Nat,
         3 + n + m = 3 + k + l,
         \A i \in 1..m : s[3 + n + i].kind = "approval",
         \A i \in 1..k : s[3 + i].kind = "policy-decision"
  PROVE  ~(n < k)
<1> SUFFICES ASSUME n < k PROVE FALSE
  OBVIOUS
<1>1. 1 \in 1..m /\ n + 1 \in 1..k /\ 3 + n + 1 = 3 + (n + 1)
  OBVIOUS
<1>2. s[3 + n + 1].kind = "approval" /\ s[3 + (n + 1)].kind = "policy-decision"
  BY <1>1
<1>3. QED
  BY <1>1, <1>2

\* What the kinds and digests of the items tell of the candidate.
Spells(s, c) ==
  LET n == Len(c.policy_decisions)
      m == Len(c.approvals)
  IN  /\ Len(s) = 3 + n + m
      /\ s[1].digest = c.signature /\ s[2].digest = c.sbom /\ s[3].digest = c.provenance
      /\ \A i \in 1..n : s[3 + i].kind = "policy-decision"
      /\ \A i \in 1..n : s[3 + i].digest = c.policy_decisions[i]
      /\ \A i \in 1..m : s[3 + n + i].kind = "approval"
      /\ \A i \in 1..m : s[3 + n + i].digest = c.approvals[i]

LEMMA ItemsSpell ==
  ASSUME NEW c \in Candidates
  PROVE  Spells(collect_items(c), c)
<1> DEFINE items == collect_items(c)
           n == Len(c.policy_decisions)
           m == Len(c.approvals)
<1>1. /\ Len(items) = 3 + n + m
      /\ items[1] = Item("signature", "candidate", c.signature)
      /\ items[2] = Item("sbom", "candidate", c.sbom)
      /\ items[3] = Item("provenance", "candidate", c.provenance)
  BY ItemPositions, Zenon
<1>2. \A i \in 1..n : items[3 + i] =
        Item("policy-decision", c.policy_decisions[i].point, c.policy_decisions[i])
  BY ItemPositions, Zenon
<1>3. \A i \in 1..m : items[3 + n + i] =
        Item("approval", c.approvals[i].role, c.approvals[i])
  BY ItemPositions, Zenon
<1> HIDE DEF items, n, m
<1>4. /\ items[1].digest = c.signature /\ items[2].digest = c.sbom
      /\ items[3].digest = c.provenance
  BY <1>1 DEF Item
<1>5. \A i \in 1..n : /\ items[3 + i].kind = "policy-decision"
                      /\ items[3 + i].digest = c.policy_decisions[i]
  <2> TAKE i \in 1..n
  <2> DEFINE item == items[3 + i]
  <2>1. item = Item("policy-decision", c.policy_decisions[i].point, c.policy_decisions[i])
    BY <1>2, Zenon
  <2> HIDE DEF item
  <2>2. item.kind = "policy-decision" /\ item.digest = c.policy_decisions[i]
    BY <2>1 DEF Item
  <2>3. QED
    BY <2>2 DEF item
<1>6. \A i \in 1..m : /\ items[3 + n + i].kind = "approval"
                      /\ items[3 + n + i].digest = c.approvals[i]
  <2> TAKE i \in 1..m
  <2> DEFINE item == items[3 + n + i]
  <2>1. item = Item("approval", c.approvals[i].role, c.approvals[i])
    BY <1>3, Zenon
  <2> HIDE DEF item
  <2>2. item.kind = "approval" /\ item.digest = c.approvals[i]
    BY <2>1 DEF Item
  <2>3. QED
    BY <2>2 DEF item
<1>7. QED
  BY <1>1, <1>4, <1>5, <1>6, Zenon DEF Spells, items, n, m

\* Candidates with the same items agree in everything the items are made of.
LEMMA SameItems ==
  ASSUME NEW c \in Candidates, NEW d \in Candidates, collect_items(c) = collect_items(d)
  PROVE  /\ c.signature = d.signature /\ c.sbom = d.sbom /\ c.provenance = d.provenance
         /\ Range(c.policy_decisions) = Range(d.policy_decisions)
         /\ Range(c.approvals) = Range(d.approvals)
<1> DEFINE s == collect_items(c)
<1>1. Spells(s, c) /\ Spells(s, d)
  BY ItemsSpell, Zenon
<1> DEFINE n == Len(c.policy_decisions)
           m == Len(c.approvals)
           k == Len(d.policy_decisions)
           l == Len(d.approvals)
<1>2. /\ n \in Nat /\ DOMAIN c.policy_decisions = 1..n
      /\ m \in Nat /\ DOMAIN c.approvals = 1..m
  BY ReleaseAssumption
<1>3. /\ k \in Nat /\ DOMAIN d.policy_decisions = 1..k
      /\ l \in Nat /\ DOMAIN d.approvals = 1..l
  BY ReleaseAssumption
<1> HIDE DEF s
<1>4. c.signature = d.signature /\ c.sbom = d.sbom /\ c.provenance = d.provenance
  BY <1>1, Zenon DEF Spells
<1>5. 3 + n + m = 3 + k + l
  BY <1>1, Zenon DEF Spells
<1>6. /\ \A i \in 1..n : s[3 + i].kind = "policy-decision"
      /\ \A i \in 1..m : s[3 + n + i].kind = "approval"
  BY <1>1, Zenon DEF Spells
<1>7. /\ \A i \in 1..k : s[3 + i].kind = "policy-decision"
      /\ \A i \in 1..l : s[3 + k + i].kind = "approval"
  BY <1>1, Zenon DEF Spells
<1>8. \A i \in 1..n : s[3 + i].digest = c.policy_decisions[i]
  BY <1>1, Zenon DEF Spells
<1>9. \A i \in 1..m : s[3 + n + i].digest = c.approvals[i]
  BY <1>1, Zenon DEF Spells
<1>10. \A i \in 1..k : s[3 + i].digest = d.policy_decisions[i]
  BY <1>1, Zenon DEF Spells
<1>11. \A i \in 1..l : s[3 + k + i].digest = d.approvals[i]
  BY <1>1, Zenon DEF Spells
<1> HIDE DEF n, m, k, l
<1>12. ~(n < k)
  BY <1>2, <1>3, <1>5, <1>6, <1>7, CountsAgree, Zenon
<1>13. 3 + k + l = 3 + n + m
  BY <1>5
<1>14. ~(k < n)
  BY <1>2, <1>3, <1>13, <1>6, <1>7, CountsAgree, Zenon
<1>15. k = n /\ l = m
  BY <1>2, <1>3, <1>5, <1>12, <1>14
<1>16. \A i \in 1..n : c.policy_decisions[i] = d.policy_decisions[i]
  BY <1>8, <1>10, <1>15, Zenon
<1>17. \A i \in 1..m : c.approvals[i] = d.approvals[i]
  BY <1>9, <1>11, <1>15, Zenon
<1>18. Range(c.policy_decisions) = Range(d.policy_decisions)
  BY <1>2, <1>3, <1>15, <1>16, Zenon DEF Range
<1>19. Range(c.approvals) = Range(d.approvals)
  BY <1>2, <1>3, <1>15, <1>17, Zenon DEF Range
<1>20. QED
  BY <1>4, <1>18, <1>19

\* A bundle on disk is that of a candidate.
BundleInv == Whole(bundleFile) => \E c \in Candidates : bundleFile = Bundle(c)

\* ItemsDecide for any candidates and calls: two candidates whose bundles look
\* alike get the same verdict, for whatever lists of decisions and approvals.
THEOREM ItemsSuffice == ReleaseSpec => []ItemsDecide
<1>1. ReleaseInit => BundleInv
  BY DEF ReleaseInit, BundleInv, Whole
<1>2. ReleaseInv /\ BundleInv /\ [ReleaseNext]_releaseVars => BundleInv'
  <2> SUFFICES ASSUME ReleaseInv, BundleInv, [ReleaseNext]_releaseVars PROVE BundleInv'
    OBVIOUS
  <2>1. CASE WriteBundle
    BY <2>1 DEF WriteBundle, ReleaseInv, CallInv, BundleInv
  <2>2. CASE bundleFile' \in {bundleFile, Torn}
    BY <2>2 DEF BundleInv, Whole
  <2>3. QED
    BY <2>1, <2>2 DEF ReleaseNext, Load, Evaluate, WriteDecision, Return, Cut, releaseVars
<1>3. BundleInv => ItemsDecide
  <2> SUFFICES ASSUME BundleInv, Whole(bundleFile), NEW c \in Candidates,
                      c.image = bundleFile.image, collect_items(c) = bundleFile.items,
                      c.required_approver_role
                        = bundleFile.candidate_digest.required_approver_role
               PROVE  release_deny_reasons(c) = release_deny_reasons(bundleFile.candidate_digest)
    BY DEF ItemsDecide
  <2>1. PICK d \in Candidates : bundleFile = Bundle(d)
    BY DEF BundleInv
  <2>2. bundleFile.image = d.image /\ bundleFile.items = collect_items(d)
        /\ bundleFile.candidate_digest = d
    BY <2>1 DEF Bundle
  <2>3. /\ c.signature = d.signature /\ c.sbom = d.sbom /\ c.provenance = d.provenance
        /\ Range(c.policy_decisions) = Range(d.policy_decisions)
        /\ Range(c.approvals) = Range(d.approvals)
    BY <2>2, SameItems
  <2>4. QED
    BY <2>2, <2>3 DEF release_deny_reasons, point_allowed, approval_present
<1>4. QED
  BY <1>1, <1>2, <1>3, ReleaseInvariance, PTL DEF ReleaseSpec
=============================================================================
