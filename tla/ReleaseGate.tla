----------------------------- MODULE ReleaseGate -----------------------------
(***************************************************************************)
(* sdlc deploy-verify: a release candidate is read and validated, reduced  *)
(* to an evidence bundle, put to policies/pre_deployment.rego, and the     *)
(* bundle and the decision are written to two files of an output directory *)
(* that earlier calls may have left their documents in.  A call can be     *)
(* killed, or fail to write, at any point.                                 *)
(*                                                                         *)
(* A SHA-256 digest of a document is the document.  The ids by which the   *)
(* two documents name each other are the same in every call (their         *)
(* defaults), so they tell no call from another and are left out.          *)
(***************************************************************************)
EXTENDS Naturals, Sequences, Functions

CONSTANTS
  Candidates,  \* the JSON objects a candidate file may hold
  NotACandidate, \* a file that is missing, not JSON or not an object
  Nothing,     \* no file, no result
  Torn,        \* a file truncated or written in part
  MaxFaults    \* bound: calls cut short

VARIABLES
  step,        \* where the running call is, or "idle"
  candidate,   \* what it has loaded
  wanted,      \* "files" if --output-dir was given, else "none"
  result,      \* what PolicyClient.evaluate returned
  bundleFile, decisionFile, \* the two files of the output directory
  exit,        \* how the last call ended
  whole,       \* "yes" unless a call was cut short in or between its writes and
               \* none has written both files since
  faults       \* counts calls cut short

releaseVars == <<step, candidate, wanted, result, bundleFile, decisionFile, exit, whole, faults>>

\* release-candidate.schema.json, as far as the policy looks at it: all fields
\* are there and have their types in Candidates, the image may be empty.
ValidCandidate(c) == c # NotACandidate /\ c.image # ""

-----------------------------------------------------------------------------
\* deploy_verify/bundle.py
Item(kind, ref, value) == [kind |-> kind, ref |-> ref, digest |-> value]

\* Mutant of ApprovalItems: approvals that cannot count are not listed.
HumanApprovalItems(c) ==
  [i \in 1..Len(SelectSeq(c.approvals, LAMBDA a : a.type = "human")) |->
     LET a == SelectSeq(c.approvals, LAMBDA b : b.type = "human")[i]
     IN  Item("approval", a.role, a)]

ApprovalItems(c) ==
  [i \in DOMAIN c.approvals |-> Item("approval", c.approvals[i].role, c.approvals[i])]

collect_items(c) ==
  <<Item("signature", "candidate", c.signature), Item("sbom", "candidate", c.sbom),
    Item("provenance", "candidate", c.provenance)>>
  \o [i \in DOMAIN c.policy_decisions |->
        Item("policy-decision", c.policy_decisions[i].point, c.policy_decisions[i])]
  \o ApprovalItems(c)

Bundle(c) == [image |-> c.image, candidate_digest |-> c, items |-> collect_items(c)]

-----------------------------------------------------------------------------
\* policies/pre_deployment.rego
required_points == {"artifact-transition", "pr-ci"}

point_allowed(c, point) ==
  \E d \in Range(c.policy_decisions) : d.point = point /\ d.decision = "allow"

approval_present(c) ==
  \E a \in Range(c.approvals) : a.role = c.required_approver_role /\ a.type = "human"

release_deny_reasons(c) ==
  {r \in {"MISSING_IMAGE"} : c.image = ""}
  \cup {r \in {"MISSING_SIGNATURE"} : ~c.signature.verified}
  \cup {r \in {"MISSING_SBOM"} : ~c.sbom.present}
  \cup {r \in {"MISSING_PROVENANCE"} : ~c.provenance.verified}
  \cup {r \in {"MISSING_POLICY_DECISION"} : \E p \in required_points : ~point_allowed(c, p)}
  \cup {r \in {"MISSING_APPROVAL"} : ~approval_present(c)}
  \cup {r \in {"AGENT_MAY_NOT_APPROVE"} : \E a \in Range(c.approvals) : a.type = "agent"}

\* What the policy is asked: the fields build_deployment_input takes over.
deployment_input(c) ==
  [f \in {"image", "signature", "sbom", "provenance", "policy_decisions",
          "required_approver_role", "approvals"} |-> c[f]]

FailClosed(reason, c) ==
  [decision |-> "deny", reason_codes |-> {reason}, input_digest |-> deployment_input(c)]

PolicyAnswer(c) ==
  LET reasons == release_deny_reasons(deployment_input(c))
  IN  [decision |-> IF reasons = {} THEN "allow" ELSE "deny",
       reason_codes |-> IF reasons = {} THEN {"ALLOWED"} ELSE reasons,
       input_digest |-> deployment_input(c)]

\* What PolicyClient.evaluate can return.
PolicyResults(c) ==
  {PolicyAnswer(c)}
  \cup {FailClosed(r, c) : r \in {"POLICY_UNAVAILABLE", "POLICY_MALFORMED"}}

\* Mutant of build_policy_decision: what is no reason of the policy is no denial.
DecisionByCodes(r, point) ==
  [point |-> point, reason_codes |-> r.reason_codes, input_digest |-> r.input_digest,
   decision |-> IF r.reason_codes \subseteq {"POLICY_UNAVAILABLE", "POLICY_MALFORMED"}
                THEN "allow" ELSE r.decision]

build_policy_decision(r, point) ==
  [point |-> point, decision |-> r.decision, reason_codes |-> r.reason_codes,
   input_digest |-> r.input_digest]

\* Documents are no absent or truncated files; the two lists of a candidate
\* are lists (release-candidate.schema.json: arrays).
ASSUME ReleaseAssumption ==
  /\ Nothing \notin {0, Torn}
  /\ \A c \in Candidates :
       /\ c.policy_decisions \in Seq(Range(c.policy_decisions))
       /\ c.approvals \in Seq(Range(c.approvals))
       /\ Bundle(c) \notin {Nothing, Torn}
       /\ \A r \in PolicyResults(c) :
            build_policy_decision(r, "pre-deployment") \notin {Nothing, Torn}

-----------------------------------------------------------------------------
ReleaseInit ==
  /\ step = "idle" /\ exit = Nothing
  /\ candidate = Nothing /\ wanted = "none" /\ result = Nothing
  /\ bundleFile = Nothing /\ decisionFile = Nothing
  /\ whole = "yes" /\ faults = 0

\* The call is over and leaves nothing but its exit code.
Exit(code) ==
  /\ step' = "idle" /\ exit' = code
  /\ candidate' = Nothing /\ wanted' = "none" /\ result' = Nothing

\* load_candidate.
Load(file, output) ==
  /\ step = "idle"
  /\ \/ /\ ValidCandidate(file)
        /\ step' = "evaluate" /\ candidate' = file /\ wanted' = output
        /\ exit' = Nothing /\ UNCHANGED result
     \/ ~ValidCandidate(file) /\ Exit(1)
  /\ UNCHANGED <<bundleFile, decisionFile, whole, faults>>

\* verify_release; the bundle it returns is Bundle(candidate).
Evaluate ==
  /\ step = "evaluate"
  /\ result' \in PolicyResults(candidate)
  /\ step' = IF wanted = "files" THEN "bundle" ELSE "exit"
  /\ UNCHANGED <<candidate, wanted, bundleFile, decisionFile, exit, whole, faults>>

WriteBundle ==
  /\ step = "bundle"
  /\ bundleFile' = Bundle(candidate)
  /\ step' = "decision"
  /\ UNCHANGED <<candidate, wanted, result, decisionFile, exit, whole, faults>>

\* Mutant of WriteDecision: a denial is not worth a document.
WriteAllowOnly ==
  /\ step = "decision"
  /\ decisionFile' = IF result.decision = "allow"
                     THEN build_policy_decision(result, "pre-deployment") ELSE decisionFile
  /\ step' = "exit" /\ whole' = "yes"
  /\ UNCHANGED <<candidate, wanted, result, bundleFile, exit, faults>>

WriteDecision ==
  /\ step = "decision"
  /\ decisionFile' = build_policy_decision(result, "pre-deployment")
  /\ step' = "exit" /\ whole' = "yes"
  /\ UNCHANGED <<candidate, wanted, result, bundleFile, exit, faults>>

Return ==
  /\ step = "exit"
  /\ Exit(IF result.decision = "allow" THEN 0 ELSE 1)
  /\ UNCHANGED <<bundleFile, decisionFile, whole, faults>>

\* Mutant of Died: a write that fails is passed over.
DiedUnnoticed ==
  Exit(IF result # Nothing /\ result.decision = "allow" THEN 0 ELSE 1)

Died == Exit(1)

\* The process is killed, or making the directory or writing a file raises:
\* the file being written has its old contents, or is empty or cut.
Cut ==
  /\ step # "idle" /\ faults < MaxFaults
  /\ \/ UNCHANGED <<bundleFile, decisionFile>>
     \/ step = "bundle" /\ bundleFile' = Torn /\ UNCHANGED decisionFile
     \/ step = "decision" /\ decisionFile' = Torn /\ UNCHANGED bundleFile
  /\ Died
  /\ whole' = IF step = "decision" \/ bundleFile' # bundleFile THEN "no" ELSE whole
  /\ faults' = faults + 1

ReleaseNext ==
  \/ \E file \in Candidates \cup {NotACandidate}, output \in {"files", "none"} : Load(file, output)
  \/ Evaluate \/ WriteBundle \/ WriteDecision \/ Return \/ Cut

ReleaseSpec == ReleaseInit /\ [][ReleaseNext]_releaseVars

-----------------------------------------------------------------------------
Whole(file) == file \notin {Nothing, Torn}

\* Exit code 0, on which the deployment goes ahead, means that the policy
\* allowed the candidate that was read, whatever the policy service did, and
\* that the documents asked for are both on disk and say so.
ZeroIsBacked ==
  [][step # "idle" /\ exit' = 0 =>
       /\ release_deny_reasons(candidate) = {}
       /\ wanted = "files" => /\ bundleFile' = Bundle(candidate)
                              /\ Whole(decisionFile') /\ decisionFile'.decision = "allow"]_releaseVars

\* An allow found on disk is one the policy really gave for the input whose
\* digest the decision carries, after whatever crashes and refusals.
AllowsWereGiven ==
  Whole(decisionFile) /\ decisionFile.decision = "allow" =>
    release_deny_reasons(decisionFile.input_digest) = {}

\* Between calls the two files belong together, whatever the candidates and
\* the verdicts were, unless a call was cut short while writing them; the
\* next one that finishes puts that right.
PairsMatch ==
  (step = "idle" /\ whole = "yes") =>
    \/ bundleFile = Nothing /\ decisionFile = Nothing
    \/ /\ Whole(bundleFile) /\ Whole(decisionFile)
       /\ decisionFile.input_digest = deployment_input(bundleFile.candidate_digest)

\* Image, items and required role of a bundle decide what the policy says:
\* collect_items drops nothing that a verdict depends on.
ItemsDecide ==
  Whole(bundleFile) =>
    \A c \in Candidates :
      /\ c.image = bundleFile.image /\ collect_items(c) = bundleFile.items
      /\ c.required_approver_role = bundleFile.candidate_digest.required_approver_role
      => release_deny_reasons(c) = release_deny_reasons(bundleFile.candidate_digest)
=============================================================================
