----------------------------- MODULE MCGovernance -----------------------------
(***************************************************************************)
(* Governance and ReleaseGate on small instances: waivers written properly *)
(* and with each of the faults validate_waiver looks for, and candidates   *)
(* that differ from an acceptable one in one thing each.                   *)
(***************************************************************************)
EXTENDS Governance, ReleaseGate

\* The two gates share no state: each is explored with the other at rest.
MCInit == Init /\ ReleaseInit
MCNext ==
  \/ ReleaseInit /\ Next /\ UNCHANGED releaseVars
  \/ Init /\ ReleaseNext /\ UNCHANGED vars
MCSpec == MCInit /\ [][MCNext]_<<vars, releaseVars>>

MCArtifactType == [TASK |-> "task", REVIEW |-> "review"]
MCPlanType == [PLAN |-> "plan"]

Reviewer == [type |-> "human", role |-> "security-reviewer"]
Author(creator, approver, owner) ==
  [created_by |-> creator, approved_by |-> approver, owner |-> owner]

MCAuthors ==
  {Author("human", Reviewer, "developer"),
   Author("agent", Reviewer, "developer"),
   Author("human", [type |-> "human", role |-> "developer"], "developer"),
   Author("human", [type |-> "agent", role |-> "security-reviewer"], "developer"),
   Author("human", Reviewer, "security-reviewer")}

Decision(point, verdict) == [point |-> point, decision |-> verdict]
Approval(type, role) == [type |-> type, role |-> role]

Acceptable ==
  [image |-> "image", signature |-> [verified |-> TRUE], sbom |-> [present |-> TRUE],
   provenance |-> [verified |-> TRUE],
   policy_decisions |-> <<Decision("artifact-transition", "allow"), Decision("pr-ci", "allow")>>,
   required_approver_role |-> "release-approver",
   approvals |-> <<Approval("human", "release-approver")>>]

MCCandidates ==
  {Acceptable,
   [Acceptable EXCEPT !.image = ""],
   [Acceptable EXCEPT !.signature.verified = FALSE],
   [Acceptable EXCEPT !.sbom.present = FALSE],
   [Acceptable EXCEPT !.provenance.verified = FALSE],
   [Acceptable EXCEPT !.policy_decisions[2].decision = "deny"],
   [Acceptable EXCEPT !.policy_decisions = <<Decision("pr-ci", "deny")>> \o @],
   [Acceptable EXCEPT !.required_approver_role = "security-reviewer"],
   [Acceptable EXCEPT !.approvals[1].type = "ci"],
   [Acceptable EXCEPT !.approvals = Append(@, Approval("agent", "reviewer"))]}
=============================================================================
