----------------------------- MODULE SdlcPipeline -----------------------------
(***************************************************************************)
(* The agent pipeline of pipeline/orchestrator.py: an idea becomes a       *)
(* specification, a threat model, a plan, a task, a security review and a  *)
(* review.  Every stage runs a role skill (skills/) and persists its       *)
(* artifact through the write_artifact tool; the first stage that is       *)
(* denied or invalid ends the run where it is.  A run may be tried again   *)
(* on the same Pipeline object or on a new one over the same artifact      *)
(* store.  At the end traceability.py audits the chain.                    *)
(***************************************************************************)
EXTENDS Naturals, Sequences, FiniteSets

CONSTANTS
  Features,  \* feature ids pipelines are created for
  IdeaIds,   \* ids of the ideas that are handed in
  RiskSets,  \* the risks a threat model may list
  NoDoc,     \* no draft is at hand
  Torn,      \* an artifact file cut short by a failed write
  MaxRuns    \* bound: calls of Pipeline.run

VARIABLES
  feature,   \* Pipeline._feature_id
  counters,  \* Pipeline._counters
  written,   \* Pipeline._written: id -> document
  store,     \* ArtifactStore: id -> document or Torn
  made,      \* the documents of the current run by kind, run()'s locals
  stage,     \* index of the stage that runs; Len(Stages) + 1 when all are done
  draft,     \* the document to persist
  status,    \* "new", "running", "failed" or "returned"
  runNo      \* runs so far

vars == <<feature, counters, written, store, made, stage, draft, status, runNo>>

Stages == <<"idea", "specification", "threat-model", "plan", "task",
            "security-review", "review">>
Kinds == {Stages[i] : i \in 1..Len(Stages)}
CHAIN_ORDER == Kinds

ASSUME PipelineAssumption ==
  /\ Features # {} /\ IdeaIds # {}
  /\ \A rs \in RiskSets : rs # {}     \* threat-model.schema.json: minItems
  /\ MaxRuns \in Nat

\* Ideas are handed in under ids of their own prefix.  The schema's pattern
\* would take any; one that reads SPEC-0001 is overwritten by the specification.
ASSUME IdeaAssumption == IdeaIds \subseteq {"idea"} \X Nat

\* An artifact id is its kind and its number.
NoId == <<>>
Kind == Stages[stage]

\* What each role skill requires in its context.
context_keys(k) ==
  CASE k = "specification" -> {"idea"}
    [] k = "threat-model"  -> {"specification"}
    [] k = "plan"          -> {"specification", "threat-model"}
    [] k = "task"          -> {"specification", "plan"}
    [] k = "review"        -> {"task"}

\* What run() passes to it.
Inputs(k) ==
  CASE k = "specification" -> {"idea"}
    [] k = "threat-model"  -> {"specification"}
    [] k = "plan"          -> {"specification", "threat-model"}
    [] k = "task"          -> {"specification", "plan"}
    [] k = "review"        -> {"task"}

\* The artifact a document of kind k is linked to.
Links(k) ==
  CASE k = "idea"                      -> {}
    [] k = "specification"             -> {made["idea"].id}
    [] k = "threat-model"              -> {made["specification"].id}
    [] k \in {"plan", "security-review"} -> {made["threat-model"].id}
    [] k = "task"                      -> {made["plan"].id}
    [] k = "review"                    -> {made["task"].id}

\* Ideas and reviews carry no feature_id.
FeatureOf(k) == IF k \in {"idea", "review"} THEN "" ELSE feature

\* build_security_review: the disposition of one risk and the verdict.
Disposition(risk) ==
  IF risk.severity \in {"critical", "high"}
  THEN IF risk.verified THEN "mitigated" ELSE "open_blocking"
  ELSE IF risk.severity = "medium"
  THEN IF risk.waiver THEN "waived_medium" ELSE "open_blocking"
  ELSE "accepted_low"

\* Mutant of Verdict: the last risk decides.
VerdictOfSome(risks) ==
  IF \A r \in risks : Disposition(r) = "open_blocking" THEN "changes_requested" ELSE "approved"

Verdict(risks) ==
  IF \E r \in risks : Disposition(r) = "open_blocking" THEN "changes_requested" ELSE "approved"

Doc(k, id, content) ==
  [id |-> id, kind |-> k, feature |-> FeatureOf(k), created |-> runNo, links |-> {},
   content |-> content]

\* Mutant of WithLinks: a specification stays as the skill assembled it.
WithSomeLinks(d, hrefs) ==
  IF d.kind = "specification" THEN d ELSE [d EXCEPT !.links = @ \cup hrefs]

WithLinks(d, hrefs) == [d EXCEPT !.links = @ \cup hrefs]

-----------------------------------------------------------------------------
\* traceability.py over an index of documents: the artifacts of a feature and
\* everything linked from or to them, the kinds that are missing, and the
\* links that lead nowhere.
Neighbours(index, ids) ==
  {i \in DOMAIN index : \E j \in ids : i \in index[j].links \/ j \in index[i].links}

Selected(index, f) ==
  LET grow[n \in 0..Cardinality(DOMAIN index)] ==
        IF n = 0 THEN {i \in DOMAIN index : index[i].feature = f}
        ELSE LET found == grow[n - 1] IN found \cup Neighbours(index, found)
  IN  grow[Cardinality(DOMAIN index)]

Dangling(index, f) ==
  (UNION {index[i].links : i \in Selected(index, f)}) \ DOMAIN index

TraceComplete(index, f) ==
  /\ CHAIN_ORDER \subseteq {index[i].kind : i \in Selected(index, f)}
  /\ Dangling(index, f) = {}

-----------------------------------------------------------------------------
Init ==
  /\ feature  \in Features
  /\ counters = [k \in Kinds |-> 0]
  /\ written  = <<>>
  /\ store    = <<>>
  /\ made     = <<>>
  /\ stage    = 1
  /\ draft    = NoDoc
  /\ status   = "new"
  /\ runNo    = 0

\* run() is called with an idea; an idea without an id is numbered but stays
\* a document without one.
Run(id) ==
  /\ status # "running"
  /\ runNo < MaxRuns
  /\ runNo'   = runNo + 1
  /\ counters' = IF id = NoId THEN [counters EXCEPT !["idea"] = @ + 1] ELSE counters
  /\ draft'   = [id |-> id, kind |-> "idea", feature |-> "", created |-> runNo + 1,
                 links |-> {}, content |-> {}]
  /\ made'    = <<>>
  /\ stage'   = 1
  /\ status'  = "running"
  /\ UNCHANGED <<feature, written, store>>

\* A new Pipeline object over the same store.
NewPipeline(f) ==
  /\ status \in {"failed", "returned"}
  /\ runNo < MaxRuns
  /\ feature'  = f
  /\ counters' = [k \in Kinds |-> 0]
  /\ written'  = <<>>
  /\ made'     = <<>>
  /\ stage'    = 1
  /\ status'   = "new"
  /\ UNCHANGED <<store, draft, runNo>>

NextId(k) == <<k, counters[k] + 1>>

\* The run is over: an exception leaves run().
Raise ==
  /\ status' = "failed"
  /\ draft'  = NoDoc

\* SkillRunner.run refuses, or the model's text is no object or breaks the
\* schema; a number has been taken.
SkillFails ==
  /\ status = "running" /\ stage <= Len(Stages) /\ draft = NoDoc
  /\ Kind # "security-review"
  /\ counters' = [counters EXCEPT ![Kind] = @ + 1]
  /\ Raise
  /\ UNCHANGED <<feature, written, store, made, stage, runNo>>

\* The contents a skill can produce for a kind.  The digest of the task is
\* taken from the document as it was persisted.
Contents(k) ==
  CASE k = "threat-model" -> {[risks |-> rs] : rs \in RiskSets}
    [] k = "review"       -> {[task_id |-> made["task"].id, subject_digest |-> made["task"]]}
    [] OTHER              -> {{}}

\* A role skill ends well: its content is assembled under the platform's
\* envelope, and the links are added.
SkillSucceeds ==
  /\ status = "running" /\ stage <= Len(Stages) /\ draft = NoDoc
  /\ Kind # "security-review"
  /\ context_keys(Kind) \subseteq Inputs(Kind)
  /\ counters' = [counters EXCEPT ![Kind] = @ + 1]
  /\ \E c \in Contents(Kind) :
       draft' = WithLinks(Doc(Kind, NextId(Kind), c), Links(Kind))
  /\ UNCHANGED <<feature, written, store, made, stage, status, runNo>>

\* The platform compiles the security review from the threat model.
BuildSecurityReview ==
  /\ status = "running" /\ stage <= Len(Stages) /\ draft = NoDoc
  /\ Kind = "security-review"
  /\ counters' = [counters EXCEPT ![Kind] = @ + 1]
  /\ draft' = WithLinks(
                Doc(Kind, NextId(Kind),
                    [threat_model_id |-> made["threat-model"].id,
                     verdict |-> Verdict(made["threat-model"].content.risks)]),
                Links(Kind))
  /\ UNCHANGED <<feature, written, store, made, stage, status, runNo>>

Put(f, k, v) == [x \in DOMAIN f \cup {k} |-> IF x = k THEN v ELSE f[x]]

\* Mutants of Stored: the store keeps the first artifact of an id, or does not
\* take ideas.
StoredOnce(d) == IF d.id \in DOMAIN store THEN store ELSE Put(store, d.id, d)
StoredUnlessIdea(d) == IF d.kind = "idea" THEN store ELSE Put(store, d.id, d)

\* The store with d in it, in the place of what lay under its id.
Stored(d) == Put(store, d.id, d)

\* _persist: the document is valid and write_artifact stores it.
Persist ==
  /\ status = "running" /\ draft # NoDoc /\ draft.id # NoId
  /\ store'   = Stored(draft)
  /\ written' = Put(written, draft.id, draft)
  /\ made'    = Put(made, draft.kind, draft)
  /\ stage'   = stage + 1
  /\ draft'   = NoDoc
  /\ UNCHANGED <<feature, counters, status, runNo>>

\* The document is invalid (an idea without an id always is), the tool is
\* denied, or it fails: before the write, in the middle of it, or after it,
\* when the evidence cannot be recorded.
PersistFails ==
  /\ status = "running" /\ draft # NoDoc
  /\ \/ UNCHANGED store
     \/ draft.id # NoId /\ store' = Put(store, draft.id, Torn)
     \/ draft.id # NoId /\ store' = Stored(draft)
  /\ Raise
  /\ UNCHANGED <<feature, counters, written, made, stage, runNo>>

\* All stages are done: the chain is traced and the result returned.
Return ==
  /\ status = "running" /\ stage > Len(Stages)
  /\ status' = "returned"
  /\ UNCHANGED <<feature, counters, written, store, made, stage, draft, runNo>>

Progress == SkillSucceeds \/ SkillFails \/ BuildSecurityReview \/ Persist \/ PersistFails \/ Return

Next ==
  \/ \E id \in IdeaIds \cup {NoId} : Run(id)
  \/ \E f \in Features : NewPipeline(f)
  \/ Progress

Spec == Init /\ [][Next]_vars

-----------------------------------------------------------------------------
Readable(i) == store[i] # Torn

\* No link in the store leads nowhere, at any moment of any sequence of runs,
\* failed, repeated or for another feature: an artifact is persisted after
\* what it links to (run() persists stage by stage).
LinksResolve ==
  \A i \in DOMAIN store : Readable(i) => store[i].links \subseteq DOMAIN store

\* What run() returns is what the store holds, although a new Pipeline hands
\* out the same numbers again; the review's digest is that of the task in the
\* store, links included.
ResultIsStored ==
  status = "returned" =>
    /\ \A k \in Kinds : store[made[k].id] = made[k]
    /\ LET review == made["review"].content
       IN  store[review.task_id] = review.subject_digest

\* A run that returns has a complete trace of all seven kinds without
\* dangling links, whatever earlier runs left behind (test_pipeline.py); so
\* has the store, when no file in it was cut short.
ChainIsTraceable ==
  status = "returned" =>
    /\ TraceComplete(written, feature)
    /\ (\A i \in DOMAIN store : Readable(i)) => TraceComplete(store, feature)

\* An approving security review in the store has no blocking risk in the
\* threat model of its run: no high risk without a test, no medium risk
\* without a waiver (build_security_review).
VerdictMatchesThreats ==
  \A i \in DOMAIN store :
    Readable(i) /\ store[i].kind = "security-review" /\ store[i].content.verdict = "approved"
      => LET t == store[i].content.threat_model_id
         IN  Readable(t) /\ store[t].created = store[i].created =>
               \A risk \in store[t].content.risks :
                 /\ risk.severity \in {"critical", "high"} => risk.verified
                 /\ risk.severity = "medium" => risk.waiver

=============================================================================
