-------------------------- MODULE SdlcPipelineProofs --------------------------
(***************************************************************************)
(* The agent pipeline for any features, ideas and threat models and any    *)
(* number of runs, each of which may fail at any stage.                    *)
(***************************************************************************)
EXTENDS SdlcPipeline, FiniteSetTheorems, WellFoundedInduction, TLAPS

\* The time the provers get for a step, whatever the machine.
USE SMTT(20), ZenonT(20)

\* Where a run is: the stages before the current one have their documents,
\* and a draft is of the current stage.
RunInv ==
  /\ stage \in 1..8
  /\ status \in {"new", "running", "failed", "returned"}
  /\ status \in {"running", "returned"} =>
       \A i \in 1..7 : i < stage => Stages[i] \in DOMAIN made
  /\ status = "returned" => stage = 8
  /\ status # "running" => draft = NoDoc
  /\ draft # NoDoc => stage \in 1..7 /\ draft.kind = Stages[stage]
  /\ counters \in [Kinds -> Nat]

\* Whatever may be linked to lies in the store.
LinkInv ==
  /\ \A k \in DOMAIN made : made[k].id \in DOMAIN store
  /\ draft # NoDoc => draft.links \subseteq DOMAIN store
  /\ LinksResolve

\* The inductive invariant for links.
IInv == RunInv /\ LinkInv

-----------------------------------------------------------------------------
\* The stages by number.
LEMMA StageFacts ==
  /\ Len(Stages) = 7
  /\ Stages[1] = "idea" /\ Stages[2] = "specification" /\ Stages[3] = "threat-model"
  /\ Stages[4] = "plan" /\ Stages[5] = "task" /\ Stages[6] = "security-review"
  /\ Stages[7] = "review"
  /\ Kinds = {"idea", "specification", "threat-model", "plan", "task", "security-review", "review"}
<1>1. /\ Len(Stages) = 7
      /\ Stages[1] = "idea" /\ Stages[2] = "specification" /\ Stages[3] = "threat-model"
      /\ Stages[4] = "plan" /\ Stages[5] = "task" /\ Stages[6] = "security-review"
      /\ Stages[7] = "review"
  BY Zenon DEF Stages
<1>2. 1..7 = {1, 2, 3, 4, 5, 6, 7}
  OBVIOUS
<1>3. QED
  BY <1>1, <1>2 DEF Kinds

\* A number is taken.
LEMMA Numbering ==
  ASSUME counters \in [Kinds -> Nat], NEW k \in Kinds
  PROVE  [counters EXCEPT ![k] = @ + 1] \in [Kinds -> Nat]
<1>1. counters[k] + 1 \in Nat
  OBVIOUS
<1>2. QED
  BY <1>1, Zenon

\* A stage links only to documents of the stages before it.
LEMMA LinksWithin ==
  ASSUME NEW S, stage \in 1..7,
         \A i \in 1..7 : i < stage => Stages[i] \in DOMAIN made,
         \A k \in DOMAIN made : made[k].id \in S
  PROVE  Links(Kind) \subseteq S
<1>1. \A i \in 1..7 : i < stage => made[Stages[i]].id \in S
  BY Zenon
<1>2. stage \in 1..7 /\ Kind = Stages[stage]
  BY Zenon DEF Kind
<1>3. CASE stage = 1
  BY <1>2, <1>3, StageFacts, Zenon DEF Links
<1>4. CASE stage = 2
  BY <1>1, <1>2, <1>4, StageFacts DEF Links
<1>5. CASE stage = 3
  BY <1>1, <1>2, <1>5, StageFacts DEF Links
<1>6. CASE stage \in {4, 6}
  BY <1>1, <1>2, <1>6, StageFacts DEF Links
<1>7. CASE stage = 5
  BY <1>1, <1>2, <1>7, StageFacts DEF Links
<1>8. CASE stage = 7
  BY <1>1, <1>2, <1>8, StageFacts DEF Links
<1>9. QED
  BY <1>2, <1>3, <1>4, <1>5, <1>6, <1>7, <1>8

LEMMA LinksAreMade ==
  ASSUME IInv, status = "running", stage <= 7
  PROVE  Links(Kind) \subseteq DOMAIN store
<1>1. stage \in 1..7
  BY DEF IInv, RunInv
<1>2. /\ \A i \in 1..7 : i < stage => Stages[i] \in DOMAIN made
      /\ \A k \in DOMAIN made : made[k].id \in DOMAIN store
  BY Zenon DEF IInv, RunInv, LinkInv
<1>3. QED
  BY <1>1, <1>2, LinksWithin, Zenon

\* A document with its links.
LEMMA DocFacts ==
  ASSUME NEW k, NEW id, NEW c, NEW hrefs
  PROVE  LET d == WithLinks(Doc(k, id, c), hrefs)
         IN  /\ d.id = id /\ d.kind = k /\ d.links = hrefs
             /\ d.content = c /\ d.created = runNo
  BY Zenon DEF WithLinks, Doc

\* A write over an id, whole or cut short, breaks no link.
LEMMA StoreKeepsLinks ==
  ASSUME LinkInv, NEW id, NEW d, store' = Put(store, id, d),
         d = Torn \/ d.links \subseteq DOMAIN store
  PROVE  LinksResolve' /\ DOMAIN store' = DOMAIN store \cup {id}
<1>1. /\ DOMAIN store' = DOMAIN store \cup {id}
      /\ store'[id] = d
      /\ \A x \in DOMAIN store : x # id => store'[x] = store[x]
  BY Zenon DEF Put
<1>2. ASSUME NEW i \in DOMAIN store', store'[i] # Torn
      PROVE  store'[i].links \subseteq DOMAIN store'
  <2>1. CASE i = id
    BY <1>1, <1>2, <2>1, Zenon
  <2>2. CASE i # id
    BY <1>1, <1>2, <2>2, Zenon DEF LinkInv, LinksResolve, Readable
  <2>3. QED
    BY <2>1, <2>2, Zenon
<1>3. QED
  BY <1>1, <1>2, Zenon DEF LinksResolve, Readable

-----------------------------------------------------------------------------
\* The invariant holds over an empty store.
LEMMA InitInv == Init => IInv
<1> SUFFICES ASSUME Init PROVE IInv
  BY Zenon
<1>1. DOMAIN made = {} /\ DOMAIN store = {}
  BY DEF Init
<1>2. RunInv
  BY <1>1 DEF Init, RunInv
<1>3. LinkInv
  BY <1>1, Zenon DEF Init, LinkInv, LinksResolve
<1>4. QED
  BY <1>2, <1>3, Zenon DEF IInv

\* A run begins, on an old or a new Pipeline object.
LEMMA BeginInv ==
  ASSUME IInv,
         \/ \E id \in IdeaIds \cup {NoId} : Run(id)
         \/ \E f \in Features : NewPipeline(f)
  PROVE  IInv'
<1>1. made' = <<>> /\ stage' = 1 /\ store' = store
  BY Zenon DEF Run, NewPipeline
<1>2. DOMAIN made' = {}
  BY <1>1
<1>3. counters \in [Kinds -> Nat]
  BY Zenon DEF IInv, RunInv
<1>4. CASE \E id \in IdeaIds \cup {NoId} : Run(id)
  <2>1. PICK id \in IdeaIds \cup {NoId} : Run(id)
    BY <1>4, Zenon
  <2>2. draft'.kind = "idea" /\ draft'.links = {} /\ status' = "running"
    BY <2>1, Zenon DEF Run
  <2>3. counters' \in [Kinds -> Nat]
    <3>1. [counters EXCEPT !["idea"] = @ + 1] \in [Kinds -> Nat]
      BY <1>3, Numbering, StageFacts, Zenon
    <3>2. QED
      BY <1>3, <2>1, <3>1, Zenon DEF Run
  <2>4. RunInv'
    BY <1>1, <2>2, <2>3, StageFacts DEF RunInv
  <2>5. LinkInv'
    BY <1>1, <1>2, <2>2, Zenon DEF IInv, LinkInv, LinksResolve, Readable
  <2>6. QED
    BY <2>4, <2>5, Zenon DEF IInv
<1>5. CASE \E f \in Features : NewPipeline(f)
  <2>1. draft' = draft /\ draft = NoDoc /\ status' = "new"
    BY <1>5, Zenon DEF NewPipeline, IInv, RunInv
  <2>2. counters' \in [Kinds -> Nat]
    BY <1>5 DEF NewPipeline
  <2>3. RunInv'
    BY <1>1, <2>1, <2>2 DEF RunInv
  <2>4. LinkInv'
    BY <1>1, <1>2, <2>1, Zenon DEF IInv, LinkInv, LinksResolve, Readable
  <2>5. QED
    BY <2>3, <2>4, Zenon DEF IInv
<1>6. QED
  BY <1>4, <1>5, Zenon

\* A draft is made, by a skill or by the platform.
LEMMA DraftInv ==
  ASSUME IInv, SkillSucceeds \/ BuildSecurityReview
  PROVE  IInv'
<1>1. /\ status = "running" /\ stage \in 1..7
      /\ counters' = [counters EXCEPT ![Kind] = @ + 1]
      /\ UNCHANGED <<store, made, stage, status>>
  BY StageFacts DEF SkillSucceeds, BuildSecurityReview, IInv, RunInv
<1>2. \E c : draft' = WithLinks(Doc(Kind, NextId(Kind), c), Links(Kind))
  BY Zenon DEF SkillSucceeds, BuildSecurityReview
<1>3. draft'.kind = Stages[stage] /\ draft'.links \subseteq DOMAIN store
  BY <1>1, <1>2, DocFacts, LinksAreMade DEF Kind
<1>4. Kind \in Kinds
  BY <1>1, StageFacts, Zenon DEF Kind, Kinds
<1>5. counters' \in [Kinds -> Nat]
  BY <1>1, <1>4, Numbering, Zenon DEF IInv, RunInv
<1>6. RunInv'
  BY <1>1, <1>3, <1>5, Zenon DEF IInv, RunInv
<1>7. LinkInv'
  BY <1>1, <1>3, Zenon DEF IInv, LinkInv, LinksResolve, Readable
<1>8. QED
  BY <1>6, <1>7, Zenon DEF IInv

\* A draft is persisted, and the run goes on with the next stage.
LEMMA PersistInv ==
  ASSUME IInv, Persist
  PROVE  IInv'
<1>1. /\ status = "running" /\ draft # NoDoc /\ stage \in 1..7 /\ draft.kind = Stages[stage]
      /\ draft.links \subseteq DOMAIN store
  BY Zenon DEF Persist, IInv, RunInv, LinkInv
<1>2. /\ store' = Put(store, draft.id, draft) /\ made' = Put(made, draft.kind, draft)
      /\ stage' = stage + 1 /\ draft' = NoDoc /\ status' = status /\ counters' = counters
  BY Zenon DEF Persist, Stored
<1>3. LinksResolve' /\ DOMAIN store' = DOMAIN store \cup {draft.id}
  BY <1>1, <1>2, StoreKeepsLinks, Zenon DEF IInv
<1>4. /\ DOMAIN made' = DOMAIN made \cup {draft.kind}
      /\ made'[draft.kind] = draft
      /\ \A k \in DOMAIN made : k # draft.kind => made'[k] = made[k]
  BY <1>2, Zenon DEF Put
<1>5. \A k \in DOMAIN made' : made'[k].id \in DOMAIN store'
  BY <1>3, <1>4, Zenon DEF IInv, LinkInv
<1>6. stage' \in 1..8 /\ \A i \in 1..7 : i < stage' => Stages[i] \in DOMAIN made'
  <2>1. stage' \in 1..8
    BY <1>1, <1>2
  <2>2. ASSUME NEW i \in 1..7, i < stage' PROVE i = stage \/ i < stage
    BY <1>1, <1>2, <2>2
  <2>3. QED
    BY <1>1, <1>4, <2>1, <2>2, Zenon DEF IInv, RunInv
<1>7. RunInv'
  BY <1>1, <1>2, <1>6, Zenon DEF IInv, RunInv
<1>8. QED
  BY <1>2, <1>3, <1>5, <1>7, Zenon DEF IInv, LinkInv

\* A run ends: it fails in a skill or in the store, or returns.
LEMMA EndInv ==
  ASSUME IInv, SkillFails \/ PersistFails \/ Return
  PROVE  IInv'
<1>1. /\ UNCHANGED <<made, stage>>
      /\ status = "running"
  BY Zenon DEF SkillFails, PersistFails, Return
<1>2. CASE SkillFails
  <2>1. /\ status' = "failed" /\ draft' = NoDoc /\ store' = store
        /\ counters' = [counters EXCEPT ![Kind] = @ + 1] /\ stage <= 7
    BY <1>2, StageFacts, Zenon DEF SkillFails, Raise
  <2>2. Kind \in Kinds
    BY <2>1, StageFacts DEF Kind, Kinds, IInv, RunInv
  <2>3. counters' \in [Kinds -> Nat]
    BY <2>1, <2>2, Numbering, Zenon DEF IInv, RunInv
  <2>4. QED
    BY <1>1, <2>1, <2>3, Zenon DEF IInv, RunInv, LinkInv, LinksResolve, Readable
<1>3. CASE PersistFails
  <2>1. /\ status' = "failed" /\ draft' = NoDoc /\ counters' = counters /\ draft # NoDoc
    BY <1>3, Zenon DEF PersistFails, Raise
  <2>2. RunInv'
    BY <1>1, <2>1, Zenon DEF IInv, RunInv
  <2>3. CASE store' = store
    BY <1>1, <2>1, <2>2, <2>3, Zenon DEF IInv, LinkInv, LinksResolve, Readable
  <2>4. CASE store' = Put(store, draft.id, Torn) \/ store' = Put(store, draft.id, draft)
    <3>1. LinksResolve' /\ DOMAIN store' = DOMAIN store \cup {draft.id}
      BY <2>1, <2>4, StoreKeepsLinks, Zenon DEF IInv, LinkInv
    <3>2. QED
      BY <1>1, <2>1, <2>2, <3>1, Zenon DEF IInv, LinkInv
  <2>5. QED
    BY <1>3, <2>3, <2>4, Zenon DEF PersistFails, Stored
<1>4. CASE Return
  <2>1. /\ stage = 8 /\ status' = "returned" /\ UNCHANGED <<draft, counters, store>>
    BY <1>4, StageFacts DEF Return, IInv, RunInv
  <2>2. draft = NoDoc
    BY <2>1 DEF IInv, RunInv
  <2>3. QED
    BY <1>1, <2>1, <2>2, Zenon DEF IInv, RunInv, LinkInv, LinksResolve, Readable
<1>5. QED
  BY <1>2, <1>3, <1>4, Zenon

\* Every step keeps the invariant.
LEMMA NextInv == IInv /\ [Next]_vars => IInv'
<1> SUFFICES ASSUME IInv, [Next]_vars PROVE IInv'
  BY Zenon
<1>1. CASE UNCHANGED vars
  BY <1>1, Zenon DEF vars, IInv, RunInv, LinkInv, LinksResolve, Readable
<1>2. CASE Next
  BY <1>2, BeginInv, DraftInv, PersistInv, EndInv, Zenon DEF Next, Progress
<1>3. QED
  BY <1>1, <1>2, Zenon

\* The pipeline always satisfies its invariant.
THEOREM Invariance == Spec => []IInv
  BY InitInv, NextInv, PTL DEF Spec

\* LinksResolve for any features, ideas and threat models and any number of
\* runs, wherever each of them fails.
THEOREM NoDanglingLinks == Spec => []LinksResolve
  BY Invariance, PTL DEF IInv, LinkInv

-----------------------------------------------------------------------------
InRun == status \in {"running", "returned"}

\* The review is about the task of its run.
AboutTask(review) ==
  /\ review.content.task_id = made["task"].id
  /\ review.content.subject_digest = made["task"]

\* In a run that has not failed the store holds what was made, since ids of
\* different kinds differ.
ResultInv ==
  /\ InRun => \A k \in DOMAIN made : made[k].id[1] = k /\ store[made[k].id] = made[k]
  /\ draft # NoDoc /\ draft.id # NoId => draft.id[1] = draft.kind
  /\ draft # NoDoc /\ draft.kind = "review" => AboutTask(draft)
  /\ InRun /\ "review" \in DOMAIN made => stage = 8 /\ AboutTask(made["review"])

\* A run begins with nothing made and an idea under an id of its own prefix.
LEMMA BeginResult ==
  ASSUME IInv,
         \/ \E id \in IdeaIds \cup {NoId} : Run(id)
         \/ \E f \in Features : NewPipeline(f)
  PROVE  ResultInv'
<1>1. DOMAIN made' = {}
  <2>1. made' = <<>>
    BY Zenon DEF Run, NewPipeline
  <2>2. QED
    BY <2>1
<1>2. CASE \E id \in IdeaIds \cup {NoId} : Run(id)
  <2>1. PICK id \in IdeaIds \cup {NoId} : Run(id)
    BY <1>2
  <2>2. draft'.kind = "idea" /\ draft'.id = id
    BY <2>1, Zenon DEF Run
  <2>3. id # NoId => id[1] = "idea"
    BY <2>1, IdeaAssumption, Zenon
  <2>4. QED
    BY <1>1, <2>2, <2>3, Zenon DEF ResultInv
<1>3. CASE \E f \in Features : NewPipeline(f)
  <2>1. draft' = NoDoc
    BY <1>3, Zenon DEF NewPipeline, IInv, RunInv
  <2>2. QED
    BY <1>1, <2>1, Zenon DEF ResultInv
<1>4. QED
  BY <1>2, <1>3, Zenon

\* A draft has an id of its kind, and a review quotes the task that was made.
LEMMA DraftResult ==
  ASSUME IInv, ResultInv, SkillSucceeds \/ BuildSecurityReview
  PROVE  ResultInv'
<1>1. UNCHANGED <<store, made, stage, status>>
  BY Zenon DEF SkillSucceeds, BuildSecurityReview
<1>2. PICK c : draft' = WithLinks(Doc(Kind, NextId(Kind), c), Links(Kind))
               /\ (Kind = "review" => c \in Contents(Kind))
  BY Zenon DEF SkillSucceeds, BuildSecurityReview
<1>3. draft'.id = NextId(Kind) /\ draft'.kind = Kind /\ draft'.content = c
  BY <1>2, DocFacts
<1>4. draft'.id[1] = draft'.kind
  BY <1>3 DEF NextId
<1>5. Kind = "review" => AboutTask(draft')
  BY <1>2, <1>3 DEF Contents, AboutTask
<1>6. QED
  BY <1>1, <1>3, <1>4, <1>5, Zenon DEF ResultInv, InRun, AboutTask

\* What is persisted overwrites nothing of this run.
LEMMA PersistResult ==
  ASSUME IInv, ResultInv, Persist
  PROVE  ResultInv'
<1>1. /\ status = "running" /\ draft # NoDoc /\ stage \in 1..7 /\ draft.kind = Stages[stage]
      /\ draft.id[1] = draft.kind
  BY Zenon DEF Persist, IInv, RunInv, ResultInv
<1>2. /\ draft' = NoDoc /\ status' = "running" /\ stage' = stage + 1
      /\ store'[draft.id] = draft
      /\ \A x \in DOMAIN store : x # draft.id => store'[x] = store[x]
  BY <1>1, Zenon DEF Persist, Stored, Put
<1>3. /\ DOMAIN made' = DOMAIN made \cup {draft.kind}
      /\ made'[draft.kind] = draft
      /\ \A k \in DOMAIN made : k # draft.kind => made'[k] = made[k]
  BY Zenon DEF Persist, Put
<1>4. ASSUME NEW k \in DOMAIN made'
      PROVE  made'[k].id[1] = k /\ store'[made'[k].id] = made'[k]
  <2>1. CASE k = draft.kind
    BY <1>1, <1>2, <1>3, <2>1, Zenon
  <2>2. CASE k # draft.kind
    <3>1. k \in DOMAIN made /\ made'[k] = made[k]
      BY <1>3, <2>2, Zenon
    <3>2. made[k].id[1] = k /\ store[made[k].id] = made[k] /\ made[k].id \in DOMAIN store
      BY <1>1, <3>1, Zenon DEF ResultInv, InRun, IInv, LinkInv
    <3>3. made[k].id # draft.id
      BY <1>1, <2>2, <3>2, Zenon
    <3>4. QED
      BY <1>2, <3>1, <3>2, <3>3, Zenon
  <2>3. QED
    BY <2>1, <2>2, Zenon
<1>5. "review" \notin DOMAIN made
  BY <1>1 DEF ResultInv, InRun
<1>6. ASSUME "review" \in DOMAIN made'
      PROVE  stage' = 8 /\ AboutTask(made["review"])'
  <2>1. draft.kind = "review"
    BY <1>3, <1>5, <1>6, Zenon
  <2>2. stage = 7
    <3>1. stage \in {1, 2, 3, 4, 5, 6, 7} /\ Stages[stage] = "review"
      BY <1>1, <2>1
    <3>2. \A i \in {1, 2, 3, 4, 5, 6} : Stages[i] # "review"
      BY StageFacts, Zenon
    <3>3. QED
      BY <3>1, <3>2, Zenon
  <2>3. "task" \in DOMAIN made
    BY <1>1, <2>2, StageFacts DEF IInv, RunInv
  <2>4. made'["task"] = made["task"] /\ made'["review"] = draft
    BY <1>3, <2>1, <2>3, Zenon
  <2>5. AboutTask(draft)
    BY <1>1, <2>1, Zenon DEF ResultInv
  <2>6. QED
    BY <1>2, <2>2, <2>4, <2>5 DEF AboutTask
<1>7. QED
  BY <1>2, <1>4, <1>6, Zenon DEF ResultInv

\* Every step keeps the result and the store together.
LEMMA NextResult == IInv /\ ResultInv /\ [Next]_vars => ResultInv'
<1> SUFFICES ASSUME IInv, ResultInv, [Next]_vars PROVE ResultInv'
  BY Zenon
<1>1. CASE UNCHANGED vars
  BY <1>1, Zenon DEF vars, ResultInv, InRun, AboutTask
<1>2. CASE SkillFails \/ PersistFails
  BY <1>2, Zenon DEF SkillFails, PersistFails, Raise, ResultInv, InRun
<1>3. CASE Return
  BY <1>3, Zenon DEF Return, ResultInv, InRun, AboutTask
<1>4. QED
  BY <1>1, <1>2, <1>3, BeginResult, DraftResult, PersistResult, Zenon DEF Next, Progress

\* ResultIsStored for any number of runs on any Pipeline objects over one
\* store, although each new object numbers its artifacts from one again.
THEOREM ResultsAreStored == Spec => []ResultIsStored
<1>1. Init => ResultInv
  BY Zenon DEF Init, ResultInv, InRun
<1>2. ASSUME IInv, ResultInv, status = "returned"
      PROVE  /\ \A k \in Kinds : store[made[k].id] = made[k]
             /\ store[made["review"].content.task_id] = made["review"].content.subject_digest
  <2>1. \A i \in 1..7 : Stages[i] \in DOMAIN made
    BY <1>2 DEF IInv, RunInv
  <2>2. Kinds \subseteq DOMAIN made
    BY <2>1, StageFacts, Zenon DEF Kinds
  <2>3. \A k \in Kinds : store[made[k].id] = made[k]
    BY <1>2, <2>2, Zenon DEF ResultInv, InRun
  <2>4. AboutTask(made["review"])
    BY <1>2, <2>2, StageFacts, Zenon DEF ResultInv, InRun
  <2>5. QED
    BY <2>3, <2>4, StageFacts, Zenon DEF AboutTask
<1>3. IInv /\ ResultInv => ResultIsStored
  BY <1>2, Zenon DEF ResultIsStored
<1>4. QED
  BY <1>1, <1>3, NextResult, Invariance, PTL DEF Spec

-----------------------------------------------------------------------------
\* A security review that can be read.
IsReview(i) == Readable(i) /\ store[i].kind = "security-review"

\* Documents bear the number of a run so far, and security reviews name an id
\* of a threat model that is, or was, in the store.
StoreInv ==
  /\ \A i \in DOMAIN store : Readable(i) => store[i].created \in 0..runNo
  /\ \A i \in DOMAIN store : IsReview(i) =>
       LET t == store[i].content.threat_model_id
       IN  t \in DOMAIN store /\ t[1] = "threat-model"
  /\ VerdictMatchesThreats

\* The running run has no security review in the store before its stage, so
\* that its threat model replaces none that a review of this run judged.
VerdictInv ==
  /\ runNo \in Nat
  /\ StoreInv
  /\ draft # NoDoc => draft.created = runNo
  /\ draft # NoDoc /\ draft.kind = "security-review" =>
       /\ draft.content.threat_model_id = made["threat-model"].id
       /\ draft.content.verdict = Verdict(made["threat-model"].content.risks)
  /\ status = "running" =>
       \A i \in DOMAIN store : IsReview(i) /\ store[i].created = runNo => stage > 6

\* An approving verdict has no blocking risk.
LEMMA VerdictFacts ==
  ASSUME NEW risks, Verdict(risks) = "approved", NEW risk \in risks
  PROVE  /\ risk.severity \in {"critical", "high"} => risk.verified
         /\ risk.severity = "medium" => risk.waiver
<1>1. Disposition(risk) # "open_blocking"
  BY Zenon DEF Verdict
<1>2. QED
  BY <1>1, Zenon DEF Disposition

\* The stage of a draft of the two kinds that matter here.
LEMMA DraftStage ==
  ASSUME IInv, draft # NoDoc
  PROVE  /\ draft.kind = "threat-model" => stage = 3
         /\ draft.kind = "security-review" => stage = 6
<1>1. stage \in {1, 2, 3, 4, 5, 6, 7} /\ draft.kind = Stages[stage]
  BY DEF IInv, RunInv
<1>2. QED
  BY <1>1, StageFacts, Zenon

\* A draft, or what is left of it, is written over whatever had its id.
LEMMA StoreVerdict ==
  ASSUME IInv, ResultInv, VerdictInv, status = "running", draft # NoDoc, draft.id # NoId,
         NEW e \in {Torn, draft}, store' = Put(store, draft.id, e), runNo' = runNo
  PROVE  StoreInv'
<1>1. /\ DOMAIN store' = DOMAIN store \cup {draft.id}
      /\ store'[draft.id] = e
      /\ \A x \in DOMAIN store : x # draft.id => store'[x] = store[x]
  BY Zenon DEF Put
<1>2. draft.id[1] = draft.kind /\ draft.created = runNo /\ runNo \in Nat
  BY Zenon DEF ResultInv, VerdictInv
<1>3. ASSUME NEW i \in DOMAIN store', Readable(i)'
      PROVE  store'[i].created \in 0..runNo'
  <2>1. CASE i = draft.id
    BY <1>1, <1>2, <1>3, <2>1 DEF Readable
  <2>2. CASE i # draft.id
    BY <1>1, <1>3, <2>2, Zenon DEF Readable, VerdictInv, StoreInv
  <2>3. QED
    BY <2>1, <2>2, Zenon
<1>4. ASSUME NEW i \in DOMAIN store', IsReview(i)'
      PROVE  \/ i \in DOMAIN store /\ i # draft.id /\ IsReview(i) /\ store'[i] = store[i]
             \/ i = draft.id /\ store'[i] = draft /\ draft.kind = "security-review"
  BY <1>1, <1>4, Zenon DEF IsReview, Readable
<1>5. ASSUME draft.kind = "security-review"
      PROVE  LET t == made["threat-model"].id
             IN  /\ draft.content.threat_model_id = t
                 /\ draft.content.verdict = Verdict(made["threat-model"].content.risks)
                 /\ t \in DOMAIN store /\ t[1] = "threat-model"
                 /\ store'[t] = made["threat-model"]
  <2>1. "threat-model" \in DOMAIN made
    <3>1. stage = 6
      BY <1>5, DraftStage, Zenon
    <3>2. QED
      BY <3>1, StageFacts DEF IInv, RunInv
  <2>2. /\ made["threat-model"].id \in DOMAIN store
        /\ made["threat-model"].id[1] = "threat-model"
        /\ store[made["threat-model"].id] = made["threat-model"]
    BY <2>1, Zenon DEF IInv, LinkInv, ResultInv, InRun
  <2>3. made["threat-model"].id # draft.id
    BY <1>2, <1>5, <2>2, ZenonT(40)
  <2>4. QED
    BY <1>1, <1>5, <2>2, <2>3, Zenon DEF VerdictInv
<1>6. ASSUME NEW i \in DOMAIN store', IsReview(i)'
      PROVE  LET t == store'[i].content.threat_model_id
             IN  t \in DOMAIN store' /\ t[1] = "threat-model"
  BY <1>1, <1>4, <1>5, <1>6 DEF VerdictInv, StoreInv
<1>7. ASSUME NEW i \in DOMAIN store', IsReview(i)', store'[i].content.verdict = "approved",
             NEW t, t = store'[i].content.threat_model_id,
             store'[t] # Torn, store'[t].created = store'[i].created,
             NEW risk \in store'[t].content.risks
      PROVE  /\ risk.severity \in {"critical", "high"} => risk.verified
             /\ risk.severity = "medium" => risk.waiver
  <2>1. CASE i = draft.id
    <3>1. store'[i] = draft /\ draft.kind = "security-review"
      BY <1>4, <1>7, <2>1, Zenon
    <3>2. /\ Verdict(made["threat-model"].content.risks) = "approved"
          /\ risk \in made["threat-model"].content.risks
      BY <1>5, <1>7, <3>1, ZenonT(40)
    <3>3. QED
      BY <3>2, VerdictFacts, Zenon
  <2>2. CASE i # draft.id
    <3>1. i \in DOMAIN store /\ IsReview(i) /\ store'[i] = store[i]
      BY <1>4, <1>7, <2>2, Zenon
    <3>2. t \in DOMAIN store /\ t[1] = "threat-model"
      BY <1>7, <3>1, ZenonT(40) DEF VerdictInv, StoreInv
    <3>3. t # draft.id
      <4>1. SUFFICES ASSUME t = draft.id PROVE FALSE
        BY Zenon
      <4>2. stage = 3
        BY <1>2, <3>2, <4>1, DraftStage, Zenon
      <4>3. store'[t] = draft /\ store[i].created = runNo
        BY <1>1, <1>2, <1>7, <3>1, <4>1, Zenon
      <4>4. QED
        BY <3>1, <4>2, <4>3 DEF VerdictInv
    <3>4. store'[t] = store[t]
      BY <1>1, <3>2, <3>3, Zenon
    <3>5. QED
      BY <1>7, <3>1, <3>4 DEF VerdictInv, StoreInv, VerdictMatchesThreats, IsReview, Readable
  <2>3. QED
    BY <2>1, <2>2, Zenon
<1>8. VerdictMatchesThreats'
  <2> SUFFICES ASSUME NEW i \in DOMAIN store', IsReview(i)',
                      store'[i].content.verdict = "approved",
                      NEW t, t = store'[i].content.threat_model_id,
                      store'[t] # Torn, store'[t].created = store'[i].created,
                      NEW risk \in store'[t].content.risks
               PROVE  /\ risk.severity \in {"critical", "high"} => risk.verified
                      /\ risk.severity = "medium" => risk.waiver
    BY Zenon DEF VerdictMatchesThreats, IsReview, Readable
  <2> QED
    BY <1>7, Zenon
<1>9. QED
  BY <1>3, <1>6, <1>8, Zenon DEF StoreInv

\* Every step keeps the verdicts true.
LEMMA NextVerdict == IInv /\ ResultInv /\ VerdictInv /\ [Next]_vars => VerdictInv'
<1> SUFFICES ASSUME IInv, ResultInv, VerdictInv, [Next]_vars PROVE VerdictInv'
  BY Zenon
<1>1. ASSUME UNCHANGED <<store, runNo>>
      PROVE  StoreInv'
  BY <1>1, ZenonT(40) DEF VerdictInv, StoreInv, VerdictMatchesThreats, IsReview, Readable
<1>2. CASE \E id \in IdeaIds \cup {NoId} : Run(id)
  <2>1. PICK id \in IdeaIds \cup {NoId} : Run(id)
    BY <1>2, Zenon
  <2>2. /\ runNo' = runNo + 1 /\ store' = store
        /\ draft'.created = runNo' /\ draft'.kind = "idea"
    BY <2>1, Zenon DEF Run
  <2>3. runNo \in Nat /\ runNo' \in Nat
    BY <2>2 DEF VerdictInv
  <2>4. \A i \in DOMAIN store : Readable(i) =>
          store[i].created \in 0..runNo' /\ store[i].created # runNo'
    BY <2>2, <2>3 DEF VerdictInv, StoreInv
  <2>5. StoreInv'
    BY <2>2, <2>4, Zenon DEF VerdictInv, StoreInv, VerdictMatchesThreats, IsReview, Readable
  <2>6. QED
    BY <2>2, <2>3, <2>4, <2>5, Zenon DEF VerdictInv, IsReview, Readable
<1>3. CASE \E f \in Features : NewPipeline(f)
  <2>1. /\ UNCHANGED <<store, runNo>> /\ status' = "new"
        /\ draft' = NoDoc
    BY <1>3, Zenon DEF NewPipeline, IInv, RunInv
  <2>2. QED
    BY <1>1, <2>1, Zenon DEF VerdictInv
<1>4. CASE SkillFails \/ PersistFails
  <2>1. status' = "failed" /\ draft' = NoDoc /\ runNo' = runNo
    BY <1>4, Zenon DEF SkillFails, PersistFails, Raise
  <2>2. StoreInv'
    <3>1. CASE store' = store
      BY <1>1, <2>1, <3>1, Zenon
    <3>2. CASE PersistFails /\ draft.id # NoId /\ \E e \in {Torn, draft} :
                  store' = Put(store, draft.id, e)
      BY <2>1, <3>2, StoreVerdict, Zenon DEF PersistFails
    <3>3. QED
      BY <1>4, <3>1, <3>2, Zenon DEF SkillFails, PersistFails, Stored
  <2>3. QED
    BY <2>1, <2>2, Zenon DEF VerdictInv
<1>5. CASE SkillSucceeds \/ BuildSecurityReview
  <2>1. UNCHANGED <<store, made, stage, status, runNo>>
    BY <1>5, Zenon DEF SkillSucceeds, BuildSecurityReview
  <2>2. PICK c : /\ draft' = WithLinks(Doc(Kind, NextId(Kind), c), Links(Kind))
                 /\ Kind = "security-review" =>
                      c = [threat_model_id |-> made["threat-model"].id,
                           verdict |-> Verdict(made["threat-model"].content.risks)]
    BY <1>5, Zenon DEF SkillSucceeds, BuildSecurityReview
  <2>3. draft'.kind = Kind /\ draft'.content = c /\ draft'.created = runNo
    BY <2>2, DocFacts
  <2>4. draft'.kind = "security-review" =>
          /\ draft'.content.threat_model_id = made["threat-model"].id
          /\ draft'.content.verdict = Verdict(made["threat-model"].content.risks)
    BY <2>2, <2>3
  <2>5. QED
    BY <1>1, <2>1, <2>3, <2>4, Zenon DEF VerdictInv, IsReview, Readable
<1>6. CASE Persist
  <2>1. /\ status = "running" /\ draft # NoDoc /\ draft.id # NoId
        /\ store' = Put(store, draft.id, draft) /\ runNo' = runNo
        /\ draft' = NoDoc /\ stage' = stage + 1
    BY <1>6, Zenon DEF Persist, Stored
  <2>2. StoreInv'
    BY <2>1, StoreVerdict, Zenon
  <2>3. stage \in 1..7 /\ (draft.kind = "security-review" => stage = 6)
    BY <2>1, DraftStage, Zenon DEF IInv, RunInv
  <2>4. ASSUME NEW i \in DOMAIN store', IsReview(i)', store'[i].created = runNo
        PROVE  stage' > 6
    <3>1. CASE i = draft.id
      BY <2>1, <2>3, <2>4, <3>1 DEF IsReview, Put
    <3>2. CASE i # draft.id
      <4>1. i \in DOMAIN store /\ store'[i] = store[i]
        BY <2>1, <2>4, <3>2, Zenon DEF Put
      <4>2. stage > 6
        BY <2>1, <2>4, <4>1, Zenon DEF VerdictInv, IsReview, Readable
      <4>3. QED
        BY <2>1, <2>3, <4>2
    <3>3. QED
      BY <3>1, <3>2, Zenon
  <2>5. QED
    BY <2>1, <2>2, <2>4, Zenon DEF VerdictInv
<1>7. CASE Return \/ UNCHANGED vars
  <2>1. /\ UNCHANGED <<store, made, stage, draft, runNo>>
        /\ status' = "running" => status = "running"
    BY <1>7, Zenon DEF Return, vars
  <2>2. QED
    BY <1>1, <2>1, Zenon DEF VerdictInv, IsReview, Readable
<1>8. QED
  BY <1>2, <1>3, <1>4, <1>5, <1>6, <1>7, Zenon DEF Next, Progress

\* VerdictMatchesThreats for any threat models and any number of runs, failed
\* or not, that overwrite each other's artifacts.
THEOREM VerdictsMatch == Spec => []VerdictMatchesThreats
<1>1. Init => ResultInv /\ VerdictInv
  <2> SUFFICES ASSUME Init PROVE ResultInv /\ VerdictInv
    BY Zenon
  <2>1. DOMAIN store = {} /\ DOMAIN made = {}
    BY DEF Init
  <2>2. QED
    BY <2>1, Zenon DEF Init, ResultInv, InRun, VerdictInv, StoreInv, VerdictMatchesThreats
<1>2. VerdictInv => VerdictMatchesThreats
  BY Zenon DEF VerdictInv, StoreInv
<1>3. QED
  BY <1>1, <1>2, NextResult, NextVerdict, Invariance, PTL DEF Spec

-----------------------------------------------------------------------------
(* What the audit selects.  The provers cannot use the induction rules of  *)
(* the library, but least elements of sets of numbers do as well.          *)

\* A set of natural numbers has a least element.
LEMMA Least ==
  ASSUME NEW T, T \subseteq Nat, T # {}
  PROVE  \E x \in T : \A y \in T : x <= y
<1> DEFINE R == OpToRel(<, Nat)
<1>1. IsWellFoundedOn(R, Nat)
  BY NatLessThanWellFounded, Zenon
<1>2. R = {ss \in Nat \X Nat : ss[1] < ss[2]}
  BY Zenon DEF OpToRel
<1> HIDE DEF R
<1>3. PICK x \in T : \A y \in T : ~ (<<y, x>> \in R)
  BY <1>1, WFMin, Zenon
<1>4. ASSUME NEW y \in T PROVE x <= y
  <2>1. x \in Nat /\ y \in Nat
    BY Zenon
  <2>2. ~ (y < x)
    <3>1. ASSUME y < x PROVE <<y, x>> \in {ss \in Nat \X Nat : ss[1] < ss[2]}
      BY <2>1, <3>1, Zenon
    <3>2. QED
      BY <1>2, <1>3, <3>1, Zenon
  <2>3. QED
    BY <2>1, <2>2
<1>5. QED
  BY <1>4, Zenon

\* One round of the audit's search, and where it starts.
Round(ix, S) == S \cup Neighbours(ix, S)
Seeds(ix, f) == {i \in DOMAIN ix : ix[i].feature = f}

\* The rounds one after another, a function of their number.
AreRounds(ix, seed, c, g) ==
  g = [n \in 0..c |-> IF n = 0 THEN seed ELSE Round(ix, g[n - 1])]

LEMMA RoundsExist ==
  ASSUME NEW ix, NEW seed, NEW c \in Nat
  PROVE  \E g : AreRounds(ix, seed, c, g)
<1> USE DEF AreRounds
<1> DEFINE Rounds(m, g) == AreRounds(ix, seed, m, g)
           Bad == {m \in Nat : ~ \E g : Rounds(m, g)}
<1>1. SUFFICES ASSUME Bad # {} PROVE FALSE
  BY Zenon
<1>2. Bad \subseteq Nat
  BY Zenon
<1>3. PICK m \in Bad : \A y \in Bad : m <= y
  <2> HIDE DEF Bad
  <2> QED
    BY <1>1, <1>2, Least, Zenon
<1>4. m \in Nat /\ ~ \E g : Rounds(m, g)
  BY Zenon
<1>5. m # 0
  <2> DEFINE g == [n \in 0..0 |-> seed]
  <2>1. \A n \in 0..0 : n = 0
    OBVIOUS
  <2>2. g = [n \in 0..0 |-> IF n = 0 THEN seed ELSE Round(ix, g[n - 1])]
    BY <2>1, Zenon
  <2>3. Rounds(0, g)
    BY <2>2, Zenon
  <2>4. QED
    BY <1>4, <2>3, Zenon
<1>6. m - 1 \in Nat /\ ~ (m <= m - 1)
  BY <1>4, <1>5
<1>7. m - 1 \notin Bad
  <2> HIDE DEF Bad
  <2> QED
    BY <1>3, <1>6, Zenon
<1>8. PICK g : Rounds(m - 1, g)
  <2>1. \E g : Rounds(m - 1, g)
    <3> HIDE DEF Rounds
    <3> QED
      BY <1>6, <1>7, Zenon
  <2>2. QED
    BY <2>1, Zenon
<1> DEFINE h == [n \in 0..m |-> IF n = m THEN Round(ix, g[m - 1]) ELSE g[n]]
<1>9. \A n \in 0..(m - 1) : g[n] = IF n = 0 THEN seed ELSE Round(ix, g[n - 1])
  BY <1>8, Zenon
<1>10. h[m] = Round(ix, g[m - 1]) /\ \A n \in 0..(m - 1) : h[n] = g[n]
  BY <1>4
<1>11. ASSUME NEW n \in 0..m
       PROVE  h[n] = IF n = 0 THEN seed ELSE Round(ix, h[n - 1])
  <2> HIDE DEF h
  <2>1. CASE n = m
    <3>1. n # 0 /\ n - 1 = m - 1 /\ m - 1 \in 0..(m - 1)
      BY <1>4, <1>5, <1>6, <2>1
    <3>2. QED
      BY <1>10, <2>1, <3>1, Zenon
  <2>2. CASE n # m
    <3>1. n \in 0..(m - 1) /\ (n # 0 => n - 1 \in 0..(m - 1))
      BY <1>4, <2>2
    <3>2. QED
      BY <1>9, <1>10, <3>1, Zenon
  <2>3. QED
    BY <2>1, <2>2, Zenon
<1>12. h = [n \in 0..m |-> h[n]]
  BY Zenon
<1>13. Rounds(m, h)
  <2>1. [n \in 0..m |-> h[n]] = [n \in 0..m |-> IF n = 0 THEN seed ELSE Round(ix, h[n - 1])]
    <3> HIDE DEF h
    <3> QED
      BY <1>11, Zenon
  <2>2. QED
    <3> HIDE DEF h
    <3> QED
      BY <1>12, <2>1, Zenon
<1>14. QED
  <2> HIDE DEF Rounds, h
  <2> QED
    BY <1>4, <1>13, Zenon

\* The audit selects the artifacts of the feature and their neighbours, and
\* nothing that is not in the index.
LEMMA SelectedFacts ==
  ASSUME NEW ix, NEW f, IsFiniteSet(DOMAIN ix), DOMAIN ix # {}
  PROVE  /\ Seeds(ix, f) \subseteq Selected(ix, f)
         /\ Neighbours(ix, Seeds(ix, f)) \subseteq Selected(ix, f)
         /\ Selected(ix, f) \subseteq DOMAIN ix
<1> DEFINE c == Cardinality(DOMAIN ix)
           G == CHOOSE g : g = [n \in 0..c |-> IF n = 0 THEN Seeds(ix, f) ELSE Round(ix, g[n - 1])]
<1>1. c \in Nat /\ c # 0
  BY FS_CardinalityType, FS_EmptySet, Zenon
<1>2. Selected(ix, f) = G[c]
  BY Zenon DEF Selected, Round, Seeds
<1> HIDE DEF c
<1>3. G = [n \in 0..c |-> IF n = 0 THEN Seeds(ix, f) ELSE Round(ix, G[n - 1])]
  <2>1. \E g : AreRounds(ix, Seeds(ix, f), c, g)
    BY <1>1, RoundsExist, Zenon
  <2>2. QED
    BY <2>1, Zenon DEF AreRounds
<1> HIDE DEF G
<1>4. \A n \in 0..c : G[n] = IF n = 0 THEN Seeds(ix, f) ELSE Round(ix, G[n - 1])
  BY <1>3, Zenon
<1>5. G[0] = Seeds(ix, f) /\ \A n \in 1..c : G[n] = Round(ix, G[n - 1])
  <2>1. 0 \in 0..c /\ \A n \in 1..c : n \in 0..c /\ n # 0
    BY <1>1
  <2>2. QED
    BY <1>4, <2>1, Zenon
<1> DEFINE Sound(n) == G[n] \subseteq DOMAIN ix /\ (n # 0 => G[1] \subseteq G[n])
           Bad == {n \in 0..c : ~ Sound(n)}
<1>6. Bad = {}
  <2>1. SUFFICES ASSUME Bad # {} PROVE FALSE
    BY Zenon
  <2>2. Bad \subseteq Nat
    OBVIOUS
  <2>3. PICK m \in Bad : \A y \in Bad : m <= y
    <3> HIDE DEF Bad
    <3> QED
      BY <2>1, <2>2, Least, Zenon
  <2>4. m \in 0..c /\ ~ Sound(m)
    BY Zenon
  <2>5. m # 0
    <3>1. Sound(0)
      BY <1>5, Zenon DEF Seeds
    <3>2. QED
      BY <2>4, <3>1, Zenon
  <2>6. m \in 1..c /\ m - 1 \in 0..c /\ ~ (m <= m - 1) /\ (m # 1 => m - 1 # 0)
    BY <1>1, <2>4, <2>5
  <2>7. Sound(m - 1)
    <3> HIDE DEF Sound
    <3> QED
      BY <2>3, <2>6, Zenon
  <2>8. G[m] = Round(ix, G[m - 1])
    BY <1>5, <2>6, Zenon
  <2>9. G[m - 1] \subseteq G[m] /\ G[m] \subseteq DOMAIN ix
    BY <2>7, <2>8, Zenon DEF Round, Neighbours
  <2>10. Sound(m)
    BY <2>6, <2>7, <2>9, Zenon
  <2>11. QED
    BY <2>4, <2>10, Zenon
<1>7. Sound(c)
  <2>1. c \in 0..c
    BY <1>1
  <2>2. QED
    BY <1>6, <2>1, Zenon
<1>8. G[1] = Round(ix, Seeds(ix, f))
  <2>1. 1 \in 1..c /\ 1 - 1 = 0
    BY <1>1
  <2>2. QED
    BY <1>5, <2>1, Zenon
<1>9. QED
  BY <1>1, <1>2, <1>7, <1>8, Zenon DEF Round

-----------------------------------------------------------------------------
(* The chain of a run.                                                     *)

\* A draft bears the feature of its kind and links to what is written.
DraftChain ==
  draft # NoDoc =>
    /\ draft.feature = FeatureOf(draft.kind)
    /\ draft.links \subseteq DOMAIN written
    /\ draft.kind = "specification" => draft.links = {made["idea"].id}
    /\ draft.kind = "review" => draft.links = {made["task"].id}

\* What a run has made is written, and the two documents without a feature
\* hang on ones that have it.
MadeChain ==
  InRun =>
    /\ \A k \in DOMAIN made :
         /\ made[k].kind = k /\ made[k].feature = FeatureOf(k)
         /\ made[k].id \in DOMAIN written /\ written[made[k].id] = made[k]
    /\ "specification" \in DOMAIN made =>
         stage >= 3 /\ made["specification"].links = {made["idea"].id}
    /\ "review" \in DOMAIN made => made["review"].links = {made["task"].id}

WrittenLinks == \A i \in DOMAIN written : written[i].links \subseteq DOMAIN written

ChainInv ==
  /\ IsFiniteSet(DOMAIN written) /\ IsFiniteSet(DOMAIN store)
  /\ WrittenLinks /\ DraftChain /\ MadeChain

\* A step of a run that makes nothing and changes no feature.
LEMMA MadeKept ==
  ASSUME MadeChain, UNCHANGED <<made, stage, written, feature>>, InRun' => InRun
  PROVE  MadeChain'
BY Zenon DEF MadeChain, FeatureOf

LEMMA BeginChain ==
  ASSUME IInv, ChainInv,
         \/ \E id \in IdeaIds \cup {NoId} : Run(id)
         \/ \E f \in Features : NewPipeline(f)
  PROVE  ChainInv'
<1>1. made' = <<>> /\ store' = store
  BY Zenon DEF Run, NewPipeline
<1>2. DOMAIN made' = {}
  BY <1>1
<1>3. MadeChain'
  BY <1>2, Zenon DEF MadeChain
<1>4. CASE \E id \in IdeaIds \cup {NoId} : Run(id)
  <2>1. PICK id \in IdeaIds \cup {NoId} : Run(id)
    BY <1>4, Zenon
  <2>2. /\ draft' = [id |-> id, kind |-> "idea", feature |-> "", created |-> runNo + 1,
                     links |-> {}, content |-> {}]
        /\ written' = written
    BY <2>1, Zenon DEF Run
  <2>3. draft'.kind = "idea" /\ draft'.feature = "" /\ draft'.links = {}
    BY <2>2, Zenon
  <2>4. draft'.kind # "specification" /\ draft'.kind # "review"
    BY <2>3, Zenon
  <2>5. DraftChain'
    BY <2>3, <2>4, Zenon DEF DraftChain, FeatureOf
  <2>6. QED
    BY <1>1, <1>3, <2>2, <2>5, Zenon DEF ChainInv, WrittenLinks
<1>5. CASE \E f \in Features : NewPipeline(f)
  <2>1. draft' = NoDoc /\ written' = <<>>
    BY <1>5, Zenon DEF NewPipeline, IInv, RunInv
  <2>2. DOMAIN written' = {}
    BY <2>1
  <2>3. IsFiniteSet(DOMAIN written') /\ WrittenLinks' /\ DraftChain'
    BY <2>1, <2>2, FS_EmptySet, Zenon DEF WrittenLinks, DraftChain
  <2>4. QED
    BY <1>1, <1>3, <2>3, Zenon DEF ChainInv
<1>6. QED
  BY <1>4, <1>5, Zenon

\* A draft is linked to what its run has made.
LEMMA DraftChained ==
  ASSUME IInv, ChainInv, SkillSucceeds \/ BuildSecurityReview
  PROVE  ChainInv'
<1>1. /\ status = "running" /\ UNCHANGED <<written, store, made, stage, status, feature>>
  BY Zenon DEF SkillSucceeds, BuildSecurityReview
<1>2. stage \in 1..7
  BY StageFacts DEF SkillSucceeds, BuildSecurityReview, IInv, RunInv
<1>3. PICK c : draft' = WithLinks(Doc(Kind, NextId(Kind), c), Links(Kind))
  BY Zenon DEF SkillSucceeds, BuildSecurityReview
<1>4. draft'.kind = Kind /\ draft'.links = Links(Kind) /\ draft'.feature = FeatureOf(Kind)
  BY <1>3, Zenon DEF WithLinks, Doc
<1>5. Kind = "specification" => Links(Kind) = {made["idea"].id}
  BY Zenon DEF Links
<1>6. Kind = "review" => Links(Kind) = {made["task"].id}
  BY Zenon DEF Links
<1>7. Links(Kind) \subseteq DOMAIN written
  <2>1. \A k \in DOMAIN made : made[k].id \in DOMAIN written
    BY <1>1, Zenon DEF ChainInv, MadeChain, InRun
  <2>2. \A i \in 1..7 : i < stage => Stages[i] \in DOMAIN made
    BY <1>1, Zenon DEF IInv, RunInv
  <2>3. QED
    BY <1>2, <2>1, <2>2, LinksWithin, Zenon
<1>8. DraftChain'
  <2>1. FeatureOf(draft.kind)' = FeatureOf(Kind)
    BY <1>1, <1>4, Zenon DEF FeatureOf
  <2>2. QED
    BY <1>1, <1>4, <1>5, <1>6, <1>7, <2>1, Zenon DEF DraftChain
<1>9. MadeChain'
  BY <1>1, MadeKept, Zenon DEF ChainInv, InRun
<1>10. QED
  BY <1>1, <1>8, <1>9, Zenon DEF ChainInv, WrittenLinks

\* The document that is persisted is the next link of the chain.
LEMMA PersistChain ==
  ASSUME IInv, ResultInv, ChainInv, Persist
  PROVE  ChainInv'
<1>1. /\ status = "running" /\ draft # NoDoc /\ stage \in 1..7 /\ draft.kind = Stages[stage]
      /\ draft.id[1] = draft.kind
  BY Zenon DEF Persist, IInv, RunInv, ResultInv
<1>2. /\ store' = Put(store, draft.id, draft) /\ written' = Put(written, draft.id, draft)
      /\ made' = Put(made, draft.kind, draft)
      /\ stage' = stage + 1 /\ draft' = NoDoc /\ status' = status /\ feature' = feature
  BY Zenon DEF Persist, Stored
<1>3. /\ DOMAIN written' = DOMAIN written \cup {draft.id} /\ written'[draft.id] = draft
      /\ \A x \in DOMAIN written : x # draft.id => written'[x] = written[x]
      /\ DOMAIN store' = DOMAIN store \cup {draft.id}
  <2>1. written' = Put(written, draft.id, draft)
    BY <1>2, Zenon
  <2>2. DOMAIN store' = DOMAIN store \cup {draft.id}
    BY <1>2, Zenon DEF Put
  <2>3. QED
    BY <2>1, <2>2, Zenon DEF Put
<1>4. /\ DOMAIN made' = DOMAIN made \cup {draft.kind} /\ made'[draft.kind] = draft
      /\ \A k \in DOMAIN made : k # draft.kind => made'[k] = made[k]
  <2>1. made' = Put(made, draft.kind, draft)
    BY <1>2, Zenon
  <2>2. QED
    BY <2>1, Zenon DEF Put
<1>5. /\ draft.feature = FeatureOf(draft.kind) /\ draft.links \subseteq DOMAIN written
      /\ draft.kind = "specification" => draft.links = {made["idea"].id}
      /\ draft.kind = "review" => draft.links = {made["task"].id}
  BY <1>1, Zenon DEF ChainInv, DraftChain
<1>6. IsFiniteSet(DOMAIN written') /\ IsFiniteSet(DOMAIN store')
  <2>1. IsFiniteSet(DOMAIN written) /\ IsFiniteSet(DOMAIN store)
    BY Zenon DEF ChainInv
  <2>2. IsFiniteSet(DOMAIN written \cup {draft.id}) /\ IsFiniteSet(DOMAIN store \cup {draft.id})
    BY <2>1, FS_AddElement, Zenon
  <2>3. QED
    BY <1>3, <2>2, Zenon
<1>7. WrittenLinks'
  <2> SUFFICES ASSUME NEW i \in DOMAIN written' PROVE written'[i].links \subseteq DOMAIN written'
    BY Zenon DEF WrittenLinks
  <2>1. CASE i = draft.id
    BY <1>3, <1>5, <2>1, Zenon
  <2>2. CASE i # draft.id
    BY <1>3, <2>2, Zenon DEF ChainInv, WrittenLinks
  <2>3. QED
    BY <2>1, <2>2, Zenon
<1>8. ASSUME NEW k \in DOMAIN made'
      PROVE  /\ made'[k].kind = k /\ made'[k].feature = FeatureOf(k)'
             /\ made'[k].id \in DOMAIN written' /\ written'[made'[k].id] = made'[k]
  <2>1. FeatureOf(k)' = FeatureOf(k)
    BY <1>2, Zenon DEF FeatureOf
  <2>2. CASE k = draft.kind
    BY <1>3, <1>4, <1>5, <2>1, <2>2, Zenon
  <2>3. CASE k # draft.kind
    <3>1. k \in DOMAIN made /\ made'[k] = made[k]
      BY <1>4, <2>3, Zenon
    <3>2. /\ made[k].kind = k /\ made[k].feature = FeatureOf(k)
          /\ made[k].id \in DOMAIN written /\ written[made[k].id] = made[k]
      BY <1>1, <3>1, Zenon DEF ChainInv, MadeChain, InRun
    <3>3. made[k].id[1] = k
      BY <1>1, <3>1, Zenon DEF ResultInv, InRun
    <3>4. made[k].id # draft.id
      BY <1>1, <2>3, <3>3, Zenon
    <3>5. QED
      BY <1>3, <2>1, <3>1, <3>2, <3>4, ZenonT(40)
  <2>4. QED
    BY <2>2, <2>3, Zenon
<1>9. stage \in {1, 2, 3, 4, 5, 6, 7}
  BY <1>1
<1>10. /\ draft.kind = "specification" => stage = 2
       /\ draft.kind = "review" => stage = 7
       /\ draft.kind = "idea" => stage = 1
  BY <1>1, <1>9, StageFacts, Zenon
<1>11. /\ stage > 1 => "idea" \in DOMAIN made
       /\ stage > 5 => "task" \in DOMAIN made
  <2>1. \A i \in 1..7 : i < stage => Stages[i] \in DOMAIN made
    BY <1>1, Zenon DEF IInv, RunInv
  <2>2. QED
    BY <1>9, <2>1, StageFacts
<1>12. ASSUME "specification" \in DOMAIN made'
       PROVE  stage' >= 3 /\ made'["specification"].links = {made'["idea"].id}
  <2>1. CASE draft.kind = "specification"
    <3>1. stage' = 3 /\ "idea" \in DOMAIN made
      BY <1>2, <1>10, <1>11, <2>1
    <3>2. made'["idea"] = made["idea"]
      BY <1>4, <2>1, <3>1, Zenon
    <3>3. made'["specification"] = draft /\ draft.links = {made["idea"].id}
      BY <1>4, <1>5, <2>1, Zenon
    <3>4. stage' >= 3
      BY <3>1
    <3>5. QED
      BY <3>2, <3>3, <3>4, Zenon
  <2>2. CASE draft.kind # "specification"
    <3>1. "specification" \in DOMAIN made /\ made'["specification"] = made["specification"]
      BY <1>4, <1>12, <2>2, Zenon
    <3>2. stage >= 3 /\ made["specification"].links = {made["idea"].id}
      BY <1>1, <3>1, Zenon DEF ChainInv, MadeChain, InRun
    <3>3. stage' >= 3 /\ draft.kind # "idea" /\ "idea" \in DOMAIN made
      BY <1>2, <1>9, <1>10, <1>11, <3>2
    <3>4. made'["idea"] = made["idea"]
      BY <1>4, <3>3, Zenon
    <3>5. QED
      BY <3>1, <3>2, <3>3, <3>4, Zenon
  <2>3. QED
    BY <2>1, <2>2, Zenon
<1>13. ASSUME "review" \in DOMAIN made'
       PROVE  made'["review"].links = {made'["task"].id}
  <2>1. "review" \notin DOMAIN made
    <3>1. stage # 8
      BY <1>9
    <3>2. QED
      BY <1>1, <3>1, Zenon DEF ResultInv, InRun
  <2>2. draft.kind = "review"
    BY <1>4, <1>13, <2>1, Zenon
  <2>3. "task" \in DOMAIN made
    BY <1>10, <1>11, <2>2
  <2>4. made'["task"] = made["task"]
    BY <1>4, <2>2, <2>3, Zenon
  <2>5. QED
    BY <1>4, <1>5, <2>2, <2>4, Zenon
<1>14. MadeChain'
  BY <1>8, <1>12, <1>13, Zenon DEF MadeChain
<1>15. DraftChain'
  BY <1>2, Zenon DEF DraftChain
<1>16. QED
  BY <1>6, <1>7, <1>14, <1>15, Zenon DEF ChainInv

\* Every step keeps the chain.
LEMMA NextChain == IInv /\ ResultInv /\ ChainInv /\ [Next]_vars => ChainInv'
<1> SUFFICES ASSUME IInv, ResultInv, ChainInv, [Next]_vars PROVE ChainInv'
  OBVIOUS
<1>1. CASE UNCHANGED vars
  <2>1. UNCHANGED <<feature, written, store, made, stage, draft, status>>
    BY <1>1, Zenon DEF vars
  <2>2. MadeChain'
    BY <2>1, MadeKept, Zenon DEF ChainInv, InRun
  <2>3. DraftChain'
    BY <2>1, Zenon DEF ChainInv, DraftChain, FeatureOf
  <2>4. QED
    BY <2>1, <2>2, <2>3, Zenon DEF ChainInv, WrittenLinks
<1>2. CASE SkillFails \/ PersistFails
  <2>1. status' = "failed" /\ draft' = NoDoc /\ written' = written
    BY <1>2, Zenon DEF SkillFails, PersistFails, Raise
  <2>2. DOMAIN store' = DOMAIN store \/ DOMAIN store' = DOMAIN store \cup {draft.id}
    <3>1. \/ store' = store
          \/ \E e \in {Torn, draft} : store' = Put(store, draft.id, e)
      BY <1>2, Zenon DEF SkillFails, PersistFails, Stored
    <3>2. \A e : DOMAIN Put(store, draft.id, e) = DOMAIN store \cup {draft.id}
      BY Zenon DEF Put
    <3>3. QED
      BY <3>1, <3>2, Zenon
  <2>3. IsFiniteSet(DOMAIN store')
    BY <2>2, FS_AddElement, Zenon DEF ChainInv
  <2>4. MadeChain' /\ DraftChain'
    BY <2>1, Zenon DEF MadeChain, InRun, DraftChain
  <2>5. QED
    BY <2>1, <2>3, <2>4, Zenon DEF ChainInv, WrittenLinks
<1>3. CASE Return
  <2>1. /\ UNCHANGED <<feature, written, store, made, stage, draft>>
        /\ status = "running"
    BY <1>3, Zenon DEF Return
  <2>2. MadeChain'
    BY <2>1, MadeKept, Zenon DEF ChainInv, InRun
  <2>3. DraftChain'
    BY <2>1, Zenon DEF ChainInv, DraftChain, FeatureOf
  <2>4. QED
    BY <2>1, <2>2, <2>3, Zenon DEF ChainInv, WrittenLinks
<1>4. QED
  BY <1>1, <1>2, <1>3, BeginChain, DraftChained, PersistChain, Zenon DEF Next, Progress

LEMMA UnionWithin ==
  ASSUME NEW T, NEW S, \A l \in T : l \subseteq S
  PROVE  (UNION T) \ S = {}
BY Zenon

LEMMA NoneDangle ==
  ASSUME NEW ix, NEW f, \A i \in Selected(ix, f) : ix[i].links \subseteq DOMAIN ix
  PROVE  Dangling(ix, f) = {}
<1> DEFINE T == {ix[i].links : i \in Selected(ix, f)}
<1>1. \A l \in T : l \subseteq DOMAIN ix
  BY Zenon
<1>2. Dangling(ix, f) = (UNION T) \ DOMAIN ix
  BY Zenon DEF Dangling
<1> HIDE DEF T
<1>3. QED
  BY <1>1, <1>2, UnionWithin, Zenon

\* An index that holds what a run made, and whose links resolve, has a
\* complete trace.
LEMMA TraceOf ==
  ASSUME NEW ix, IsFiniteSet(DOMAIN ix), Kinds \subseteq DOMAIN made,
         \A k \in Kinds : /\ made[k].id \in DOMAIN ix /\ ix[made[k].id] = made[k]
                          /\ made[k].kind = k /\ made[k].feature = FeatureOf(k),
         made["specification"].links = {made["idea"].id},
         made["review"].links = {made["task"].id},
         \A i \in DOMAIN ix : ix[i].links \subseteq DOMAIN ix
  PROVE  TraceComplete(ix, feature)
<1> DEFINE sel  == Selected(ix, feature)
           seed == Seeds(ix, feature)
<1>1. DOMAIN ix # {}
  BY StageFacts, Zenon
<1>2. seed \subseteq sel /\ Neighbours(ix, seed) \subseteq sel /\ sel \subseteq DOMAIN ix
  BY <1>1, SelectedFacts, Zenon
<1>3. \A k \in Kinds : k \notin {"idea", "review"} => made[k].id \in seed
  BY ZenonT(40) DEF FeatureOf, Seeds
<1> HIDE DEF sel, seed
<1>4. made["idea"].id \in sel
  <2>1. made["specification"].id \in seed
    BY <1>3, StageFacts
  <2>2. made["idea"].id \in ix[made["specification"].id].links /\ made["idea"].id \in DOMAIN ix
    BY StageFacts, Zenon
  <2>3. QED
    BY <1>2, <2>1, <2>2, Zenon DEF Neighbours
<1>5. made["review"].id \in sel
  <2>1. made["task"].id \in seed
    BY <1>3, StageFacts, Zenon
  <2>2. made["task"].id \in ix[made["review"].id].links /\ made["review"].id \in DOMAIN ix
    BY StageFacts, Zenon
  <2>3. QED
    BY <1>2, <2>1, <2>2, Zenon DEF Neighbours
<1>6. \A k \in Kinds : made[k].id \in sel
  BY <1>2, <1>3, <1>4, <1>5, Zenon
<1>7. ASSUME NEW k \in Kinds PROVE \E i \in sel : ix[i].kind = k
  <2>1. made[k].id \in sel /\ ix[made[k].id] = made[k] /\ made[k].kind = k
    BY <1>6, Zenon
  <2>2. QED
    BY <2>1, ZenonT(40)
<1>8. \A i \in sel : ix[i].links \subseteq DOMAIN ix
  BY <1>2, Zenon
<1>9. CHAIN_ORDER \subseteq {ix[i].kind : i \in sel}
  BY <1>7, Zenon DEF CHAIN_ORDER
<1>10. Dangling(ix, feature) = {}
  BY <1>8, NoneDangle, Zenon DEF sel
<1>11. QED
  BY <1>9, <1>10, Zenon DEF TraceComplete, sel

\* ChainIsTraceable for any features and ideas and any number of runs, failed
\* ones before it included: the audit of a run that returns finds all seven
\* kinds and no dangling link.
THEOREM ChainsAreTraceable == Spec => []ChainIsTraceable
<1>1. Init => ResultInv /\ ChainInv
  <2> SUFFICES ASSUME Init PROVE ResultInv /\ ChainInv
    OBVIOUS
  <2>1. DOMAIN store = {} /\ DOMAIN made = {} /\ DOMAIN written = {} /\ draft = NoDoc
    BY DEF Init
  <2>2. status = "new"
    BY Zenon DEF Init
  <2>3. ResultInv
    BY <2>1, <2>2, Zenon DEF ResultInv, InRun
  <2>4. ChainInv
    BY <2>1, FS_EmptySet, Zenon DEF ChainInv, WrittenLinks, DraftChain, MadeChain
  <2>5. QED
    BY <2>3, <2>4, Zenon
<1>2. ASSUME IInv, ResultInv, ChainInv, status = "returned"
      PROVE  /\ TraceComplete(written, feature)
             /\ (\A i \in DOMAIN store : Readable(i)) => TraceComplete(store, feature)
  <2>1. \A i \in 1..7 : Stages[i] \in DOMAIN made
    BY <1>2 DEF IInv, RunInv
  <2>2. Kinds \subseteq DOMAIN made
    BY <2>1, StageFacts DEF Kinds
  <2>3. "specification" \in Kinds /\ "review" \in Kinds
    BY StageFacts, Zenon
  <2>4. InRun
    BY <1>2, Zenon DEF InRun
  <2>5. /\ \A k \in Kinds : /\ made[k].kind = k /\ made[k].feature = FeatureOf(k)
                            /\ made[k].id \in DOMAIN written /\ written[made[k].id] = made[k]
        /\ made["specification"].links = {made["idea"].id}
        /\ made["review"].links = {made["task"].id}
    BY <1>2, <2>2, <2>3, <2>4, Zenon DEF ChainInv, MadeChain
  <2>6. \A k \in Kinds : made[k].id \in DOMAIN store /\ store[made[k].id] = made[k]
    BY <1>2, <2>2, <2>4, Zenon DEF IInv, LinkInv, ResultInv
  <2>7. TraceComplete(written, feature)
    <3>1. IsFiniteSet(DOMAIN written) /\ \A i \in DOMAIN written : written[i].links \subseteq DOMAIN written
      BY <1>2, Zenon DEF ChainInv, WrittenLinks
    <3>2. QED
      BY <2>2, <2>5, <3>1, TraceOf, Zenon
  <2>8. ASSUME \A i \in DOMAIN store : Readable(i) PROVE TraceComplete(store, feature)
    <3>1. IsFiniteSet(DOMAIN store) /\ \A i \in DOMAIN store : store[i].links \subseteq DOMAIN store
      BY <1>2, <2>8, Zenon DEF ChainInv, IInv, LinkInv, LinksResolve
    <3>2. QED
      BY <2>2, <2>5, <2>6, <3>1, TraceOf, Zenon
  <2>9. QED
    BY <2>7, <2>8, Zenon
<1>3. IInv /\ ResultInv /\ ChainInv => ChainIsTraceable
  BY <1>2, Zenon DEF ChainIsTraceable
<1>4. QED
  BY <1>1, <1>3, NextResult, NextChain, Invariance, PTL DEF Spec
=============================================================================
