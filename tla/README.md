# Formal models of the Secure Agentic SDLC platform

TLA+ models of the two halves of this repository:

- the **reference application** (`apps/`, Go): an HTTP gateway, a request service
  with a transactional outbox on Postgres, a publisher that moves the outbox to NATS
  JetStream, and a worker that applies the events;
- the **control plane** (`control-plane/`, Python, with the Rego rules of
  `policies/`): the single door through which an agent uses tools, the agent pipeline
  from idea to review, the gates between an artifact and a release, and the tool that
  opens pull requests.

TLC checks every module on small instances. Every safety property that a passing run checks,
invariant, action property or refinement, is also a theorem that TLAPS proves for every value
of the constants; liveness stays with TLC.

Contents: [inventory](#inventory), [modules and code](#modules-and-code),
[runs](#runs), [bounds](#bounds), [fairness](#fairness), [proofs](#proofs),
[disagreements with the documentation](#disagreements-with-the-documentation),
[not modelled](#not-modelled), [plan](#plan), [how to run](#how-to-run).

## Inventory

| Part | State | Operations | What is hard about it | What has to hold |
|---|---|---|---|---|
| Domain service (`apps/domain`) | table `requests`, table `outbox` | CreateRequest, UpdateRequestStatus, GetRequest, ListRequests | calls run concurrently; a status is read, checked and written in separate steps; COMMIT may succeed unheard; restarts | row and event appear together; creation first; announced steps are legal; only legal transitions |
| Publisher (`apps/publisher`) | `outbox.published_at`, the stream | start-up, PublishBatch on a ticker | publish and mark are two calls, each of which may fail or succeed unheard; rows commit late; types without a route; a start that finds the stream or has to create it | nothing marked that is not stored; copies only from faults; published in the order of time; everything is published |
| Worker (`apps/worker`) | table `processed_events`, effects | start-up, the subscription's callback | redelivery, duplicates, invalid messages, a stop between record and effect; a start before the stream exists | at most one effect; acknowledgement after record; losses only from faults; valid messages get through |
| Gateway (`apps/gateway`) | none of its own | four HTTP handlers | two layers validate; one error code for several outcomes; two stores | the status code tells what happened; users see their own requests; the stores agree |
| Tool door (`cli.py`, `mcp/`, `runner/`, `policy/client.py`, `evidence/`) | runs, tokens, evidence files | a line of JSON-RPC; start, finish, issue | tokens outlive runs; time passes while the policy service is asked; tools fail after their effect; truncating writes; restarts | effects only behind all gates; answers tell effects; evidence is kept |
| Agent pipeline (`pipeline/`, `skills/`, `traceability.py`) | counters, written documents, artifact store | `Pipeline.run`, seven stages | runs end half way; ids are handed out again over the same store | links resolve; result equals store; the chain is traceable |
| Transition gate (`artifact_transition.rego`, `waiver/`) | statuses, findings, waivers | transition, waiver | waivers expire between steps and are judged twice, in two languages, with two readings of a timestamp | the judges agree; no advance over findings; ends are final |
| Release gate (`deploy_verify/`, `pre_deployment.rego`) | two files of an output directory | `sdlc deploy-verify` | the files are overwritten one after the other, over those of earlier calls; a call dies anywhere; the policy service fails | exit code 0 is backed; the files belong together; an allow on disk was given |
| open_pr (`tools/vcs.py`) | workspace, index, its lock, branches, remote, pull requests | one tool call of five steps | each step fails before or after its work, and is retried; a killed git leaves its lock | a call that returned has published; repeating it changes nothing; a retry gets at least as far |

How the parts interact. A client's HTTP request becomes one gRPC call; the domain
service commits the change and its event in one transaction; the publisher reads the
outbox and stores messages in JetStream; JetStream delivers to the worker until it is
acknowledged. In the control plane, an agent's line reaches the executor, which asks the
policy service (OPA), checks the capability token against the run registry, calls the
tool, and stores the evidence. The agent pipeline uses the same executor to write its
artifacts. The transition gate and the release gate are queries to the same policy
service; `open_pr` is one of the tools.

## Modules and code

The mapping of every definition to its source lines is in `PROJECT.json` (`map`). Names
follow the source where TLA+ allows it.

**`DomainService`** models `service.go` and `postgres.go`. `status` and `outbox` are the
tables. A call is a sequence of steps of a handler: `CreateRequest` (validation and
clock), `LoadRequest` (validation, the read of the row, the lifecycle check),
`StampUpdate` (`s.now()`), then `Persist` or `PersistFails`, the transaction. `Persist`
may answer `Internal` although it committed. `Restart` drops the calls in flight. The
UUID of an event is its position in the outbox.

**`OutboxPublisher`** models `poller.go`, its Postgres store and `nats.go`. `Fetch`
returns any batch the query may return: rows of the same second come in any order.
`Publish` and `MarkPublished` are separate; `PublishFails` and `MarkFails` may or may not
have taken effect. `Unroutable` ends a batch at a row without a route. The process begins
with `AddStream`, which creates the stream or finds it, and comes back to it after
`StartFails` or `Restart` (`restart: unless-stopped` in `infra/staging`).

**`Worker`** models `handler.go`, its dedupe table and the callback of `main.go`.
JetStream is external: it delivers every message that is stored on the subscribed
subject and not acknowledged, again and again. The callback runs on one message at a
time, as the client library runs it. `Subscribe` at start-up succeeds only when the stream
exists; otherwise the process exits and is started again.

**`EventDelivery`** is the abstract specification: what ADR-0003 promises, in four
actions. **`RequestPipeline`** composes domain service, publisher and worker, which meet
in `outbox` and `stream` and start in any order, and maps them to `EventDelivery`: what is committed is the
outbox, what is published is the stream, what is settled is `published_at`, the effects
are the worker's.

**`Gateway`** puts `server.go` in front of the actions of `DomainService` and adds the
two reads. `MemoryList` and `PostgresList` are the two implementations of the list query,
one written as filter, sort and cut, the other as a rank in the matching rows.

**`ToolExecution`** models `serve_stdio`, `inject_capability`, `MCPServer._call`,
`RunnerExecutor.execute`, `RunRegistry`, `PolicyClient.evaluate`, `pre_tool_call.rego` and
`EvidenceStore.put`. A line goes through the phases `policy`, `handler` and `record`; the
clock, a fault or a restart can fall between them. The embedding platform starts and
finishes runs and issues tokens between lines. The chain of gates is `PolicyDecision`,
`Check` and `Gate`, in the order of the code.

**`SdlcPipeline`** models `Pipeline.run` with its skills and `_persist`, on one or several
`Pipeline` objects over one `ArtifactStore`, and `trace_feature`. A stage's gates and the
model's answer are one nondeterministic outcome. Documents keep what the properties look
at: id, kind, feature, links, the risks, the verdict, the task's digest (represented by
the document itself).

**`Governance`** models `artifact_transition.rego` and `waiver/enforcement.py`: statuses
change when the gate raises no objection to the findings and waivers of that moment. Rules
that are sets of deny reasons in Rego are sets here. A waiver's expiry has one of three
formats: RFC 3339, one that only Python's `fromisoformat` reads, or none that either does.

**`ReleaseGate`** models `sdlc deploy-verify`: `Load` (reading and validating the
candidate), `Evaluate` (`verify_release` with the rules of `pre_deployment.rego` and the
fail-closed policy client), `WriteBundle`, `WriteDecision`, `Return`; `Cut` is a kill or a
failing write at any of them, which leaves the file it hit old or torn. A digest is the
document it is taken from. The two documents name each other by ids that default to the
same constants in every call, and are left out.

**`PullRequest`** models `OpenPRTool.__call__` over git and GitHub (external): switch,
add, commit, push, open. `Raise` is a step that is refused, or that fails before or after
its work; a git that is killed may leave `index.lock`, which stops later calls at their
first step that needs the index until someone removes it. Files are versions; a branch is
the tree at its tip. Nobody else pushes to the branches or closes their pull requests.
Paths name files, and none is deleted: the agent has no tool that does.

`MC…` modules give the constants their values; `…Proofs` modules hold the theorems.
`GovernanceProofs` holds those of the two gates, `ToolProofs` those of the tool door and of
`open_pr`; the other proof modules are named after what they prove about.

## Runs

| Run | Shows | Distinct states |
|---|---|---|
| `DomainConcurrent` | With two concurrent calls, failures and restarts: table and outbox agree, creations come first, every announced change is a legal step from a status the request had. | 74,884 |
| `DomainRace` | *Violation.* Two concurrent changes lead to a transition the lifecycle does not have. | – |
| `Publisher` | No event is forgotten, copies are bounded by faults, events are published in the order of time, and every row is published unless an unroutable row stands before it, through failing starts. | 263,058 |
| `WorkerDelivery` | At most one effect, acknowledgement after record, losses bounded by faults, and every valid message is acknowledged in spite of invalid ones and of starts before the stream exists. | 78,027 |
| `WorkerExactlyOnce` | *Violation.* A stop between record and effect loses the effect. | – |
| `Pipeline` | The composition implements `EventDelivery`, each service sees the environment its module assumes, and every committed creation takes effect unless the worker fails, in whatever order the services start. | 69,438 |
| `GatewayHttp` | Status codes tell what happened, the two validations agree, users see only their own, the two stores answer alike. | 26,764 |
| `ToolDoor` | Effects only behind all gates and for active runs, answers tell effects, evidence is lost only to faults. | 587,866 |
| `SdlcRuns` | Over failed, repeated and re-created pipelines: links resolve, results are what is stored, chains are traceable, verdicts match the threats. | 46,370 |
| `GovernanceGates` | The two judges of waivers agree, nothing advances over findings, ends are final. Exit code 0 of a release verification is backed by the policy and both documents, the documents belong together, allows were given, and the items of a bundle decide the verdict. | 91,929 |
| `GovernanceSuperseded` | *Violation.* A superseded plan can be moved to any known status. | – |
| `PullRequests` | A call that returned is published, repeating it changes nothing, a retry gets at least as far as the call it repeats, and foreign files on a branch have one of two causes. | 4,979,367 |

Each property of a passing run has a mutant in `PROJECT.json`: a plausible bug in one
definition (a dropped guard, a swapped order, an ignored error) under which TLC finds
that property violated. The mutated definitions stand in the modules beside what they
mutate and nothing else uses them.

Some results deserve a remark:

- `PreviousStatusWasReal` holds although `OnlyLegalTransitions` does not: each announced
  step is legal by itself, and it is their succession that may not be.
- `AnswersTellTheTruth`: only a 502 leaves open whether the change happened. A client
  that repeats a creation after a 502 may create a second request; the interface has no
  key that would identify the first.
- `EvidenceLossNeedsFault` allows one torn payload per fault: because a payload's file is
  keyed by its digest and truncated before it is written, an interrupted write can
  damage the evidence of an earlier, equal call.
- `EffectsWereGated` says nothing of the run a call is recorded under: `execute` does not
  compare its `run_id` with the token's run.
- `VerdictMatchesThreats` compares a review with the threat model of its own run only:
  a new `Pipeline` hands out the same ids and may overwrite the threat model an older
  review refers to.
- `WaiverJudgesAgree` speaks of properly written waivers, since the policy looks at neither
  creator nor approver, and is an equivalence only if expiries are in RFC 3339: the schema's
  `date-time` format is not enforced (`validate_document` passes no format checker), and a
  bare date is a waiver to Python and none to the policy.
- `PairsMatch` has an exception because the code has one: after a stop between the two
  writes the bundle of one candidate lies beside the decision on another, under ids that do
  not tell them apart, until a call writes both again.
- `ZeroIsBacked` is about the candidate that was read. Whether the decisions it quotes were
  taken is checked nowhere; `docs/limitations.md` says so for `pr-ci`.
- `ForeignFilesNeedCause`: both causes are real. Without either of them in the
  hypothesis TLC finds a violation.

## Bounds

Bounds are constants named `Max…`, and appear in guards only.

- Two concurrent handlers and two requests: the race of status changes needs two
  handlers on one request; a second request shows that calls do not mix. Four commits are
  a creation and three changes, or two requests with one change each.
- Two clock readings: equal and different. Four rows and batches of two: a batch that is
  full, one that is not, and a row that is inserted while a batch is worked off.
- Two faults in publisher and worker: a fault and another during its repair. In the
  composition one each, so that both happen in one behaviour.
- The worker's messages: two creations, either of them several times, one message of the
  other subject, one without id and one of an unsupported type.
- Gateway: a title limit of one rune and a list limit of two rows have every boundary on
  both sides (blank, at the limit, above it, above it only before trimming).
- Tool door: a line that follows another, a second run, one token held by a caller, a
  lifetime `TTL` of zero with two clock readings (valid at its last moment, expired after
  it), one fault. Tools: one of each scope, one allowed by the policy and not
  registered, one unknown.
- Agent pipeline: two runs on the same or on another object, two features, threat models
  of every disposition the schema lets through.
- Governance: two artifacts (one of a type without a lifecycle), one risk and one waiver; the rules quantify over findings and
  waivers one at a time. The waiver's authors cover every rule of `validate_waiver`.
- Release gate: ten candidates, one that passes and others that each miss something, and
  two calls cut short, the second over what the first left. The two gates share no state,
  and `GovernanceGates` explores each with the other at rest.
- Pull requests: two branches and two files, which a carried-over or foreign file needs;
  two further versions of a file; one transient failure.

`DomainConcurrent` uses symmetry of requests and of handlers: they are model values, no
definition orders them, and the run checks no liveness.

Deadlock is checked where the system cannot stop (`DomainConcurrent`, `DomainRace`,
`GatewayHttp`, `GovernanceGates`, `GovernanceSuperseded`, `PullRequests`). In the other
runs a behaviour ends when a bound is used up: everything is published, or all lines are
served.

## Fairness

- Publisher: weak fairness of `Poll`, start-up included. A process that exits is started
  again (`restart: unless-stopped`), the ticker of `main.go` fires for ever, an error
  only ends the batch, and the calls return. Faults are bounded, so that a call succeeds
  eventually.
- Worker: weak fairness of `Subscribe` (the restart again), of each delivery (JetStream
  redelivers what is not acknowledged) and of the callback's steps; strong fairness of starting the callback on a buffered
  message, since the client's queue is first in, first out and an invalid message that is
  redelivered for ever cannot keep others from their turn.
- Composition: both of these. Nothing is assumed of the domain service or its clients.

The other runs check safety only and assume no fairness. Nothing is claimed of
when a tool call or a run of the agent pipeline comes to its end.

## Proofs

All proofs are for arbitrary constants under the assumptions named in the modules
(`DomainAssumption`, `PublisherAssumption`, `WorkerAssumption`, `PipelineAssumption`,
`GatewayAssumption`, `ToolAssumption`, `PullRequestAssumption`, `ReleaseAssumption`,
`GovernanceAssumption`, `IdeaAssumption`): bounds and clock readings are natural numbers,
batches are not empty, the bridge's run is a run and registered tools have one of the two
scopes, ideas have ids of their own prefix, the base branch is no feature branch, the order of
request ids is a sequence of requests, callers have a subject that is not empty, the decisions
and approvals of a candidate are lists, and values that stand for "nothing" are no events or
documents. The sets of requests, handlers, callers, runs, tools, branches, files, artifacts,
waivers, candidates and documents may be of any size (the gateway's requests finitely many,
since its list queries order them).

**`DomainServiceProofs`**: `TypeCorrect`, `TableAndOutboxAgree`, `CreationComesFirst`,
`AnnouncedStepsAreLegal`. The invariants are not inductive by themselves: a commit writes
what a handler prepared earlier. `IInv` adds `CallsInFlight`, what a prepared event still
guarantees when its time comes. A prepared creation has an id no row and no other call
has; a prepared change belongs to an existing row, is a legal step, and starts from a
status that some committed event announced. That last fact is what survives a stale read:
the row's status may have moved on, the event that announced the old one is still there.
`Persist` is the one step that changes tables and takes most of the proof.

**`OutboxPublisherProofs`**: `NoEventForgotten`, `EventsInOrder`, `CopiesNeedFaults`.
`IInv` speaks of the rows *done*: those marked and the one just published. What is done
is stored; the rest of the batch is unmarked, sorted, and no younger than any row its
fetch left out. The count needs a second invariant, `CopiesInv`: messages are at most the
rows done plus the faults. A successful publication adds one to both sides; a failure may
add a message or take a row back from *done*, never both, and pays with a fault.

**`WorkerProofs`**: `TypeCorrect`, `NoEventAppliedTwice`, `AcknowledgedAfterRecord`,
`LossesNeedFaults`. `IInv` adds that applied events are recorded and that an event about
to be applied was never applied: the insert found its id to be new. Losses are counted
like copies.

**`RequestPipelineProofs`**: `PublisherEnvironment`, `WorkerEnvironment`,
`PipelineDelivers`. The proof goes along the flow. The composition is a behaviour of the
domain service, so its invariant holds; by it, whatever the domain service does to the
outbox is an `Insert` of the publisher's module, so the publisher's invariants hold; by
those, whatever the publisher does to the stream is a `Store` of a message the worker's
module knows and has room for, so the worker's invariant holds. With the three invariants
each step is a step of `EventDelivery` or a stutter. The instances of the proof modules
repeat the definitions of the component modules; the lemmas `Same…` identify them.

**`GatewayProofs`**: `AnswersAreTrue`, `ChecksAgree`, `OwnRequestsOnly`, `StoresAlike`.
`GatewayInv` follows a call from the HTTP request to the answer. `ReplyInv`: a call in flight
belongs to a request that waits and has written nothing, and once it has returned, its code
tells whether it wrote, `Internal` alone leaving that open; `domainError` turns this into
`HonestInv`, what the status code says. `CreationInv`: the row of a creation in flight is still
to come and no other call is about it, so that a commit changes no row that somebody was shown.
`ShownInv`: what was shown are rows, and to a user rows of theirs; owners of rows never
change. `ChecksAgree` rests on the lemma `PayloadAccepted`: a title that passes the gateway's length
check passes the domain's, which trims first. `StoresAlike` is about the query alone: the rows
at ranks one to the limit are the first ones of the sorted list, because no two ids have the
same place in the order.

**`ToolProofs`**, the tool door: `OnlyGatedEffects`, `QuietAfterFinish`, `TrueAnswers`,
`EvidenceIsKept`. `IInv` carries what the gates established (`Gated`) from the moment they
are passed to the end of the call, and says that nothing but a handler produces an effect or
one of the three codes of a handler. That the token's run is still active when the tool runs
holds because runs are finished between lines and a restart drops the call. Evidence: a
payload is one file or none, so each fault adds one torn file at most.

**`ToolProofs`**, `open_pr`: `ReturnPublishes`, `RepeatIsQuiet`, `RetriesGetAsFar`,
`ForeignFilesExplained`. The history variable `reached` is the farthest step any attempt of
the present call completed, and `DoneInv` says what each completed step leaves behind that
later steps, failures and repetitions do not undo: the branch is checked out, the paths are
staged as they are in the workspace, the index is the tip, the remote branch is the tip, the
pull request exists. A call that returned satisfies all five, which is `ReturnedIsPublished`;
every step of its repetition finds its work done, which is `RepeatChangesNothing`; and no step
that is done meets a reason to be refused, which is `RetryGetsAsFar`. Foreign files need
`StagedInv`: as long as nothing failed, nothing is staged but the paths of the call that is
about to commit.

**`SdlcPipelineProofs`**: `NoDanglingLinks`, `ResultsAreStored`, `VerdictsMatch`,
`ChainsAreTraceable`, each on top of the ones before. `IInv`: the stages before the current one
have their documents, these are in the store, and ids never leave the store. `ResultInv`: in a
run that has not failed the store holds what was made, because ids of different kinds differ
and a run makes one document of each. `VerdictInv`: documents bear the number of their run, and
the running run has no security review before its stage, so that its threat model replaces none
a review of this run has judged. `ChainInv`: the documents a run made bear its feature, link to
what they were made from, and are what was written under their ids; the two without a feature,
idea and review, are linked with the specification and the task, which have it. The audit
follows links in rounds, one per document. What it computes needs induction, here in the form that every
set of natural numbers with a member has a least one (`Least`, from the library's theorem on
well-founded relations): `RoundsExist` shows that the recursive function is defined,
`SelectedFacts` that it keeps the documents of the feature, takes in their neighbours, and
stays within the documents there are. With this `TraceOf` finds all seven kinds and no dangling link.

**`GovernanceProofs`**, transitions: `JudgesAgree`, `FindingsHold`, `EndsStay`. The invariant is
small (statuses exist, moments are numbers); the work is in the rules, which the lemmas
`Allowed`, `NoWayOut` and `UnexpiredIsActive` read off the deny reasons.

**`GovernanceProofs`**, releases: `BackedZero`, `MatchingPairs`, `GivenAllows`, `ItemsSuffice`.
`ReleaseInv` says what the running call has at hand at each step, and that the files match at
every step but between the two writes, where the bundle is already the new one. `InputSuffices`:
the policy looks at nothing that `build_deployment_input` leaves out. `ItemsSuffice` is about
the lists: equal items mean equal sets of decisions and of approvals, on which every deny
rule depends and on nothing else of them.

Only model-checked: `EveryRowPublished`, `ValidAreAcked` and `CreationsTakeEffect`. They are
liveness under fairness, for which the prover has no rules. The three runs that end in a
counterexample have nothing to prove.

## Disagreements with the documentation

Each is a run that TLC ends with a counterexample, and an entry of `findings`.

- **Status race** (`DomainRace`). `UpdateRequestStatus` checks the lifecycle on a row it
  read outside the transaction, and the `UPDATE` matches on the id alone. One operator
  cancels a request while another triages it: both are checked against `created`, and the
  row goes from `cancelled` to `triaged`. `docs/sequences.md:56` says that a status
  changes only along an allowed transition.
- **Exactly once** (`WorkerExactlyOnce`). The id is recorded before the event is applied.
  After a stop between the two, the redelivery is taken for a duplicate and acknowledged.
  `handler.go:44` and `docs/sequences.md:45` say "exactly once"; the code gives at most
  once, with losses bounded by faults. The present applier only logs.
- **Superseded artifacts** (`GovernanceSuperseded`). The rule for illegal transitions
  ranges over the keys of the lifecycle table; `superseded` is a known status without a
  key, so that every transition from it passes that rule.
  `policies/artifact_transition.rego:19-20` says that illegal transitions are denied.

## Not modelled

- Migrations and configuration of the services.
- Several replicas of publisher or worker: `infra/staging` runs one of each.
- Verification of bearer tokens (`identity.go`): the library's; Gateway takes its result.
- `initialize`, `tools/list`, other CLI commands, the MCP client, JSON-RPC envelopes:
  they change no state.
- The tool `run_tests`, and what `read_file`-like tools return: handlers without a part
  in any property.
- Compression, evidence records, trust tiers, rendering: formatting. The compressed excerpt
  of `process_tool_output` has no reader: `RunnerExecutor._record` keeps the record only, and
  the bridge answers with the tool's whole output, while ADR-0007 and `evidence-model.md`
  describe an excerpt in the model's context. There is no state to model behind it.
- The mutations of `MemoryStore`: the assignments of `Persist` under a lock, used by tests.
- Language models, OPA, Postgres, JetStream, git and GitHub themselves: external, modelled
  by how the code uses them.
- Telemetry, generated gRPC code, JSON schemas, compose files, scripts, CI.

## Plan

The order in which the modules were built: `DomainService`, `OutboxPublisher`, `Worker`,
`EventDelivery` and `RequestPipeline`, the proofs of these; then `Gateway`,
`ToolExecution`, `SdlcPipeline`, `Governance`, `PullRequest`; then start-up in the
asynchronous path, `ReleaseGate`, and the proofs of the control plane; then the proofs about
`Gateway`, `PullRequest`, the items of a bundle and the audit of the chain.

What is left, in order:

1. Composition: `SdlcPipeline` over the gates of `ToolExecution`, and `PullRequest` as the
   handler of a door that restarts.
2. Abstract specification of the tool door (a call is decided once, has its effect at most
   once, and is then recorded), with `ToolExecution` shown to implement it.

## How to run

    tlc -config DomainConcurrent.cfg MCDomainService
    tlapm DomainServiceProofs.tla

`PROJECT.json` lists the module and the configuration of every run. Every passing run
ends within two minutes on two workers; the proofs take less than half an hour, half of it in
`RequestPipelineProofs`.
