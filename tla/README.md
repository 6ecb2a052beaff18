# Formal models of Unity Graph Engineering

TLA+ specifications of the programs of this repository, TLC configurations
that check them on small instances, and TLAPS proofs of what matters most, for
every value of the constants. Source paths are relative to the repository.

## The system and its parts

The repository is a control plane for AI coding agents that work on Unity
projects. It is a set of command line programs, each run once per call, around
one authoritative document, `STATE/current.yaml`, that none of them writes.

| part | state it keeps | operations | talks to |
|---|---|---|---|
| Continuation controller (`Tools/ContinuationController`) | none: projects the state it is given | `evaluate`, `claim`, `spend` | called by the orchestrator |
| Execution orchestrator (`Tools/ExecutionOrchestrator`) | none: hands out tickets and returns writebacks | `prepare`, `finalize` | runs the continuation, memory and Ix controllers as child processes with timeouts; its caller writes the state |
| Layered memory controller (`Tools/LayeredMemoryController`) | `Evidence/raw/*.txt`, `STATE/memory/L0..L3/*.json`, `safe-index.jsonl`, `events.jsonl` | `capture_raw`, `create_atom`, `create_scenario`, `create_candidate`, `retrieve`, `drilldown`, `project`, `promote` | called by the orchestrator and by workers, concurrently |
| Ix adapter (`Tools/IxAdapter`) | none | operations of an external code graph | called by the orchestrator |
| Process runtime (`Tools/CodexProductionAgent/process_runtime.py`) | a child process in a session of its own, two pump threads, two log files | `run_streaming_process` | called by the behaviour adapter for the agent and by the agent for Codex, one call inside the other |
| Codex production agent v1, v2 (`Tools/CodexProductionAgent`) | a workspace before and after a mutation | gate resolution, one Codex run, scope check, evidence | process runtime, behaviour adapter |
| Behaviour evaluation adapter v1, v2 (`Tools/BehaviorEvalAdapter`) | an output directory for the evidence bundle | one run of a production agent, publication of the bundle | Codex production agent |
| UnityAgent hand-off (`Tools/UnityAgentCompatibility`) | none: `unityagent_handoff` in the state | `validate_handoff`, `build_state_patch` | another repository; its patch is part of what `prepare` is handed |
| Unity artifact graph (`packages/.../Editor/Graph`) and its editor window | the graph and the impact result on display | `Scan`, `Analyze` | Unity's asset database |
| Execution policy validator, smoke runners, exporter, policies | none | text checks, scripts, user interface, declarations | |

What is hard here is what happens between the calls. The orchestrator is handed
a copy of the state and returns a patch that somebody applies later, so
several workers, the people who move gates, quota windows and the clock all act
between the copy and the patch. Calls are retried after crashes and after
timeouts that kill a child whose effect is already on disk. What makes the
parts correct:

- control plane: a slice is charged at most once, never without admitted and
  durable evidence, never past the quota, only while the gates are open and the
  worker holds the todo; no accounting of another worker is lost; an executed
  slice that the quota left can pay for is eventually settled;
- memory: evidence is immutable and never lost, what is indexed is what is
  stored, a record never refers to something that is not there, nothing
  internal reaches a profile that may not see it;
- process runtime: one exit story for timeout and exit, no call that hangs;
- agent and adapter: no claim of success without the evidence for it, and
  exactly one bundle published;
- context of a ticket: navigation is optional and its doubts are reported, no
  child outlives the call, and `finalize` accepts what `prepare` has issued;
- artifact graph: what is displayed is the dependency graph of the folder, and
  an impact result belongs to the graph displayed with it and names every asset
  within the limit at its nearest distance.

`PROJECT.json` lists the hazards with their lines.

## Modules

| module | models |
|---|---|
| `Continuation` | the continuation controller, as operators on the state |
| `ControlPlane` | `prepare` and `finalize` with their callers, the store, the evidence admission authority, the clock; extends `Continuation` |
| `SliceLedger` | what the control plane promises of accounting (`policies/execution-orchestration.yaml`), which `ControlPlane` implements |
| `LayeredMemory` | the writing calls of the layered memory controller, file access by file access |
| `MemoryArchive` | what the memory promises (`policies/memory-layering.yaml`), which `LayeredMemory` implements |
| `MemoryReading` | the reading calls of the controller beside the writers; extends `LayeredMemory` |
| `ContextPreparation` | the hand-off adapter; the part of `prepare` that asks memory and Ix for context and judges the source; the Ix adapter's run of ix; what `finalize` asks of the ticket |
| `ProcessRuntime` | `run_streaming_process`: sessions, timeouts, signals, bounded waits |
| `GateResolution` | how an attempt's gates and changed files are judged, as operators |
| `CodexAgent` | the Codex production agent, version 2, with Codex and what it starts; extends `ProcessRuntime`, `GateResolution` |
| `EvaluationRun` | the behaviour evaluation adapter, version 2, around the agent; extends `CodexAgent` |
| `EvaluationContract` | what an evaluation promises to the reader of its output directory, which `EvaluationRun` implements |
| `ArtifactGraph` | the scan, the impact search and the display of the artifact graph window, path by path; extends `GraphDisplay` |
| `GraphDisplay` | what that window promises: one step for a scan, one for a query, with the exact results; `ArtifactGraph` implements it |
| `MCControlPlane`, `MCMemory`, `MCReading`, `MCEvaluation`, `MCEndings`, `MCTools` | small instances |
| `ControlPlaneProofs`, `AccountingProofs`, `MemoryProofs`, `ArchiveProofs`, `ReadingProofs`, `EvaluationProofs`, `PreparationProofs`, `GraphProofs` | theorems |

The control plane calls the memory controller through `capture_raw` and
`create_atom` and sees of it only success, failure, and evidence that is there
after a failure; these are the steps `CaptureRaw` and `CreateAtom` and their
failing variants. `prepare` is split in two: how it comes to a todo and a ticket
is in `ControlPlane`, where other workers matter; what it does in between, which
changes no state and where timers matter, is in `ContextPreparation`. The
evaluation and the artifact graph are programs of their own.

### Continuation

`evaluate` is a sequence of ten gates, of which the first closed one decides,
and then a work lane: the first runnable advancement todo that no other worker
leases. `claim` projects a lease and `spend` a new total. Todos are a sequence,
because the first one that fits is chosen; texts are left out. The lease id is a
random number in the code, so two leases are the same exactly when they have the
same owner and expiry and were not replaced: a lease is the record
`[owner, expires_at]`.

### ControlPlane

Each worker has a phase. `prepare` is `PrepareEvaluate` (the first run of the
controller), `PrepareClaim` (with several workers, a second run at a later time)
and `IssueTicket`; all its other outcomes leave everything as it was and are
`PrepareReturns` or a disabled action. `finalize` is `FinalizeBegin` (every
check before memory is touched), `CaptureRaw`, `CreateAtom`, and one of
`FinalizeReplay`, `FinalizeReprepare`, `FinalizeRefused`, `SpendFails`,
`FinalizeSpend`; its steps are separate because other processes act between them and because a
failure after the first one leaves evidence behind. `snap` is the copy of the
state that was handed over, and the ticket's fingerprint is the state itself.
`WriteClaim`, `WriteFinal` and `WriteRefused` are the caller's writeback.

The number of slots is a field of the slice's result and does not change between
calls. A result without slots, and one that `spend` refuses, end in
`FinalizeRefused`, at every call on the same state; `SpendFails` is a `spend` that
its timeout kills. A patch has three fields here. The others that `finalize` returns,
`memory_projection` among them, enter the fingerprint as well and are left out: in the
code two states are the same less often than here.

The caller and the store are not in the repository. Three constants say what is
assumed of them, so that the assumptions can be seen in the runs and theorems:

- `StoreCompares`: a writeback is applied only to the state it was computed
  from. The code does not ask for this; run `blind_store` shows what happens
  without it.
- `RetiresMarker`: the caller removes an accounted `previous_slice` before new
  work; run `next_slice` shows what happens if it does not.
- `Resubmits`: a worker told to reprepare finalizes the same slice under its new
  ticket, which nothing in the code prevents. The runs and `ChargedOnce` assume
  it does not: an accounted slice could be charged again under that ticket.

`charges` and `windowTotal` are history variables. Bounds: `MaxTime`,
`MaxWindows`, `MaxCrashes`; `SlotCounts` are the slots a result may report.

### LayeredMemory

`raw`, `file`, `index` and `journal` are the files of a workspace: the evidence
itself, one record per layer and id, and the lines of `safe-index.jsonl` and
`events.jsonl`. A call is a process. `CheckRaw`, `CheckExisting`, `CheckMeta`,
`TestRaw`, `PutRaw` and `TestMeta` are the steps of `capture_raw`; `Derive` and
`CheckRecord` those of the three `create` calls, up to the comparison with what
is already stored; `PutRecord`, `ReadIndex`, `AppendIndex`, `AppendEvent` and
`Answer` end them all. One step is one access to a file: the writes are atomic
(a temporary file and `os.replace`), the tests before them are not part of them.
Only `Derive` merges several reads, of the index, the parents and the relations: what
they find is never changed or removed, so that the order of the reads is not seen.
A refused call ends in `EndCall` and leaves what it has written. `Crash` kills a
call anywhere.

Contents are a model value, the digest of a text. Scopes are ranks. A request
that does not say when its record was created gets another time in every call;
`dated` says whether it does.

`Overlaps` is the assumption about callers. `FALSE`: of two calls under way at
one time on one id, one repeats the other, which is what a caller does that
repeats a call its timeout has killed. `TRUE`: anything; run `memory_overlap`
shows what happens then. Bound: `MaxCrashes`.

### MemoryReading

A reader takes no lock: `OpenIndex` reads the index and `ReadListed` one record
it lists at a time; with the personal profile `ScanLayer` reads one folder at a
time; `AnswerRetrieve` selects. `project` is a `retrieve` whose answer is laid out
differently. `Walk` is one record of a `drilldown`, loaded as `LoadedFrom` says,
and `AnswerDrilldown` its end. `ReadFails` is every refusal. Scores and the sizes
of texts are left out: which of the matching records fit is a choice, of which
the best one, if there is one, is part. `known` is history: what the call asks for of
what had been answered ok before it began.

Ids are unique in a layer only, and a record that refers to an id does not say
which layer it means. `EvidenceReached` exempts ids that name records of two
layers, of which a drilldown loads one.

### ContextPreparation

`handoff` is what `AcceptHandoff`, that is `validate_handoff` and
`build_state_patch`, has put into the state. `Begin` compares the profiles;
`SkipMemory`, `AskMemory` and `MemoryAnswers` are the memory projection; `SkipIx`,
`RefuseIx` and `StartAdapter` come before the Ix adapter is run, and
`ArgumentsRejected`, `IxNotRun`, `RunIx`, `IxEnds` and `IxTimesOut` are its ends, of
which `Navigated` is what `prepare` makes. `ChildTimesOut` is a timeout of
`prepare` itself, which kills its child and not what that child has started.
`SourceOutcome` is the source verification with the ticket, `FinalizeAdmits` what
`finalize` asks of it.

Time passes in units of five seconds and never past a timer that is due.
`TimersNest` says what the numbers of the code satisfy and the properties need:
the adapter's query timeout, with the time it takes to start, is below
`prepare`'s timeout for it. The adapter is taken to live until it is killed, and
ix to be one process, which `subprocess.run` kills and reaps (POSIX).

`NavigationIsOptional` exempts a request for Ix that `prepare` refuses itself, and
one with a relation or a target that it passes on unchecked and the adapter's
argument parser rejects: this one does stop `prepare`.

### ArtifactGraph

A path stands for its node, its GUID and its id. `StartScan`, `ScanNext` and
`EndScan` are the scan of a folder, which is an input of it, a step for each path
taken from the queue; `StartQuery`, `SearchNext` and `EndQuery` the impact search;
`graph` and `impact` what the window displays afterwards. `dependencies` is what
Unity's asset database answers, any relation: it may be cyclic, and name an asset
itself. It is the same for all scans of a behaviour: that a display goes stale when
somebody edits the project is not modelled. A path is never a folder, which stands for
the test that leaves folders out of a dependency list.

What the display is compared with walks nothing: `Reached` of `GraphDisplay`, a
recursive function of the number of steps, says what can be reached in that many
steps, `ExactGraph` and `ExactItems` what is to be displayed. In `GraphDisplay` a
scan and a query are one step each; in `ArtifactGraph` all steps of a walk but the
last are stutters of it.

### ProcessRuntime

`proc` and `session` stand for the operating system: a process is unborn,
running, dying (a signal that kills it was sent) or gone, and belongs to the
session of its root. `call` is the progress of each call of
`run_streaming_process`. A call belongs to a process, and stops when that
process is gone. `Begin` starts the root in a session of its own; `WaitEnds` and
`TimeoutFires` are the two ends of the wait; `NothingToTerminate`, `Terminate`,
`Kill`, `Terminated` and `ReapFails` are `_terminate_process_tree` on POSIX, with
`Stubborn` the processes that ignore SIGTERM; `JoinEnds` is the end of the two
bounded joins. Time is not measured: a timeout may fire at any point, so the
outer one may fire before the inner one.

### GateResolution

`ResolvedGates` is the map `by_id`: what the agent reports, overridden by trusted
evidence, completed with required gates nobody speaks of. `ResolveGates` is the
status derived from it, `ScopeError` whether the changed files violate the
request. A scope of paths is the set of the paths under it, with `Elsewhere` for those
that do not exist: an allowed scope under which nothing lies admits nothing, while an
empty one admits everything.

### CodexAgent

`agent` is the progress of `main`, from the preparations (`SetupEnds`,
`SetupFails`) over the run (`RunCodex`), the comparison of the workspace
(`SnapshotAfter`) and the verdict (`CodexTimedOut`, `CodexFailed`,
`ControlModified`, `AnswerRefused`, `AnswerJudged`) to the writes, one at a time
(`AgentWrites`), in the order of `Writes`, of which `agent.written` are done.
`AgentWriteFails` is the way into the `except` clause, from which the evidence
of a failure is written over what is there. `AgentDies` is
the end of an agent that was killed, by the adapter's signal or by anybody else,
with the file it was writing torn or whole.

In `staging`, `response` stands for `response.md` and `context-manifest.yaml`,
`artifact-index` for it and `generated/`, `diff.patch` and `gate-evidence.yaml`:
neither half is tested apart from the other. A torn file is one that was opened,
which empties it, and not written: these files are small, and one write. An
empty `execution-metadata.yaml` is read as none. What Codex and its processes do
to the workspace after the agent is gone is left out, because nobody looks at it.

### EvaluationRun

`adapter` is the progress of the adapter's `main`. `Collect` is one step: it
reads a staging directory that, as `EvidenceSettled` shows, nobody writes to any
more. It completes the bundle after a timeout (`Completed`, `MetadataRead`),
enforces the classification of mutations without changes (`NoopEnforced`) and
computes the envelope. `PublishNext` moves one file, the first in the order of
their names that is left in `adapter.todo`. Each of the three has a failing step:
`RunAgentFails` (a refused request, a fixture that cannot be copied, an agent that
cannot be started), `CollectFails` (a file or git), `PublishFails`, a move of which
nothing has arrived, a part, or the whole of a file that could not be removed at its
source. `git rev-parse`, which runs without a timeout, is taken to end.
`require_production_identity` is a choice made when it matters. What an adapter that was killed leaves behind
is where another one starts: `Leftovers` holds directories with the beginning of
a bundle and with logs of an older run.

`EvaluationContract` knows no processes. `Attempt` maps the call of the agent: it
is open until the call has returned, and what it came to then (`Earned`,
`AnswerCounts`) is settled, because the agent is gone and its own call with it. The verdict is the envelope, the answer the exit of the adapter;
`Collect` is `Judge`, a move of a file `Deliver`, one that fails `BreakOff`, and nearly
every other step is a stutter, a timeout that kills the agent included.

The contract promises what the code keeps, which is less than
`docs/actual-behavior-production-smoke.md:152-153` says. The logs of Codex are not among
`MANAGED_OUTPUT_NAMES`, so those of an older run may lie beside the new bundle; and a
file is delivered when its name has arrived, though a killed agent may have opened it
and not written. `OutputWholeAndNew` states those two lines, and run `stale_output`
finds it violated: an agent that fails before it runs Codex, over a directory with old
logs. With `Leftovers <- Fresh` in that configuration TLC finds the other half violated
too: a file that the agent had opened when the timeout killed it is published empty,
with exit code zero.

## Runs

| run | shows |
|---|---|
| `handshake` | two workers, two todos, two slices of one or two slots in a quota of two, a lease length of 1 in a clock of 0..1, a human gate, a crash: type, accounting, quota, evidence and lease properties, no ticket that cannot be paid, and that `ControlPlane` implements `SliceLedger` |
| `settling` | `SliceSettled` under `FairSpec`, and that no slice is charged again in a new quota window: two workers, one todo, slices of no slot, one or two in a quota of two, a window, a crash, leases that do not run out. Settled is a slice that stays `Accountable`: stale, of one slot, or paid for by the quota left |
| `memory` | two callers, three ids, two contents; captures that contradict each other, an atom that inherits its scope, one with the same id that asks for less and says something else, one with the id of its evidence, a stricter scenario that supersedes; one kill; a reader that retrieves from all layers or with a query from the atoms, or drills down from any id, with and without the personal profile: type, evidence, derivation, index and answers, that `LayeredMemory` implements `MemoryArchive`, and what readers are shown and refused |
| `evaluation` | one evaluation: a mutation or a verification with trusted evidence, four answers of Codex, one path, two gates, Codex and a helper that ignore SIGTERM, failing writes and kills everywhere, three kinds of output directory: no success that is not earned, no infrastructure failure taken for behaviour, no partial bundle answered with zero, no evidence read while it is written, and that `EvaluationRun` implements `EvaluationContract` |
| `endings` | what has to come to an end, in two systems that share nothing, one to a behaviour: `EvaluationEnds` and `AdapterReturns` under the fairness of `EvaluationRun`, with one request and one answer of a Codex that changes nothing; `RetriesSucceed` under the fairness of `LayeredMemory`, with a chain of a capture, an atom and a scenario and two kills |
| `navigation` | two tools that share nothing, one at a time. `prepare`: every source verification without context, and every request for context with one that is good, due or refused, under none or one of the accepted hand-offs; it returns whatever memory and ix do, Ix decides nothing and is not left running, its doubts are reported, and `finalize` admits every ticket. The window: all projects of at most three dependencies among four paths, one of them in a package, with an asset that names itself and a resource that is no asset, and some with ways of two lengths; two folders, three hop limits, scans and queries in any order: the display is exact, and `ArtifactGraph` implements `GraphDisplay` |
| `blind_store`, `next_slice`, `memory_overlap`, `stale_output`, `orphan`, `unbudgeted` | counterexamples: what a document says and the code does not do, see `findings` |

In `memory` only one writer is under way at a time while the reader is
(`OneBesideReader`); before it begins, both are, and nothing is explored after a call
that was shown nothing. What the reader meets is then
whatever two of them left, a kill included, and one that goes on beside it.

The bounds are enough for the cases to happen: two workers are needed to lose
an update, two slices to replace the marker, a slice of two slots to overspend
a quota that has one left, one tick to expire a lease, two slices and one window
for a state to return to earlier content; two callers and one kill for a
repetition to meet what a killed call left behind, three ids for a chain, one
reader because readers change nothing; one helper to hold a pipe or touch the workspace late, two gates for
one that is reported and one that is not, one path to change anything or
nothing; the timeouts of `prepare` and the adapter as they are in the code,
measured in their common divisor; two ways to an asset for the longer one to
be taken first. Each property has a mutant of the code, named in `PROJECT.json`, under
which the same run finds it violated.

`CHECK_DEADLOCK FALSE` because the system may stop: slices run out and the clock
is bounded, requests are answered, an evaluation and a `prepare` are one run.
`settling` and `endings` have no symmetry, as liveness needs. In `settling` the clock is bounded: in unbounded time the endless activity of
others can make one ticket after another stale, but a slice is settled by the
first stale ticket.

Fairness of `FairSpec`: workers go on calling `finalize` until it settles their
slice (the documents tell them to), writebacks are attempted, the authority
judges every slice: weak fairness. `capture_raw`, `create_atom` and `spend` may fail,
and a call repeated for ever succeeds at some time: strong fairness. Nothing is
assumed of `prepare`, of people or of the clock.

Fairness does not settle every slice, and `SliceSettled` says so with `Accountable`.
A slice of more slots than the quota left is refused by `spend` at every call, for a
ticket promises one slot only (`execution_orchestrator.py:928`), one without slots is
invalid, and every slice is refused while `previous_slice` is null (`:777`), which the
schema permits: their workers finalize them until the state changes or they give up.
Without the restriction TLC finds a worker that `FinalizeRefused` sends back for ever.

Fairness of the memory: a call that runs goes on (weak), and whoever wants
something stored asks again as long as it is not answered, which succeeds in
starting a call again and again even if the id is busy in between (strong). A request
of a derived record that carries no time is not repeated with success once its record
is stored, since it is another record each time; `RetriesSucceed` exempts it.

Fairness of the evaluation: a process that was sent a deadly signal ends, a call
of the runtime goes on, the agent goes on once it has come to run Codex, the
adapter goes on, and the inner timer fires while it is waited for. Nothing is
assumed of Codex, of its helper, or of the agent's preparations, which hold an
external command without a timeout. The adapter's own `git rev-parse` has none either
and is assumed to end. Nothing is assumed of the outer timer
either, so that `EvaluationEnds` shows that the inner one is enough;
`AdapterReturns` assumes it in its own statement.

Fairness of `prepare`: it and the adapter take the steps they can take, and time
passes. Nothing is assumed of the memory controller and of ix, which may never
answer; that is what the timeouts are for.

## Proofs

| theorem | assumes |
|---|---|
| `RunsOnlyWhenOpen`, `SelectsCandidate`, `ClaimKeepsLiveLeases` (`ControlPlaneProofs`) | the last one: distinct todo ids, several workers |
| `TypeCorrect` (`ControlPlaneProofs`) | |
| `EvidenceComesFirst`, `ReferencesAreDurable`, `TicketsAreAffordable` (`AccountingProofs`, to `TicketsAreDisjoint`) | |
| `TotalIsSumOfCharges`, `NeverOverspent`, `ChargesAreJustified` | `StoreCompares` |
| `ChargedOnce`, `HandshakeImplementsLedger` | `StoreCompares`, `~Resubmits` |
| `LeasesAreRespected` | `StoreCompares`, distinct todo ids at first |
| `TicketsAreDisjoint` | distinct todo ids at first |
| `MemoryTypeCorrect` (`MemoryProofs`) | |
| `EvidenceStaysIntact`, `DerivationsHold`, `IndexStaysSound`, `AnsweredIsStored`, `MemoryImplementsArchive` (`ArchiveProofs`) | `~Overlaps` |
| `NonPersonalReadsAreCleared`, `AnswersAreLasting`, `RetrieveFindsStored`, `DrilldownReachesEvidence`, `RefusalsAreExplained` (`ReadingProofs`) | `~Overlaps` |
| `EvaluationTypesHold`, `CompletionIsEarned`, `FailuresAreUnobserved`, `ZeroIsPublished`, `CollectedIsSettled`, `EvaluationKeepsContract` (`EvaluationProofs`) | |
| `PreparationTypesHold`, `NavigationDecidesNothing`, `IxIsReaped`, `DoubtsAreReported`, `IssuedTicketsPass` (`PreparationProofs`) | `TimersNest` |
| `GraphIsExact`, `ImpactIsShortest`, `WindowImplementsDisplay`, `WalksAreBounded` (`GraphProofs`) | a finite project, hop limits of at least one |

`TypeOK` is inductive because it says of each phase what that phase relies on.
The others are not, and are proved from a strengthening:

- `EvidenceInv`: a slice being judged, or referred to by a patch, a copy of the
  state or the state, has durable and admitted evidence;
- `TicketInv`: a ticket's state was one under which `evaluate` said run, so its
  gates were open and its quota had a free slot;
- `TotalInv`: a patch carries the total of the copy it was computed from plus
  its slots; with a store that compares, that copy is the state when it is
  applied;
- `OnceInv`: a charged slice is the last one charged to the state, or no copy and
  no ticket from before the charge can match the state again. That is what
  `last_quota_spend_id` is for: without it, a new window brings back the content
  of an earlier state, and the mutant `NoSpendId` shows the slice charged again;
- `LeaseInv`: a pending claim was computed for a lease that was free, expired or
  its own, and what has expired stays expired.

The refinement maps each step of the handshake to a step of `SliceLedger` or a
stutter.

For the memory, what has to be proved is that nobody else writes between the
test for a file and its writing. `CallsInv` says what each phase of a call has
found out and that this holds until it is used: the file of its id is missing or
is what the call is going to write. That is kept because another call on the
same id is a repetition (`Agree`), and because a repetition derives the same
record (`SameDraft`): a record is determined by its request and by parents that
never change (`Grows`). `StoreInv`, the conjunction of the four properties, is
inductive relative to `CallsInv`. The refinement maps the three writes to
`Preserve`, `Describe` and `List`, and every other step to a stutter.

The reader's properties rest on `StoreInv` and on the store only growing (`Grows`
again): a record that was read stays what it is, so that what `ReadInv` says of
each reader (what it has read it may see, what it has yet to read covers what it
still owes) is not disturbed by any writer. That a record refers only to records
of the layer below, and evidence to none, is `Bottom` and `Derivations`.
`RefusalsAreExplained` adds `IndexSound`, by which an entry has its file with its
scope, and `Derivations`, by which what a record refers to is there and no
stricter than the record.

The evaluation is proved from one inductive invariant of three parts, for any
gates, paths, requests, answers, stubborn processes and leftovers. `ProcInv` says
that a call that has returned, or is in its last joins, has collected its root,
which is why nobody writes to the staging directory the adapter collects.
`AgentInv` relates the phase of the agent to what it has decided, how many of its
writes are done (`Progress`) and which files are there and whole (`WrittenWhole`,
`Regression` after a failed write). `AdapterInv` says that the bundle
the adapter holds is justified by what it collected, and how much of it is
published. The three safety properties are part of it, because the envelope is
computed once, in `Collect`, and only kept afterwards. The contract needs two facts
more, `Order`: the adapter calls the agent, publishes with a verdict and ends in
this order; and `OutcomeSettled`: once the adapter's call has returned nothing
that `Earned` or `AnswerCounts` looks at changes, not even when the adapter completes
the staging directory after a timeout.

For `prepare`, the invariant is about time (`Nested`): while ix runs, the time since
the adapter was started is at most `StartUp` more than the age of ix, which is at
most `QueryTimeout`; with `TimersNest` the timer of `prepare` is not due, so that
the adapter always answers and `SourceOutcome` decides. `IssuedTicketsPass` compares
the two judgements of a source, that of `prepare` and that of `finalize`, for every
request.

For the artifact graph, that a walk computes `Reached` is a fact about all numbers
of steps, and the library's induction theorems cannot be used here; `AllNaturals`
proves such facts from the least counterexample instead. `ReachedCloses` is the
pigeonhole: the levels of `Reached` grow with the number of steps, a level that
adds nothing is the last, so that after `Size` steps all that can be reached is
there. `ScanInv` says that a path that was scheduled is pending or has its node and
its edges, so that an empty queue leaves a set that is closed under dependencies,
and that everything scheduled can be reached. `SearchInv` says that distances in
the queue never fall and span one level at most, that each visited path is found at
its level, and that the neighbours of what has left the queue are visited: at the
end, or at the hop limit, the items are `ExactItems`. That the walks get to their end
is `WalksEnd` of `GraphProofs`, which no run checks: what a walk has still to do is
the number of paths it has not met and of those it is to dequeue, and each step makes
that number smaller, since what is appended to the queue was never met before.

Model-checked only: liveness (`SliceSettled`, `RetriesSucceed`, `EvaluationEnds`,
`AdapterReturns`, `PrepareEnds`), which needs fairness and is out of the prover's
reach. Every invariant, action property and refinement of a passing run is proved.
Proved and not checked by a run of their own: `WalksEnd`, and `ZeroMeansPublished`,
which `ImplementsContract` includes.

## Not modelled

Wording, diagnostics, parsing and the validation of malformed input; profiles,
path confinement and scopes in the orchestrator, which are refusals that change
nothing; child process plumbing, whose failures are `PrepareReturns`,
`CaptureFails`, `CreateAtomFails` and `SpendFails`. The declarative files have no interpreter
in the repository.

- Memory: `promote`, which loads a record as a drilldown does, judges it and
  writes nothing: its judgement is left out. Scores and budgets are a choice.
  The journal is modelled and nothing is stated about it.
- Process runtime: Windows, and the contents of the output.
- Agent and adapter: the older `main` of version 1 of both; the check of policy
  references, which is an answer that is refused; the contents of `generated/`,
  which are copied after the workspace was compared.
- Ix adapter: `probe`, `status` and `map`, which people call by hand and `prepare`
  never does; Windows, where a killed ix is waited for through its pipes, and
  processes that ix itself starts; an adapter that crashes.
- Hand-off: the texts of the state patch, and the two validators, which compare
  files of two repositories.
- Artifact graph: counters and diagnostics of the scan report, drawing, and the
  exporter, which writes what is displayed to a file.
- Execution policy validator and smoke runners: text checks and scripts without
  a state.

## Plan

What is done and what comes next, the most important behaviour first.

1. Done: `Continuation`, `ControlPlane`, `SliceLedger`; their theorems.
2. Done: `LayeredMemory`, `MemoryArchive`, `MemoryReading`; their theorems.
3. Done: `ProcessRuntime`, `GateResolution`, `CodexAgent`, `EvaluationRun`; their
   theorems.
4. Done: `ContextPreparation`, `ArtifactGraph`, `GraphDisplay`; their theorems.
5. Done: `EvaluationContract`, which `EvaluationRun` implements; proved.
6. Left for another time: what is copied to `generated/` after the comparison of the
   workspace, and a project that changes between two scans.
