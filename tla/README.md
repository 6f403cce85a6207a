# as-harness: models, checks and proofs

as-harness runs tests that are written in AssemblyScript and compiled to
WebAssembly. A **guest** (the compiled module) declares suites, tests and hooks;
a **host** instantiates it, discovers the tree of declarations, plans which tests
run when, runs them, possibly on several threads, and says whether the run was
green. This directory holds TLA+ models of the parts of that program where
ordering, failure and repetition decide, TLC runs that check them on small
instances, and proofs that TLAPS checks for every instance.

- [The system](#the-system): components, state, operations, what is hard
- [Modules](#modules): which module stands for which code
- [Runs](#runs): what TLC checks, with which bounds
- [Findings](#findings): where the code and the documents disagree
- [Fairness](#fairness)
- [Proofs](#proofs): what is proved, from what, along which argument
- [Not modelled](#not-modelled)
- [Plan](#plan)

`PROJECT.json` lists, for every definition, the lines of the source it stands for,
for every property a small change of the code that it catches, and the hazards the
properties are aimed at.

## The system

```
 cli/            cli/index.ts, run.ts, runtime/   compile, choose a runtime, report
   |   \
   |    cli/as/compile.ts, cli/transform/         rewrite, instrument, compile
   |
 harness/js | harness/wasmtime | harness/wazero   one guest instance per call
   |     \
   |      harness/shared/start.cjs                start(): discover, plan, execute
   |        |-- harness/shared/start-worker.cjs   a worker thread: one task at a time
   |        |-- harness/shared/snapshots.cjs      the manifest of a call, the files
   |        \-- harness/shared/covers.cjs         merge of the instances' coverage
   |
 assembly/assembly/                               the guest: registry, traversal,
                                                  executor, assertions, events
```

| component | its state | its operations | what must hold |
| --- | --- | --- | --- |
| Execution planner (`start.cjs` 548-1488) | dependency edges, prerequisite counts, stages, blocked targets, issues | `buildExecutionDependencies`, the layering loop, cycle detection | no runnable test is lost, repeated or staged before a prerequisite; a blocked one has a reason |
| Stage executor (`start.cjs` 1202-1721) | the stage, the batch under way, outcomes, blocked targets, issues | take a batch, record its results, block dependents and bail scopes, reject | a failure stops what depends on it and nothing else; results are never overwritten; the run ends |
| Worker pool (`start.cjs` 408-503, `start-worker.cjs`) | task cursor, results, threads and their mailboxes, the promise of the pool | assign, handle a message or an error, terminate, settle | each task is with one worker; the batch settles once and truthfully; threads are stopped |
| `start()` (`start.cjs` 340-406, 1723-1830) | branches, queue of the discovery, plan, execution, summary | discover breadth first, plan, execute, sum up | a green run ran everything; a red one has a culprit |
| Guest registry and traversal (`node.ts`, `traversal.ts`, `exports.ts`) | durable nodes, replay states, stable ids, hooks | discover and run by path, first resolution, replay with a shape check, reset after a trap | a call is answered from a tree the bodies still declare; ids are stable; calls do not disturb one another |
| Guest executor (`executor.ts`, `execution-state.ts`, `failure-state.ts`, `trampoline.ts`) | assertion scope, plan, hook phase, failure kind, observed callbacks, artifact frames | run a target between its hooks, observe traps in `throws`, count assertions | nothing of an attempt leaks into the next; the reported failure is the one that ended it; plans are kept |
| Event channel (`events.ts`, `imports.ts`; the readers of three hosts) | the buffer of a call, the registered callbacks | write an event, decode it, hold it until the call is over | callbacks see what the guest wrote, once, in order |
| Assertions and values (`strict-equality.ts`, `partial-match.ts`, `reflected-value.ts`, generated equality hooks) | active and proven pairs | walk two object graphs, match reflected copies | the walk ends on cycles; an answer is right |
| Snapshot artifacts (`snapshots.cjs`) | manifest of the call, files | load, match, finalize, write | an update makes the same tests pass; a green run is exact; calls keep to their entries |
| Coverage (`covers.ts`, `covers.cjs`) and artifact frames (`artifactFrames.ts`) | points and hits per instance, the frame's location | instrument, declare, hit, merge | the merge is what was executed; artifacts carry their own place |
| Command line, runtimes, compiler front end (`cli/`) | arguments, temporary directories, harness, exit code | parse, prepare, compile, resolve, start, report, clean up | nothing is left behind; the exit code tells the run |
| Native hosts (`harness/wasmtime`, `harness/wazero`) | events held for the call, snapshot imports | create, call, close | the same as the JavaScript host |
| Test adapters, release and validation scripts | - | lower a framework's names onto the registry; stage and publish | - |

How they interact: the command line parses its arguments, makes the entrypoint and
the compiler's directories, compiles, resolves a runtime and calls `start()` on its
harness. `start()` calls `harness.discover(path)` once per node of the tree and
`harness.run(path)` once per planned target. Every shipped host makes a fresh guest
for each of these calls, so the only thing that survives between two calls is what
the host copied out of the events, the snapshot files and the coverage each instance
left. The planner turns the discovered nodes into stages; the executor hands the
targets of a stage to `runExecutionBatch`, which runs the in-band ones itself and
gives the others to a pool of threads, each with a harness of its own. What comes
back is recorded in plan order, never in the order of arrival. Inside the guest a
call replays the bodies on its path, runs the target between the hooks of its
ancestors, and tells the host what happens through events.

What is hard here: results that finish in any order; failures that must stop tests
several stages away, across bail scopes, and only those; workers that report an
error, crash or vanish while others hold tasks; bodies that trap half way through a
declaration, or declare something else when they are replayed; traps that an
assertion observes and swallows inside an attempt; cyclic values; files that several
calls rewrite; a command with a dozen steps that may fail with something still open.
The hazards in `PROJECT.json` name each of these at its line.

## Modules

| module | stands for | extends or uses |
| --- | --- | --- |
| `DiscoveredForest` | the nodes as the host knows them: lineage, hints, scopes, and the dependency edges they imply | |
| `ExecutionPlan` | the plan as the planner hands it to the executor, and when it is well formed | |
| `Planner` | `planExecutionStages`, one step per round of the layering loop | `DiscoveredForest`, `ExecutionPlan` |
| `PlanExecution` | `executePlannedStages`, one step per loop iteration, result and record | `ExecutionPlan` |
| `DependencyRun` | abstract: what a dependency run promises, with no stages, batches or bail scopes | implemented by `PlanExecution` |
| `PlannedEvaluation` | `evaluatePlannedExecution`, the second copy of the same decision, turn by turn of its loops | `PlanExecution` |
| `WorkerPool` | `runTasksInWorkerPool`, the in-band lane of `runExecutionBatch`, and the worker threads | |
| `BatchRun` | abstract: what a batch promises its caller | implemented by `WorkerPool` |
| `StartHarness` | `startHarness` | instances of `Planner` and `PlanExecution` |
| `GuestReplay` | the guest's registry and traversal, `discover` and `run` | |
| `GuestExecution` | `executeNode`, its hooks, the assertion scope and the failure state | |
| `EventWire` | the layout of every event and trace, written and read | |
| `CallbackView` | what the callbacks see of one call beside what the guest wrote, and what is promised of it | |
| `HostEvents` | what a call writes, and how each host gets it to the callbacks | `EventWire`, `CallbackView` |
| `DeepEquality` | the walk of `strict-equality.ts` with the generated hooks, and what it should answer (`Bisimilar`) | |
| `PartialMatch` | `partial-match.ts` over reflected copies, and what it should answer (`Contained`) | `DeepEquality` |
| `Snapshots` | the manifest, its files, sessions over one disk | |
| `SourcePasses` | which places the rewriting and the two transforms change | |
| `CoverageView` | the merged coverage and what the host was told beside what was executed, and what is promised of them | `SourcePasses` |
| `CoverageRun` | instrumented instances, their hits and frames, the merge | `CoverageView` |
| `ProcessOutcome` | what is left of a process for those around it, and what it promises them | |
| `RunCommand` | one process of the command line | `ProcessOutcome` |
| `..._proofs` | theorems about the module they are named after | that module; `StartHarness_proofs` also instances of `Planner_proofs` and `PlanExecution_proofs`, `GuestExecution_proofs` also `CoverageView` and an instance `C` of `CoverageRun` |
| `Outcome_proofs` | theorems about what a session, a process and a call leave to those outside | `Snapshots`, `ProcessOutcome`, `CallbackView` and instances `P` of `RunCommand`, `E` of `HostEvents` |
| `MC...` | small sets of forests, plans, guests, programs and arguments for TLC | |

**Planner.** A forest is a record of functions over node numbers; numbers run in
preorder, which is how identity keys sort. `Edges` is the union of the three
sources of `addExecutionDependency`: enclosing tests, sequential scopes and
declared ids. `BuildDependencies`, `LayerStage` and `FinishPlan` are the code before,
in and after the loop of `planExecutionStages`; the countdown is kept as it is
(a function of counts and a set of ready targets), since `StagedExactlyWhenReachable`
compares it with what the paths of the graph allow. `Above` and `Downstream` are least
closed sets, so that they can be proved about. `PlannedTargets` is what is handed over. String
dependency keys are not modelled: `cloneNode` copies `dependencyNodeIds` but not
`dependencyKeys`, so no discovered node has any.

**PlanExecution.** `plan` is what the planner returned. `NextStage` leaves a stage
in which nothing is eligible; `StartBatch` is `createStageExecutionBatch`;
`FinishTarget` is a result that arrives, in any order; `RejectBatch` a batch that
throws; `RecordResult` the body of the recording loop, which visits the results in
plan order and does all that follows from one result: `blockDependentTargets`, then
`blockBailedTargets`, in one step. `status` of `DependencyRun` is computed from the
outcomes and the batch.

**WorkerPool.** The main thread takes one event per step and none while it runs an
in-band target (`InLane`). Each worker has an inbox and an outbox; what it sends
arrives in order, and the outboxes of two workers in any order. Workers load, take
a task, reply with a result or a task error, crash with an `error` event, or exit
in silence.

**StartHarness.** Discovery steps through the queue of `discoverBranch` one node at
a time; then the two instances take over the planning and execution, and
`Summarise` computes the verdict. Which bodies throw during discovery is part of the
guest and does not change between calls.

**GuestReplay.** A node is named by its path. `slots` are the durable nodes;
`replay` holds the replay states, of top-level nodes on the durable node itself and
of deeper ones on copies that live as long as the call. A body is a record of what
it declares, the hooks it registers, and whether it sets a hint or marks itself as
skip; it may trap after any of its declarations, or declare one more, one less or
one of another kind. `EnterRoot`, `StopAtSkipped`, `ResolveFirst` and `Replay` are
the turns of `findNodeByIndexFromWithReplay` and of the collection of children,
`RunTarget`, `RunRoot` and `RunSuppressed` are `executeNode` as far as the registry
goes, `Return` is the clearing of replay states. One flag stands for all metadata
that may change after the declaration (runner mode, failure policy, dependencies),
because the shape comparison treats them alike.

**GuestExecution.** `Run` sets a target up; a schedule lists what `executeNode` calls:
`beforeAll` and `beforeEach` hooks from the root inward, the body, `afterEach` and
`afterAll` outward. A callback may count an assertion, fail, set a plan, take a
frame, or open an observer (`throws`, `doesNotThrow` and uvu's `throws` differ in what
they do with the trap); a trap unwinds to the innermost observer, at any depth. The
bodies of ancestors that are replayed before the attempt may leave anything in the
scope. `cause` and `asserted` are history: what truly ended the attempt, and how many
calls there really were.

**EventWire and HostEvents.** A payload is a sequence of bytes with the offsets of
`events.ts`; each reader is the code of a host at its own offsets, with its bounds
checks. Numbers have four bytes; a text is the bytes of its encoding, and an f64 stands
for its last byte, since both sides copy it whole. `CallbackView` has the properties, over
the variables they speak of. `HostEvents` has the three deliveries: decoded in the import while the guest
runs (JavaScript, wazero), or held by the native addon and decoded when the call has
returned or trapped (wasmtime). Whether a callback for a kind is registered decides
whether its decoder runs at all.

**DeepEquality and PartialMatch.** An object is a type and its items. `Ask` starts a
comparison from whatever the last one left in the two arrays and resets them as
`assert-bridge.ts` does; `CompareItem`, `TakeItem`, `Close` and `Differ` are the
turns of the recursion with its frames on an explicit stack; `Trap` is a getter of the
user's class. Two references are defined beside the walks: `Bisimilar`, the largest set of
pairs that following references cannot tell apart, and `Contained`, the same for
partial matching with any assignment of elements instead of the first fit. The match
itself is a function of two values, each with the references above it, which is what
decides where a reflected copy ends. The heaps are typed as the compiler types them:
what two objects of one type hold at one place has one static type. Values without a
reflected copy (functions) are left out of `PartialMatch`, where they match nothing.

**Snapshots.** The text of a value is a sequence of characters, among them those the
file's syntax uses, and is escaped and read back as the code does. A session is one
run of the command over a disk; its calls come in any order, a call may trap in the
middle, and the process may be killed between two writes. The fallback path and the
differences of the three hosts' imports are parameters of the checks.

**SourcePasses and CoverageRun.** A program is a list of statements with the statement
each stands in and how it stands there (in a list, as an unbraced arm, as part of an
expression). `Visited` is where a pass descends, `AskedTypes` and `ArtifactMarked` say
what it puts there, `InList` and `Entered` where. `CoverageRun` runs the tests of a
program in instances of their own. What an instance has still to execute is its
`agenda`, of which a step takes the first item; a throw or an abort drops all of it. The
snapshots are merged in the order the tests finished.

**RunCommand.** The arguments are read a token at a time (`--name=` with an empty value
is a token of its own, which the code takes where it refuses an empty second token), then one action per step of
`runEntryFiles` from the entrypoint to `process.exit`, each with its failing twin; the
first failure decides the code unless a later cleanup throws another. `FinishRemoval` is
the directory removal that a failed `Promise.all` no longer waits for.

## Runs

Passing runs. The states are distinct states of one TLC run.

| run | instance | states | what it asks |
| --- | --- | --- | --- |
| `PlannerForests` | every graph of three tests with malformed, missing, self and cyclic dependencies; every tree of four nodes with one sequence mode and one dependency | 122,601 | is every target staged once, behind its prerequisites, or blocked with a reason, exactly when the paths of the graph say so, and is the plan one the executor is made for? |
| `ExecutionPlans` | every acyclic graph of four targets, with every bail scope, or with unresolvable targets, invalid sequence scopes and expected failures | 104,326 | do failures block what they must and nothing else, does the loop agree with the evaluation, implement the promise and end? |
| `WorkerPoolFaults` | four tasks, two workers, one in-band target, all faults | 8,984 | is each task in one place, and does the batch settle truthfully and stop its threads? |
| `StartRuns` | four shapes of four nodes with any bodies throwing; a bail suite with dependencies, hints and sequence modes | 30,775 | do discovery, planner and executor fit together, and is the verdict true? |
| `GuestReplay` | three guest programs, three calls, two misbehaving bodies | 1,079,580 | is a call answered as if it were the first, whatever trapped or drifted before? |
| `AttemptState` | a target with hooks of every kind on two levels, one with a plan, one to skip; five guest operations a run, two observers deep, two runs | 42,942 | does an attempt leave nothing behind, fail for the reason it reports, keep its plan and order its hooks? |
| `EventDelivery` | events of every layout with short and long indexes, traces with too many and too few arguments; two events a call, two calls, two sets of callbacks, three hosts | 57,606 | do callbacks see what was written, once and in order, and never what was not? |
| `Values` | rings of three class instances; sets, maps and arrays of two elements that may hold one another; every pair, and one comparison after another | 211,588 | does the walk agree with the unfolding, partial matching with containment? |
| `SnapshotSessions` | five guest programs, two files, three disks (empty; stale, mismatched and malformed entries; a key twice), two kinds of host, three sessions | 194,876 | does an update make the same tests pass, is a green run exact, do calls keep to their entries? |
| `Coverage` | two programs of two files in three variants, nine option sets, throws and aborts inside helpers, two places that share an id | 18,640 | is the merge what was executed, and are artifacts and aborts reported at their place? |
| `RunCommand` | every list of up to two tokens behind a command, longer ones that reach each runtime; up to two failing steps | 26,649 | is everything cleaned up, and does the exit code tell the run? |

Why these bounds are enough for what is asked. The planner's edges relate two
targets at a time, a diamond needs four nodes, and a sequential scope inside a test
inside a suite is a tree of four; three tests are enough for a cycle with a
dependent. In the executor four targets are the smallest graph where a failure, a
bail and a dependent across two stages meet. In the pool a second round of
assignments begins with the third task, and the fourth makes the last assignment
differ from it; two workers are enough for one to fail while the other holds a task.
In the guest two calls are needed to replay what a first one resolved, and the third
shows what the second left behind; with two faults a call can follow a trap, a drift,
or both. In an attempt, two observers are the least at which one trap is observed
inside another, and five operations reach a swallowed overrun between an opened and a
closed observer; two runs show what the first leaves. On the event channel one event
beside another shows order and repetition, a second call what is kept from the first.
Three nodes make a cycle that is not a self-loop and an outsider. Snapshots need a
session that writes, one that reads, and one before both that was killed. Two failing
steps are one failure and a cleanup that fails because of it. `MaxFaults` (of
`GuestReplay` and `RunCommand`), `MaxCalls`, `MaxOps`, `MaxDepth`, `MaxRuns`,
`MaxEvents` and `MaxSessions` are the only counters capped by a guard; everything
else is finite by itself.

What the properties say beyond their names, and what they leave out:

- `StagedExactlyWhenReachable` compares the countdown with a definition over the
  paths of the graph (what is above a target, cycles, blocked and invalid sources), so
  that neither can drift.
- `RunAgreesWithEvaluation` (in `PlannedEvaluation`) runs the second copy of the
  decision on the verdicts of a finished run, and expects the same outcomes and
  blocked targets. The evaluation is a function of the number of turns its loops have
  made; `Turns` is enough for any plan, which the proof shows.
- `EachTaskInOnePlace` places a task with the pool, one worker (its queue, its hands,
  its report) or the results. A task that nobody has is allowed only while the error
  that reports it is on its way.
- `Settles` of the pool exempts a worker that exits without an `error` event:
  `start.cjs` listens for `message` and `error` only, and the batch waits for ever.
- `GreenRunRanEverything` exempts tests below a test that throws in discovery:
  `discoverBranch` accepts that a test's own body may fail there.
- `RepeatedCallsAgree` compares the answer of a call with one computed from the
  program text. It holds for bodies that behave, whatever other bodies did in the
  calls before. Exempt (see below) are paths through a body that ever declared something
  else without a trap, hints that a node receives after its declaration, marks a body
  gives itself, and what a run adds to a top-level node. It is a property of the ABI;
  the shipped hosts use an instance for one call.
- `FailureKindIsTrue` and `PlanIsKept` compare what the attempt reports with history
  variables that no code reads.
- `CallbacksSeeTheCall` leaves out hook and failure events, which
  `HookEventsArrive` is about; of these `HeadedEventsIntactOrLost` says that a
  callback gets them as written or not at all.
- `MatchIsProved` says what an answer "equal" is held up by; `AgreesWithUnfolding`
  that both answers are right.
- `PartialMatchIsContained` is soundness only, and of values without circular
  references: first fit may miss a match, which the code accepts, and of a circular
  reference only the type is compared. `EqualValuesMatchPartially` bounds what may be
  missed. A value is circular (`CircleFree`) when some set of references with it hold
  each other on without end.
- `UpdatedSnapshotsPass` exempts programs in which two calls check under one name in
  one file: their keys coincide.
- `CoverageIsExact` leaves out the bodies of callbacks, which the transform never
  instruments, and the hits of unbraced bodies, which it drops.
- `EventsAreLocated` is about marked statements of a list, and about lines where no
  bare call of the file was rewritten.
- `NothingLeftBehind` and `ExitCodeTellsTheRun` name their exemptions: the compiler's
  directories when their preparation fails half way or one removal fails, and the
  pass line of a run whose top level could not be discovered or whose coverage format
  is unknown.

Deadlock is checked only in `Values`, which never stops. Every other system comes to
an end (a plan is made, a run is over, the calls are used up, the process has exited).

## Findings

`HookEventsLost` checks a statement of a document, and TLC shows a behaviour of the
code that contradicts it: the guest writes the length of the node index before the
node id in the events of hooks, failed nodes and failed callbacks (`events.ts:406`),
while `docs/003:276` and all three hosts have the id first, so the event is dropped
unless the two numbers happen to be equal. `EventDelivery` shows that it is dropped, and
never given to a callback with another node's index: ids are larger than depths.

Other places where the code and a document, or the code and what one would take it to
do, disagree. They were met while modelling; the models have them as the code does,
and where a property would contradict them it exempts them by name.

Planner, executor, `start()` (all in `start.cjs`):

- A dependent of a target whose scope has an unsupported sequence mode is reported as
  a `dependency-cycle`, with no cycle anywhere (1457).
- An unsupported hint value, said to be informational, hides an inherited bail or
  in-band hint (604).
- The nested suites of a sequential scope are interleaved: `declarationOrder` is
  counted anew for each discovered path (802).
- A test that depends on itself runs without a diagnostic: the edge is dropped (871).
- A target in a scope with an unsupported sequence mode is blocked but, if it has
  prerequisites, still takes its place in a stage, so that its dependents run (1419).
- Dependents of a target stopped by a bail still run (1361).
- A blocked test is reported with an ignored hint as its reason (1583).

Guest:

- In one instance the second discovery of a suite with `dependsOn`, `inBand` or `bail`
  on a child's handle is refused as drifted (`node.ts:654`); a top-level test that is
  run and then discovered has its children twice (`traversal.ts:189`).
- A hint that a nested suite sets through its context is missing from what its
  discovery reports (`node.ts:244`).
- A top-level body that marks itself (`skip()`, `todo()`) or hints by its context writes
  that to the durable node when it runs first (`node.ts:337`), so that the root's next
  discovery reports what its first one did not; `docs/006:178` has replay rebuild the
  state of children deterministically.
- Instances of derived classes are never strictly equal, and a class that extends a
  library class is compared by its own members only; `docs/002:23` has the generated
  hooks keep the inheritance context.
- A getter that itself compares values resets the walk it was called from.
- A failed assertion that was swallowed still leaves its message, which the report
  takes for that of the failure (`reporter.ts:384`).
- qunit's buffer of steps knows an attempt by names and number only, so that two tests
  of one name in one suite share it in one instance (`qunit/types.ts:80`).

Snapshots, coverage, positions:

- `normalizeArtifactSourceFile` uses `path`, which `js/index.cjs` never requires (753):
  a snapshot or fixture whose frame names any source file throws through the guest on
  the JavaScript host.
- `docs/016:82` has every unmatched entry of a touched file fail as stale; the code
  looks only at the names that were checked (`snapshots.cjs:535`).
- Tests of one name, and hooks of one kind, share their snapshot keys; an update in
  which a test traps half way removes the entries it had not come to (547).
- The coverage transform looks for a node kind that callbacks do not have
  (`covers.ts:378`): their bodies are never instrumented.
- A hit or marker of a body without braces is put in a list that is thrown away
  (`covers.ts:591`, `artifactFrames.ts:591`).
- The import that the rewriting of bare calls prepends shifts the lines of the file
  (`compile.ts:778`).
- Coverage is never `null` on the JavaScript host, as `docs/003:494` and `docs/007:168`
  say it is when it was not asked for; the key of a point in the report leaves out its
  type (`covers.cjs:162`).

Command line:

- A discovery that fails at the top level prints the pass line and exits with 3
  (`reporter.ts:354`).
- A named file that does not exist is left out without a word (`index.ts:230`); an
  option without its value takes the next option for it (290); an unknown coverage
  format is refused only when the tests have run (`covers.cjs:545`).
- Entrypoint errors are raised outside the `try` (`run.ts:219`); a preparation that
  fails half way leaves its directories (`compile.ts:1128`); a removal that fails
  ends the wait for the other and turns a good compilation into a failure (1225);
  the exit hook of the wazero addon is registered after the addon is written
  (`wazero.ts:101`).

## Fairness

Only the host's scheduler has any. `Planner` has weak fairness of its next-state
relation: it is a loop without an await, which runs to its end. `PlanExecution` and
`StartHarness` have weak fairness of `Next`: their only waits are for
`harness.discover` and `harness.run`, and that those return is an assumption (a test
that loops for ever keeps the host for ever: there is no timeout in `start.cjs`).
`WorkerPool` has weak fairness of each worker's own steps, of the handling of each
worker's events, and of the main thread's steps: threads are scheduled, the event loop
turns, `harness.run` returns. Crashes and silent exits have no fairness: they may
never happen. All other modules have safety properties only: their code is sequential
and ends when its input does, or a guest that loops keeps it for ever.

## Proofs

Eight modules hold theorems; each holds for every value of the constants that meets
the named assumptions of its module, which TLC evaluates on every run. None of the
safety properties is inductive alone; the strengthening is what is worth reading.

| module | theorem | says |
| --- | --- | --- |
| `Planner_proofs` | `Invariance` | `PlanInv`, below |
| | `PrerequisitesFirst` | a target is staged behind all its prerequisites |
| | `NothingLost` | a finished plan has each target in one stage or blocked |
| | `SequencesAreSerial` | no two members of a sequential scope share a stage |
| | `StagesAreTheReachable` | a target has a stage exactly when the paths of the graph allow it |
| | `PlansAreWellFormed` | every plan meets the assumption of `PlanExecution_proofs` |
| `PlanExecution_proofs` | `TypeCorrect` | the type invariant |
| | `FailureBlocks` | a settled failure has no dependent that is not blocked, through any number of blocked targets |
| | `StartsBehind` | what is dispatched has its prerequisites behind it |
| | `BailStops` | after a failure in a bail scope no other member is under way or will be |
| | `BlockedStaysUnrun` | a blocked target has not run and never does |
| | `ExecutionImplementsPromise` | every behaviour is one of `DependencyRun` |
| | `EvaluationAgrees` | a finished run is what `evaluatePlannedExecution` computes of its verdicts |
| `WorkerPool_proofs` | `Invariance` | `PoolInv`, below |
| | `NoTaskLost` | every task is in one place |
| | `BatchPromise` | every behaviour is one of `BatchRun` |
| `StartHarness_proofs` | `DiscoveryIsComplete` | a branch that is not reported as failed is known in full |
| | `GreenRunsAreComplete` | a green run has run every test and found it satisfied |
| | `RedRunsAreExplained` | a red run has a culprit |
| `GuestReplay_proofs` | `ReplayInvariant` | `ReplayInv`, below |
| | `ReplayStatesEnd` | no replay state outlives its call |
| | `IdentityIsStable` | a path keeps the id it was first shown with |
| | `AnswersAreTrue` | an answer rests on bodies that declared what the nodes say |
| | `CallsAgree` | a call is answered as if it were the first |
| `GuestExecution_proofs` | `Invariance` | `IInv`, below |
| | `AttemptsLeaveNothing` | attempt-local state is gone on every way out |
| | `FailureKindsAreTrue` | the reported failure is the one that ended the attempt |
| | `PlansAreKept` | a pass has as many assertions as were planned |
| | `AttemptsAreWellNested` | hooks inward, one body, hooks outward, each closed; nothing after a failure |
| | `CoverageStaysExact` | the merged coverage is what was executed |
| | `EventsStayLocated` | artifacts and rewritten aborts are reported at their own place |
| `DeepEquality_proofs` | `MatchRestsOnProof` | "equal" is held up by the recorded pairs alone |
| | `NoPairInsideItself` | no pair is compared inside itself |
| | `EqualityIsUnfolding` | the answer is that of the largest bisimulation, both ways |
| | `DifferencesAreReal` | "different" is never said of objects that cannot be told apart |
| | `PartialMatchesAreReal` | what matches partially is contained, part for part |
| | `EqualityImpliesPartialMatch` | what is deeply equal matches partially |
| `Outcome_proofs` | `EscapeReadsBack` | the escaped form of a text reads back as that text |
| | `UpdatesPass` | after an update that ended well the same program passes |
| | `GreenRunsAreExact` | a green run made the checks that the files hold, and no other |
| | `WritesAreOwn` | a call writes only under the names it has checked |
| | `CleansUp` | nothing is left behind, however many steps fail |
| | `ExitCodeIsHonest` | the exit code tells the run |
| | `EventsReadBack` | the readers of all hosts give back the event that was written, or of a hook or failure event nothing |
| | `CallbacksSeeAll` | after a call the callbacks have seen what they listen to, in order and in full |
| | `HeadedAreIntact` | no callback gets a hook or failure event that was not written so |

**Planner.** Assumption: `ForestsAssumption` (every forest is finite, parents come before
their children, lists name nodes). `PlanInv` is about the countdown: between rounds
`prereq[t]` is the number of `t`'s predecessors that are not staged (`Counted`), the
ready targets are exactly those at zero that are not staged yet (`ReadyWhenCounted`),
what depends on a blocked target is blocked (`DependentsBlocked`), and no target is in
two stages. `LayerStage` subtracts the edges that leave the stage; the lemmas on `Into`
and `From` turn that into cardinalities. Serial scopes follow from the edges between
neighbours in declaration order: every member but the first has its predecessor as a
prerequisite, and before the first stage out of order there would be another.
`StagesAreTheReachable` needs more (`CountdownInv`): of the targets without prerequisites
exactly those that are neither downstream of an unresolvable one nor in an invalid
sequence are ready or staged, and of the others every one whose count is zero. That the
staged are reachable then follows from the order of the stages: what is above a staged
target is in earlier ones. The converse is about the end: if at or above a reachable target
some had no stage when nothing is ready, take a topmost of those (no cycle is above
it, so that "above" is a finite strict order); all its predecessors have stages, its
count is zero, and it would be ready or staged. `PlansAreWellFormed` discharges
`PlansAssumption`, so that planner and executor are proved as a whole.

**PlanExecution.** Assumption: `PlansAssumption` (`WellFormedPlan`: finitely many targets, each staged or
blocked, stages disjoint, every prerequisite of a staged target in an earlier stage, the
dependents of a blocked target blocked unless it was blocked for its sequence mode).
`IInv` adds what the loop relies on without saying: the batch is part of the present
stage (`BatchInStage`), the blocked set and the outcomes say the same
(`BlockedAgrees`), a recorded result agrees with its outcome (`ExecutedAgrees`), and
everything in earlier stages is settled (`EarlierStagesSettled`). With these, a target
that blocks its dependents finds none of them running or done: they are in later
stages (`BehindIsWaiting`), and a bail finds none either, because a scope has at most one
member in a batch (`OnePerBailScope`) and a settled member would have bailed the rest
before (`BailedIsWaiting`). The refinement maps `StartBatch` to `Start`, `RecordResult`
to `Succeed` or `Fail`, and everything else to a stutter.

`EvaluationAgrees` compares two loops that never meet: the one runs once the other is
over. `EvalInv` makes them meet at every step: whatever the targets that are not settled
yet will say, the evaluation comes to the state the executor is in (`Moment`), in as many
turns as the executor has made steps (`Steps`). Each step is then a turn (`NextStageIsTurn`,
`StartBatchIsTurn`, `RecordIsTurn`) or none, since the batch that the evaluation picks is
the one that was dispatched and its first target in plan order is the one whose result
is recorded next. Blocking is defined in two ways: in the executor as the least set
closed under dependents, in the evaluation as the breadth-first search of the code;
`SearchIsClosure` shows by the number of keys found that the search ends in as many
rounds as there are targets, and that what it finds is that set.

**WorkerPool.** Assumption: `PoolAssumption` (at least one task, no more workers than tasks). `PoolInv` adds to
`EachTaskInOnePlace` the shape of a worker's mailboxes in each state of its thread
(`Shape`: at most one reply under way, behind it at most an error event, no task in hand
while one is queued), and that `completed` counts the results, that an open pool is
not full and a settled one is rejected exactly when a result is missing
(`Settlement`). The refinement maps the arrival of a result to `Arrive` of `BatchRun`.

**StartHarness.** `DiscoveryInv`: the queue holds found nodes of one branch, and for each
found node its children are found too, unless it is still queued, its branch has failed, or it is
a test whose body throws (`Known`). The lineage is a recursive function over the nodes, whose
existence is proved first (`LineageExists`, by the least number up to which there is none);
`NoGaps` takes the least missing node: its parent is known, and so is what the parent
has. The verdict rests on three proofs: this module takes `Planner_proofs` and
`PlanExecution_proofs` as instances (their assumptions follow from `GuestsAssumption`:
`ComponentAssumptions`), shows that its steps are theirs, and carries
their invariants along in its own (`RunInv`), together with what links them: the planner
works on the part of the forest that was found and blocks nothing without an issue
(`PlannerInv`), and the executor runs the plan that was made and blocks a target or adds
an issue only behind one that ran and came out wrong (`ExecutorInv`). A green run then
has nothing blocked and every target settled; in a red one, whatever is blocked leads to
a culprit.

**GuestExecution.** Assumption: `TargetsAssumption`. `IInv`: guest code always runs
with a clear failure state (`Staged`), because every observer saved a clear one
(`TypeInv`) and the executor's own is at the bottom of the stack (`Observed`); the scope
of an attempt under way counts and plans what the history does (`Counted`), also across
an observed overrun; outside callbacks there is no observer, frame or active hook
(`Quiet`). `AttemptsAreWellNested` adds what the events tell up to each step of the
schedule, one start and one end per step done, and that the schedule is sorted: it is
a concatenation over the chain of scopes, inward and then outward, which is shown of
the fold that builds it by the least prefix at which it would fail.

**GuestReplay.** Assumption: `GuestAssumption` (every program has a root body, paths are
sequences of ordinals, bodies declare what declarations can be). None of the four
properties is inductive. `ReplayInv` is about the registry: the durable nodes are a tree
in which every counted child exists and nothing else does (`Tree`); the walk is at a
node below resolved ones only (`WalkInv`); what was shown, or is about to be, has its
id and only resolved nodes above it (`Stands`, `ShownInv`); a node that is not resolved
has children only from a run of its body (`UnresolvedInv`); a replay state is noted as it
begins (`NotedInv`); what a body declared in this call is what its node says, unless it
was run before (`AllDeclared`). The steps are of two kinds. A body makes the tree grow at
one node (`Grows`), which keeps whatever stands; a trap discards the children of a node
that is not resolved, which is above nothing that stands (`ResetKeeps`).

`CallsAgree` needs the registry compared with the program. `AgreementInv` adds to
`ReplayInv`: a node below bodies that behaved, and not below a top-level node that was
run, is what the program says of it, with the children and hooks that its body made
once, or none (`TextInv`); the top-level nodes always are (`RootInv`); a walk that
nothing excuses is at a node that the text says can be reached, and has replayed exactly
the path above it, each body with the hooks it registers (`WayInv`). The answer
is then what the text says: a discovery's from the children of a resolved node, where
the walk's focus and pruning are the text's, a run's from the replayed hooks.

**DeepEquality.** Assumptions: `ValueAssumption`, `ClassAssumption`, `HeapAssumption` (references are no
primitive values, a class is no collection and descends from itself, objects of a class have
the same members, and what objects of one type hold at one place has one static type). `IInv` is about credit: the frames are the active pairs (`Stacked`) and each
the part its outer one is at (`Chained`); what was accepted so far, in the recorded pairs
(`ProvenBacked`) and in the frames (`FramesBacked`), is the same value, recorded, or in
progress. When the walk is over nothing is in progress, so that the recorded pairs
hold each other up: a bisimulation. `EqualityIsUnfolding` joins this with
`DifferencesAreReal`: `Bisimilar` is computed by throwing pairs out until nothing changes,
and that what is left is the union of all bisimulations is shown by the least set of
pairs for which it would not be. `NoPairTwice` bounds the depth by the number of
pairs.

**PartialMatch.** Its theorems are in `DeepEquality_proofs`. Assumptions: `ShapeAssumption`,
`NameAssumption` (a class is not called like a kind), `IncludesAssumption` (a primitive value
matches itself). The recursion goes down two copies at once; it has a solution
(`RecursionExists`) since the references that an expected copy may still go down get fewer
with each turn (`Room`), and a match looks no further than one turn down
(`MatchesLocally`). The first fit: when it ends with as many parts used as are expected,
each turn has used one more, which gives an assignment (`FirstFitAssigns`); and when each part fits
the one in its own place, the first `n` turns use `n` of the first `n` parts, so that the
own place or an earlier one is free (`FirstFitDiagonal`). Soundness: along the way to a part
each reference above it holds the next (`Open`), so that one met again would be on a circle;
without circles the pairs that match hold each other up (`FoundContains`), and `Contained`
drops no such set. Equal values are followed down together (`Twinned`): two that cannot be
told apart and have one static type are of one kind and have as many parts, each again so
(`TwinsAlike`).

**Snapshots.** Assumptions: `ProgramsAssumption`, `DisksAssumption` (programs are sequences of
calls, texts are sequences of characters, the entries of a file have keys and a text).
The text comes first. `EscapeReadsBack` follows the two texts side by side: the escaped
form is one chunk of one or two characters for each character, and behind the chunks
of the first `k` the reader holds the first `k` characters and no pending backslash. The
reader is a recursive function over the positions, so that the induction is over the
least position at which this would fail; the same way `Filtered` is shown to list the
kept positions in their order (`FilteredIs`, by the increasing enumeration that its chunks
make).

`SnapInv` is about the disk and the call. Behind every write the files parse again and have
each key once (`FilesInv`). What a call holds mirrors the files: the manifest is what the
files would be loaded as, except for its marks, and in update mode each of its writes is
in the files already (`ManifestInv`). What a call has done so far is its first checks,
each under its name and its occurrence of that name, so that no two have one key, and the
matched entries are those of the checks made (`SoFar`, `Matched`). At the end of a good
call the files hold its checks and nothing else under their names (`ReturnedInv`,
`Recorded`); during an update they do for all calls that are over (`UpdatedInv`), since the
later ones, without an ambiguous check, write under other names; and when the update has
ended well they do for the whole program (`SettledInv`), which no call of a later session
changes and each of its checks then meets (`GreenInv`). `WritesAreOwn` compares the files
before and after a step entry by entry, which needs that reading back loses nothing.

**RunCommand.** Taken as the instance `P` of `Outcome_proofs`. Assumption: `FaultAssumption`, which no proof needs. `Guarded`: a directory or an open harness
exists only while a step that removes or closes it lies ahead, or with a fault that
excuses it. `Accounted`: what the process has come to in each phase (`Reached`), that the
code is open exactly as long as nothing has failed (`Decided`), and the property itself
from the moment the code is decided (`Telling`).

**HostEvents.** Taken as the instance `E` of `Outcome_proofs`. Assumption: `EventsAssumption`,
which says what an event is (`Events`: the fields that `events.ts` writes, any numbers, any
texts; of a hook or failure event, an id no smaller than the depth) and is a hypothesis
of the two theorems. First the wire. `Carries(b, o, s)` says that the payload `b` has the
bytes `s` behind the offset `o`; concatenation hands it on to the parts
(`CarriesBoth`, `ThreeParts`), and each reader that is aimed at what its writer wrote finds it and
stops right behind it (`CarriesNum`, `CarriesCounted`, `CarriesText`, `CrumbReads`). Lists of numbers,
floats and crumbs are inductions over the chunks they are flattened from. Of an event with
a head, the reader takes the id for the length of the index: it can only fit when the two
are equal, and then everything read is right (`HeadedReads`), which is where the depth of
the ids is needed. Then the calls. `EventsInv`: on the hosts that decode at once, what was
seen agrees at every step with what was written (`Agreed`: the plain events of the two are
the same sequence, and nothing else was seen); on the native host nothing is seen, and what
is held is what was written, event for event, so that `Delivered` agrees at every prefix
(`DeliveredIs`).

**CoverageRun.** Taken as the instance `C` of `GuestExecution_proofs`. Assumption: `IsProgram` for every
program, a hypothesis of both theorems; the options and the hash are any. `CovInv` is about
the agenda. `Whole` says that nothing on it is torn from what belongs to it: behind the hit
of an expression come the marker of its statement, if it has one, and the statement; in
front of a statement of a list stand its marker and its hit; a hit of a function or a block
belongs to one that has been entered; and no artifact of a plain statement is left without
its marker. That holds of what the passes put together (`InListSound`, `BodySound`,
`EnteredSound`), of two such agendas joined (`SoundJoined`) and of what is behind an item
(`SoundBehind`), and fails only for the one statement that is on its way (`OnItsWay`): its
hit is done and its marker comes next (`AtMark`), the marker is done too and the frame is at
the statement (`AtDo`), or its artifact comes next (`AtArt`). From this follows what the
ids are: every covered id is that of an executed place or of the statement that is on its
way (`CovReal`), and every executed place with a point, arms without braces aside, has its
id covered in this instance, in a snapshot, or among the hits the agenda starts with
(`CovFull`), which no trap can drop, since a hit does not trap. All points of the program
are declared in every instance and every snapshot (`CovDeclared`), so that the merge has
them all. Bodies are flattened from the lists of their statements; `FlattenKeeps` and
`FlattenHas` carry what holds of the parts to the whole.

Out of reach of the prover, and so left to TLC: liveness (`Terminates`, `Settles`,
`WorkersStop`) and anything with ENABLED. Every other property of a passing run is a
theorem.

## Not modelled

- The wording and layout of reports, issues, diagnostics and coverage formats, the
  counters of the summary. The models keep verdicts, reasons and exit codes.
- The test adapters: each call declares a node, a hook or an assertion under another
  name. What they add is the mapping of names, and in qunit a buffer of steps.
- `runOnly` in `GuestReplay`: it adds `only` to later declarations of a body, which is part
  of what a body declares. `GuestExecution` has the flag as attempt state.
- The rendering of reflected values, the runtime names of types, and assertions over
  two primitives.
- The marshalling between Rust or Go and JavaScript, the table of wazero handles, and
  the worker bridge of the wazero source runtime, which is for development.
- The compiler itself, the construction of syntax trees by the transforms, the
  matching of globs.
- `remove-temp-directory.cjs`, a bounded loop of ten lines that only the smoke tests
  of the native hosts call, and the release and validation scripts: sequential steps over
  the file system and the registry, not part of a test run.

`PROJECT.json` lists each part with its status and the reason.

## Plan

Done: every module above. Next, the most valuable first:

1. `GuestReplay` with `runOnly` and what it has only-filtering do with the children a body
   declares after it.
2. An abstract run of `start()` (what is run, in which order, with which verdict) that
   `StartHarness` implements.
