# A TLA+ model of HydraSAT

HydraSAT counts the models of a CNF formula on several machines. A master splits
the formula into *cubes* (partial assignments), hands them to workers, and adds up
what they count. A cube that takes too long is split in two and its halves go back
to the queue. This directory holds TLA+ modules of that system, TLC configurations
that check them on small instances, and proofs for the TLA+ proof system.

## The system

### Parts

| Part | Source | State | Operations |
|---|---|---|---|
| Task manager | `go-master/master/task_manager.go` | task queue (a channel of 10000), checkbook of handed-out tasks, ID counter, active counter | `EnqueueCubes`, `RecordAssignment`, `GetAndRemoveTask`, `IsEmpty`, `SplitCubeSmart` |
| Master server | `go-master/master/server.go` | pointers to the current problem's managers, total count, task counters, the done channel | `Solve`, and the RPC handlers `GetTask`, `SubmitResult`, `ReportStatus`, `GetMasterStats`, `SubscribeTimeoutUpdates` |
| Worker tracker | `go-master/master/worker_tracker.go` | a status and statistics for each worker | `RegisterWorker`, `AssignTask`, `SetIdle`, `UpdateWorkerResult`, `BusyWorkerCount`, `UpdateLiveStats` |
| Timeout tracker, broadcaster | `timeout_tracker.go`, `timeout_broadcaster.go` | completed tasks and their time; one channel per subscribed worker | `RecordCompletion`, `CurrentTimeoutSec`, `Subscribe`, `Unsubscribe`, `Broadcast` |
| Driver | `go-master/master/main.go` | the current CNF file and its initial cubes | six rounds of splitting, `Solve`, next file |
| Worker | `python-worker/worker.py`, `parser.py` | current task, ganak process, deadline, stop flag | work loop, status reporter thread, timeout listener thread, reconnection |
| TUI | `go-master/tui` | the last snapshot of the master | poll, draw |
| CNF parser, configuration, result log | `cnf_parser.go`, `config.go`, `result_logger.go` | none beyond files | parse, load, append a row |
| Cube generator | `cube_generator/CubeGeneratorCLI.cpp` | a heap of cubes; jobs, results and a counter shared with a pool of threads | `generate`, `createCubes`, `submitSATCheck`, `collectResults`, `workerLoop` |
| Its propagator | `reducer/Propagator.cpp` of bipe, vendored | clauses, implication lists, watch lists, the trail | constructor, `propagate`, `restart`, `cancelUntilPos` |
| Stand-alone cube generator | `cube_gen_cli/cube_gen_cli.cpp` | a heap of cubes, a propagator of its own | `generate`, `createCubes` |

### How they interact

Workers call the master; the master never calls a worker except through the stream
of timeout updates. `Solve` runs in the main goroutine: it makes a new task manager,
enqueues the initial cubes and waits on `doneCh`. Every call of a worker is served by
its own goroutine. Handlers share the queue (a Go channel), the checkbook (under a
mutex), the counters (atomic), the total count (under a mutex) and the worker tracker
(under its own mutex). The last thing `SubmitResult` does is to look whether any task
is left; if none is, it sends on `doneCh` without blocking. `main` calls `Solve` for one
file after the other, and workers and handlers live on across them.

The cube generator is a program of its own. Its main thread splits cubes with the
propagator and gives the halves to a pool of threads, each with a SAT solver; the halves
that have a model come back into the heap. Jobs are under one mutex, results under another,
and the number of jobs in flight is an atomic counter under neither.

### What is hard

* Handlers interleave between any two of those shared operations. `activeTasks` is
  read without the lock, and the queue separately from it.
* A timed-out cube is out of `activeTasks` before its halves are in it.
* The cap on workers is checked long before the worker is marked as busy.
* A worker can die, and a call can be lost, at any moment; the master has no lease
  and no retry.
* The queue is bounded and both `Solve` and the handlers block on it.
* A ganak that prints no count is taken as the count 0.
* IDs start at 1 again for each file, while workers stay connected.
* A handler works on the task manager it has read and on the total and the counters of the
  moment, which may be those of the next file.
* The threads of the cube generator post a result and count it down in two steps; the main
  thread collects, and decides whether anything is left, in two others.
* The propagator leaves its loops in the middle on a conflict, and its watches stay where
  they are when the trail is cut back.
* The timeout that workers obey is computed and broadcast by concurrent handlers, and
  acted on by a thread that races the main thread of the worker.

`PROJECT.json` lists these as hazards, at their lines, with the properties that
would catch them.

### What makes it correct

* Initial cubes and halves partition the models (`AlwaysPartition`, `Conservation`).
* A task is handed out once and counted at most once (`EachTaskOnce`,
  `NeverOvercounts`).
* When all tasks are done the total is the model count (`ExactWhenQuiescent`), Solve
  is told (`NoMissedDone`), and the log adds up (`TasksBalance`).
* Without faults Solve returns and the count is right in the end (`SolveReturns`,
  `EventuallyExact`).
* Files do not mix (`RowsAreRight`, `IDsNameOneTask`) as long as no `Solve` returns early.
* The cubes of the generator have each model of the formula exactly once (`EachModelOnce`),
  its counter is right (`InFlightExact`), and its propagator computes unit propagation
  (`PropagatesAll`).
* With all their goroutines, locks, watches and failures, the master counts the pieces of a
  partition one by one (`ImplementsCounting`), the pool of the generator works like one thread
  (`ImplementsGenerator`), and a cube is split as if in one step (`SplitsAsPromised`).

## Modules

`Cubes` - literals, cubes and the branching rule `SplitCubeSmart`, as operators.
A `[]int32` cube is a set of literals: neither the branching rule nor ganak depends on
their order. The loop that looks for the best variable (most frequent, the larger
index on a tie) is a `CHOOSE` of a maximum. `Models` is what ganak counts (external).

`InitialSplit` - the loop of `main` that makes the initial cubes, one step per cube.
`MCInitialSplit` gives it all the formulas of two binary clauses.

`Master` - one problem, from `Solve` to its return, with any number of workers.

| Code | Model |
|---|---|
| `taskQueue`, `checkbook`, `nextID`, `activeTasks` | variables of the same names; payloads are `[id, cube]` |
| `doneCh` (capacity 1) | `done`, 0 or 1 |
| `totalCount`, `completedTasks`, `timedOutTasks`, `totalTasks` | variables of the same names |
| the row of `LogResult` | `logged` |
| `workerState.status` | `status[w]`, `"NONE"` before registration |
| a goroutine between two shared operations | `pc[p]` and the locals `todo`, `held`, `task`, `result`, `cube`, `host` |
| `EnqueueCubes`, `makePayload` | `MakePayload`, `ActivatePayload`, `PushPayload` |
| `Solve` | `SolveReset`, the three above, `SolveReceiveDone`, `SolveLogResult` |
| `GetTask` | `RegisterWorker`, `GetTaskRefuse` or `GetTaskAdmit`, `GetTaskPop` or `GetTaskTimeout`, `RecordAssignment`, `AssignTask` |
| `_solve` of the worker | `GanakCounts`, `GanakTimesOut`, `GanakFails` |
| `SubmitResult` | `GetAndRemoveTask`, `UpdateWorkerResult`, then `CountTimeout`, `SplitTimedOut`, enqueue, or `AddCount`/`AddZero`, `CompleteTask`; then `ReadActive`, `ReadQueueAndSignal` |
| lost calls, deaths, restarts | `CallLost`, `WorkerLeaves`, `WorkerJoins` |

A worker has one call outstanding, so the handler's program counter is the worker's.
A step is what the code does between two operations on shared state. The header of the
module says which steps are merged and why nobody can tell. `counted` and `dropped` are
history variables: which models have been added to the total, and which belong to cubes
reported as 0 because ganak printed nothing. The type of a count (`big.Int`) is
unbounded in the code too, so no width is modelled.

Left out of `Master`: logging, literals' order, statistics for the TUI, and the values
of timeouts (a timeout may strike at any time on a cube that leaves a variable of the
formula open). A cube that fixes every variable of the formula is assumed to be counted
before any deadline; without that assumption a run of timeouts never ends, and neither
does the program.

`Counting` - what the master promises, with three variables: the models of the formula lie in
pieces; a piece is counted, dropped or cut in two, in one step each; the total is logged once.
In `Master`, `Open` maps to the pieces: the models of every cube that is in the checkbook, with a
handler that has taken it out, or still to be enqueued; `totalCount` and the row are themselves.

`MCMaster` - the instances of `Master` for TLC.

`TimeoutStream` - how the dynamic timeout reaches the workers.

| Code | Model |
|---|---|
| `TimeoutTracker` | `totalSec`, `sampleCount`; the average times the multiplier, rounded up, is `CurrentTimeoutSec` |
| `TimeoutBroadcaster.subscribers` | `subscribers`, a function from worker IDs to channels |
| a channel of capacity 1 | `chan[s]` (at most one value), `closed` |
| `Solve` for the next file: a new tracker, `Broadcast(tt.CurrentTimeoutSec())` | `NextFile`, `ReadFileTimeout`, `BroadcastFile` |
| the end of `SubmitResult` | `ReadOldTimeout`, `RecordCompletion`, `ReadNewTimeout`, `Broadcast`: four accesses, four steps |
| `SubscribeTimeoutUpdates` | `Subscribe`, `SendCurrent`, `ForwardUpdate`, `LeaveLoop`, and the deferred `Unsubscribe` |
| the stream and its context | `wire[s]`, `ctxDone` |
| `_listen` of the worker | `ListenerGoesOn`, `ListenerBreaks`, `StreamEnds` |
| a task, its submission, a new gRPC channel | `StartTask`, `SubmitCount`, `SubmitOther`, `Reconnect` |

A stream is named by its worker and the number of the task it was opened for. The
broadcaster does not have that number: it knows only the worker, and that is where its
hazards come from. `SubmitResult` reads `s.timeoutTracker` anew at each access, so its accesses
may fall on both sides of a change of file; the next file may come at any time, since `Solve`
may return early. Time is left out here; whether an update finds its timeout exceeded is
a free choice. `MCTimeoutStream` has the instance.

`WorkerSolve` - `_solve` of the worker with its two threads and ganak. Each task has its
own `stop_event`, `killed_event`, process and listener, as in the code, so the model has
them as functions of the task; a listener may be anywhere in its handling of an update when
the main thread goes on to the next task. `elapsed` counts the seconds of the current task.
An update carries any value at any time.

`WorkerContract` - what the master relies on, in four actions: take a task, perhaps see
ganak fail, answer, submit. `Master` has the answers as `GanakCounts`, `GanakTimesOut` and
`GanakFails`; `WorkerSolve` implements the contract with `pc`, `result` and the state of the
current ganak mapped to `phase`, `answer` and `silent`.

`WorkerLoop` - `run` and `_run_with_channel`: channels, polling, back-off, the three kinds
of errors and giving up. A task is one step here. The clock is the time since
`failure_start`, as the code computes it, and the true length of the outage. Its variables and
its specification (`LoopSpec`) have names of their own, so that `WorkerProofs` can extend both
modules of the worker.

`Batch` - the files of `main` in turn. The state that `Solve` makes for a file (`book`,
`queue`, `nextID`, `done`, `total`) is a function of the file; `current` is the file that the
fields of `MasterServer` point to; the counters are shared, as in the code. `tm[w]` is the
task manager a handler has read. The read of the pointer `totalCount` and the addition are two
steps (`LoadTotal`, `AddCount`), since `countMu` guards the value and `mu` the pointer: the
argument of `Add` may be the total of either file. A cube is the set of its models and a split
is any partition; `Master` has the rest. `early` is a history variable: some `Solve` has logged
while a task of its file was in the book or in a handler. `MCBatch` has the instances.

`UnitProp` - what unit propagation computes: the least set of literals around the given ones
that is closed under the clauses, without recursion.

`CubePool` - `generate`, `createCubes`, the pool and the destructor of the cube generator.

| Code | Model |
|---|---|
| `queue`, `cubes`, `pending` | sets of cubes (they clash pairwise, `EachModelOnce`) |
| `m_jobQueue`, `m_results`, `m_inFlight`, `m_shutdown` | `jobQueue`, `results`, `inFlight`, `shutdown` |
| a critical section | one step |
| a condition variable | the threads that are asleep; a wake-up makes one of them test its predicate again |
| `createCubes` | `ExpandLeaf`, `ExpandSplit`; a failed assertion is `ExpandAborts` |
| `submitSATCheck` | `SubmitCount`, `SubmitPush`, `SubmitNotify` |
| `collectResults` | `DecideBlock`, `CollectResults` or `CollectWaits` |
| the three ways out of the loop | `CheckEmpty`, `CheckLimit`, `CheckTime` |
| `workerLoop` | `TakeJob`, `SleepOrExit`, `PushResult`, `CountDown`, `NotifyMain` |

The deadline passes at any time. The variable is chosen freely among the unassigned ones (the
scores decide in the code). The SAT solver answers whether the cube has a model. The committed
generator does not compile: `CubeGeneratorCLI.cpp` uses `m_solvers` and `initPropagator`, while
its header declares `initMainPropagator`, `m_threadPropagators` and `m_bipeClauses`, and
`solver->solve(assumptions)` (line 60) passes literals where `WrapperMinisat.cpp:76` takes
variables (assumptions go through `setAssumption`, line 291). The model follows the `.cpp` file,
and for the solver its comment at line 54, "assume all literals in cube and call solve". The
build has no build type, so assertions are on. The propagator is its result,
`Closure`; the next module justifies that.

`Propagator` - bipe's propagator as `createCubes` drives it: `addClause` for each clause, then
cubes taken up, branched on both ways and put back. A cube returns to the queue when the SAT solver
has answered for it, and not at all when it is refuted, so the cubes are taken up in any order.
`propagate` is one step per entry of a list;
the list it compacts in place is the pair of what it has kept and what it has still to read.
`m_assign` is the trail. `MCCubePool` and `MCPropagator` give the formulas. A clause may repeat a
literal and contain a literal with its negation: `parseDIMACS` of `cube_cli` (`main.cpp:76-89`)
keeps both, and so do `WeightedCNF` and `initPropagator`. A clause `1 1 2` is then twice in the
watch list of `1`, and `1 1` is not a unit for the propagator: it is stored as a binary clause,
by which `-1` implies `1`. Unit propagation is therefore defined by the positions of a clause
(`Closed` in `UnitProp`), which agrees with the usual definition when no literal is repeated. The
parser does not compare literals with the number of variables in the header; a formula with a
literal beyond it, which the program would use as an index out of bounds, is outside the model.

`Generator` - what `generate` computes, without threads: satisfiable cubes, of which one at a time
gives way to those of its halves that have a model. In `CubePool`, `Live` maps to them: the cubes
with a model in the queue, the jobs, the threads, the results and what is returned.

`SplitContract` - what `CubePool` takes `createCubes` for: the queue starts with the closure of
nothing, and one step puts in the place of a cube the closures of its halves that are consistent.
In `Propagator`, `Queue` maps to that queue: the cubes as sets of literals, where the cube being
split stands for the halves made so far until the split ends.

`CubesProofs` (also about `UnitProp`), `InitialSplitProofs`, `MasterProofs`, `BatchProofs`,
`TimeoutStreamProofs`, `WorkerProofs` (about `WorkerSolve` and `WorkerLoop`), `CubePoolProofs`,
`PropagatorProofs` - the theorems.

Operators marked "Mutant" are wrong variants of the definition that follows them. They
are used by nothing in the specification; putting one in the place of that definition
makes TLC report the property that `PROJECT.json` names, which shows that the property
can tell the difference.

## Runs

| Run | Instance | Shows |
|---|---|---|
| `InitialSplit` | 3 variables, 3 rounds, all 1296 formulas of two binary clauses | `AlwaysPartition`, `CubesFixRound` at every step |
| `MasterSafety` | 2 workers, cap of 1 busy worker, `x1 \/ x2` over 3 variables, 2 initial cubes; ganak may fail, workers die and restart, calls are lost | all invariants of `Master`; `ImplementsCounting` |
| `MasterLiveness` | the same formula, no faults, no cap, a queue of 3 that fills up | `SolveReturns`, `EventuallyExact` |
| `MasterEarlyReturn` | 2 workers, 1 initial cube | a counterexample to `SolveBlocksUntilComplete` |
| `TimeoutStream` | a worker with 2 tasks, one with 1, reconnections, 2 files | `OpenChannels`, `LastBroadcastArrives` |
| `WorkerSolve` | 2 tasks, 3 seconds, limits of 2 and 3 s or none, updates of 0, 1, 2 s or no limit | `KilledIsTimeout`, `TimeoutIsDue`, `TimedTaskAnswered`, `ImplementsContract` |
| `WorkerLoop` | the constants of `worker.py`, tasks of 1 and 45 s | `ExitsForAReason`, `Recovers` |
| `Batch` | 2 workers, 2 files of 2 cubes, one of which can time out | `RowsAreRight`, `IDsNameOneTask`, `EndsUnlessEarly` |
| `BatchHangs` | the same with 3 cubes in the second file | a counterexample to `AllFilesDone` |
| `CubePool` | 2 threads, 3 variables, 4 formulas, a limit of 3 cubes | `InFlightExact`, `EachModelOnce`, `LosesOnlyUncollected` (`OnlyResultsLeft` and `MissesOnlyUncollected`), `AbortsOnlyIfRefuted`, `ImplementsGenerator`, `Returns` |
| `CubePoolLost` | the same | a counterexample to `UnsatMeansNothingSat` |
| `Propagator` | 273 formulas over 4 variables, 66 of them with repeated or opposite literals in a clause, 3 cubes taken up | `AssertionsHold` (`EnqueuedOnce` and `CubeRefills`), `WatchesFirstTwo`, `PropagatesAll`, `LoadedRefuted`, `SplitsAsPromised` |

**Bounds.** Two initial cubes and two workers are enough for every pair of handlers to
interleave and for `Solve`'s enqueue loop to interleave with both. The formula has two
variables to split on, so a cube can time out, its half can time out again, and the
recursion ends. One variable of the formula's header occurs in no clause. `MasterSafety`
uses a queue that never fills; the queue of `MasterLiveness` does. In
`InitialSplit` some formulas mention fewer variables than there are rounds, which takes
the fallback of `SplitCubeSmart`.

With a queue of 2 the instance of `MasterLiveness` deadlocks: both handlers block on the
push of a half while no worker is left to pop. With 10000 slots this needs as many
tasks in the queue; the theorems hold for any capacity.

In `TimeoutStream` worker *a* has an old and a new stream, which is what the broadcaster can
confuse; worker *b* has one task, which times out, so that its stream gets what others
broadcast and it makes no broadcast itself. The second file makes `Solve` broadcast next to *a*'s
`SubmitResult`, and with another value: "no limit" from the new tracker, against the timeout of
*a*'s sample. `MinDuration` is 2 there instead of 30, and the duration 1 is raised to it. In `WorkerSolve` the second task meets the listener of the first, the clock passes
every limit, and 100 stands for `2147483647`. `TimedTaskAnswered` speaks of the tasks whose
limit the bounded clock reaches. In `WorkerLoop` nothing is scaled: the clocks stop at 130 s,
beyond the 120 s after which the worker should give up.

In `Batch` the split of the first file makes the IDs 3 and 4; in `BatchHangs` the second file
has an ID 3 of its own for the late result to hit. The four formulas of `CubePool` have a half
that only the solver refutes, a unit with propagation, no model without propagation seeing it,
and no model with propagation seeing it; two jobs for two threads is the most that is ever in
flight, because a split waits for the counter to be 0. `Propagator` has all pairs of five long
clauses with short ones before and behind, so that clauses are shortened when they are added,
lists have several entries, and conflicts come in the middle of a list; three cubes taken up are
six branches and five cuts of the trail. The clauses with repeated literals (`Repeating`) have
the repetition in the watched positions, behind them, and everywhere, in long and in binary
clauses, and as the rest of a clause that loses its other literals to units.

Deadlock is not checked in the runs whose system ends when the bounded tasks are used up
(`TimeoutStream`, `WorkerSolve`), when the worker exits (`WorkerLoop`), or when the program
returns or the bounded cubes are used up (`CubePool`, `Propagator`).

**Symmetry.** The workers of `Master` are interchangeable; its safety runs use `Permutations(Workers)`,
the runs with temporal properties do not.

**Fairness.** Weak fairness of Solve and of each worker (with its handlers): goroutines
and processes are scheduled, blocked channel operations proceed when they can, ganak ends
or is killed. Nothing is assumed of faults. `Batch` has the same fairness. In `CubePool` the
main thread and each thread of the pool run, and the deadline passes.

In `WorkerSolve` the main thread runs, time passes, and a listener that has decided to kill
does it (weak fairness); ganak may run forever and no update need come. In `WorkerLoop` the
worker runs (weak fairness), and a master that is up answers `GetTask` at some time although
other errors come in between (strong fairness): an error status is an answer to one call and
nothing in the master makes it the answer to all. `TimeoutStream` has no liveness
property: an update reaches a listener only if a broadcast is made, and nothing forces one.

## What the code does not do

Sentences of the comments and the report that do not hold. The runs named in brackets have
the counterexamples; the others follow from reading the model against the code.

1. `Solve` "blocks until every task is complete" (`server.go:77`). A handler that splits a
   cube takes it out of `activeTasks` first. If another handler completes the last active
   task before the halves are counted, or completes the first half before the second is
   made, `Solve` wakes up and logs a count that is too small. No timeout is needed for it
   either: a handler takes its task out of `activeTasks` before it adds its count, and the
   handler of the last task may signal in between. The same window is open while
   `Solve` itself enqueues: the first cube can be complete before the second is made, and the
   signal stays in `doneCh`. (`MasterEarlyReturn`)
2. "Solve each file in turn", then "All files done" (`main.go:70`, `101`). After an early
   return the halves of the last split go on being solved: a worker takes one while `Solve`
   sleeps its three seconds and submits it when the next file is loaded. Its ID names a task of
   that file, which is taken out of the checkbook, and its count is added to that file's total.
   The task's own result is then refused before the check for the end; if it was the last one,
   `Solve` waits forever. (`BatchHangs`)
3. "nothing was ever SAT, UNSAT" (`CubeGeneratorCLI.cpp:246`). A result that a thread posts and
   counts down after `collectResults` has looked and before the loop condition is evaluated is
   left in `m_results`, and its cube is lost; if it was the only one, a satisfiable formula is
   reported as unsatisfiable. (`CubePoolLost`) That is the only way in which the generator loses
   a model (`MissesOnlyUncollected`).
4. In the same loop the counter can be one too high: a thread posts, the main thread collects an
   UNSAT result, and waits for another because the thread has not counted down yet. The
   notification that follows finds no result and nobody sends another one: `generate` hangs.
   `Returns` says that this is the only way in which it does not end.
5. A formula that unit propagation refutes ends the generator with a failed assertion
   (`CubeGeneratorCLI.cpp:108`) instead of `"satisfiable": false`. `AbortsOnlyIfRefuted`.
6. `MaxWorkers` "limits how many workers may hold an active task simultaneously"
   (`config.go:34`). The check and the mark are apart, with a blocking pop in between.
7. "Workers can join or leave the system at any time" (`docs/report/main.tex:480`). The task
   of a worker that leaves is never handed out again, and a worker whose answer was lost
   stays BUSY and takes a place under the cap.
8. Workers "continuously receive" updated timeouts (the report). The handler of the previous
   task's stream, when it ends, unsubscribes by worker ID and closes the channel of the
   current task.
9. "If a new timeout is exceeded" during execution, the worker terminates the solver (the
   report). The listener compares an update with the clock once, when it arrives; a shorter
   timeout that passes later is not enforced unless another update comes.
10. "We retry for up to GIVE_UP_AFTER_SEC before exiting" (`worker.py:20`). The time of the
    first failure is a local variable that is lost with each new channel, so the worker
    retries forever.
11. `cube_gen_cli.cpp` takes "the full trail" of a branch (line 510) through a pointer fetched
    at line 502, before literals are pushed. The vector moves when it grows, and at the first
    split it is empty: the program reads through a null pointer on every formula with a variable.

The other side of 1: within one file no model is counted twice, nothing is lost from the
checkbook, and the total becomes right once the remaining results arrive (`Conservation`,
`NeverOvercounts`, `EventuallyExact`); it is the logged value that is wrong. Of 2: without an
early return files never mix, although handlers of one may still run when the next is loaded
(`RowsAreRight`, `IDsNameOneTask`). Of 8: the broadcaster never panics on a closed channel
(`OpenChannels`).

Two handlers may also compute timeouts in one order and broadcast them in the other. What
holds is that all registered streams end up with the same value, the last one broadcast
(`LastBroadcastArrives`), which need not be the last one computed.

## Proofs

For every number of workers, formula, queue capacity and cap, with and without faults:

* `SplitVarIsFree`, `SplitPartitions` - the branching rule chooses a free variable of the
  formula and its halves partition the models of the cube. The lemma behind it is that
  the maximum the `CHOOSE` asks for exists, which needs that the formula has finitely
  many occurrences of literals. `SplitVarIsNew` is about the fallback as well: the number
  after the largest is a variable the cube has not fixed.
* `InitialCubesPartition` - the loop of `main` keeps the partition. The inductive
  invariant adds that the cubes of round *r* fix *r* variables, so that a free variable is
  left in each round. `RoundsFixVariables` needs no such proviso: it bounds the variables
  of a cube by `NumVars` plus the rounds and rests on `SplitVarIsNew`.
* `TypeCorrect`, `TasksAreUnique`, `ActiveCountsBook`, `ModelsAreConserved`,
  `CountIsBounded` and `QuiescentCountIsExact` (together `MasterCountIsSound`),
  `DoneIsNotMissed`, `CountersAddUp` - the invariants of `Master`.

The invariant of `Master` (`IInv` in `MasterProofs`) is the conjunction of
`TypeOK`; `Flow`, which says what the locals of a goroutine hold at each program counter
(a worker in `removed` has the cube of the payload it was given, an enqueuing goroutine
has a cube left, nothing exists before Solve has started); `EachTaskOnce`;
`ActiveIsBook`; `Conservation`; `CountIsCounted` (the total is the number of models in
`counted`); and `NoMissedDone`. None is inductive alone: removing a result needs
`EachTaskOnce` to know that the entry still has the cube that was counted; the split
needs `Flow` for a free variable; `NoMissedDone` needs `ActiveIsBook`, because
`IsEmpty` reads the counter and the property speaks of the checkbook. `CountIsBounded`
and `QuiescentCountIsExact` follow from the conjunction by cardinality facts. `CountersAddUp`
comes on top of it: the sets that `TasksBalance` counts change by one element at a time, which
is what the lemmas about `Tagged` and `Slots` in `CubesProofs` are for.

* `MasterImplementsCounting` - `Master` implements `Counting` under the mapping `Open`. Most steps
  move a cube and leave the set of pieces alone (from `todo` into the checkbook, from there into
  a handler), and `Conservation` says that pieces are disjoint, so that what a `SubmitResult` has
  in hand is nobody else's (`PieceInHand`). Three steps are not stutters: `AddCount` counts,
  `AddZero` drops, and `SplitTimedOut` halves (by `SplitPartitions`). The row is written once
  (`LogOnce`). The one value the mapping does not constrain is *which* total is logged: `Log` may
  happen at any time, which is 1 above. Nothing else of the count can go wrong.

For every number of files, all cubes of their models and every number of workers:

* `TypeCorrect`, `ResultsMeetTheirTask`, `RowsHold` - the invariants of `Batch`. `Shape` (types,
  `Flow`, `Suffix`) holds whatever is logged; `OnTime` holds until a `Solve` logs too early. It
  says that only the current file has tasks and that a handler that works on one has read the
  state of that file (`OneFile`), that a task is in one slot of the queue or with one worker
  (`OnePlace`), and that models and tasks balance: the total, plus the models in the book, in
  the cubes still to be enqueued and in the hands of handlers, is the count of the file, and the
  same for the counters (`Balance`). A row is written when all of these are empty, or else
  `early` is set.

For every number of workers, tasks, files and reconnections, and every configuration of the timeout:

* `TypeCorrect`, `ChannelsAreOpen`, `BroadcastsArrive` - the invariants of `TimeoutStream`. Its `IInv` adds
  to `TypeOK` and the two properties `StreamFlow` (nothing exists of a stream before its task;
  a channel that is closed or was reached by a broadcast has a handler that got as far as
  `Subscribe`; a cancelled stream has no listener) and `SlotKeeps` (a value broadcast to a
  handler that has not yet sent the current timeout is still in the slot). The second is what
  makes `BroadcastsArrive` hold although the handler sends a value of its own, which may be
  newer or older, after it has subscribed.

For every number of tasks, every limit and every sequence of updates:

* `TypeCorrect`, `KilledRunsAreTimeouts`, `TimeoutsAreDue` - the invariants of `WorkerSolve`. The invariant
  says that the flag is set before the kill (`FlagFirst`), that the clock has passed a limit
  before anyone acts on it (`DueFirst`), and what ganak may be doing at each point of the main
  thread (`GanakFlow`).
* `WorkerImplementsContract` - every step of the threads is a step of `WorkerContract` or
  changes nothing in it. `GanakFlow` is needed for the end of ganak (only while the task is
  being solved), `FlagFirst` for the answer (a killed ganak is not parsed).

For every delay, solving time and sequence of outages:

* `OnlyErrorsEndTheWorker` - a worker exits for a reason, and the reason is never the outage
  (10 above). The invariant is that no failure is on record while a channel is in use: the first
  failure on a channel leads to the next channel.

For every formula:

* `ClosureModels` - a set of literals has the same models as its closure; with it a branch that
  propagation refutes has no model, and the two halves of a cube partition its models.

For every formula, number of threads and limit (a pool without threads included: `--threads 0`,
`main.cpp:155`, is accepted; the jobs of the first split are then never taken and `generate` waits
forever, so that `Returns`, which the run checks with two threads, does not hold of it):

* `PoolTypes`, `PoolCounter`, `PoolQuiet`, `PoolAsserts`, `PoolKeepsModels` - the invariants of
  `CubePool`. The counter invariant is proved first (`CountedInvariant`: the type invariant, the
  exact counter, and where `generate` can be while halves are still to be submitted);
  the end of the loop follows from it, since each way out reads 0. `PoolKeepsModels` adds that
  every queued cube is consistent and its own closure (which is why the assertions hold) and
  follows each cube through jobs, threads and results.
* `PoolMissesOnlyUncollected` (with `PoolQuiet`: `PoolLosesOnlyUncollected`) - from `EachModelOnce` and `OnlyResultsLeft`, with two more facts:
  the queue is drained when `generate` returns and UNSAT is reported only without cubes
  (`Drained`), and what a thread reports is right (`ResultsTrue`).
* `PoolImplementsGenerator` - `CubePool` implements `Generator` under the mapping `Live`. Jobs and
  results only move cubes, or drop one without a model, so they change nothing in `Live`.
  `ExpandSplit` is a step of `Generator` if the cube has a model, and a stutter otherwise; that the
  cube is gone from `Live` afterwards needs `EachModelOnce`, since it must be nowhere else.

For every formula, and every sequence of cubes taken up and variables branched on:

* `TypeCorrect`, `NeverEnqueuedTwice` and `CubesRefill` (together `AssertionsNeverFail`),
  `WatchesKept`, `PropagationIsExact`, `ConstructorRefutes` - the invariants of `Propagator`. With them the `Closure` that `CubePool`
  uses for the propagator is what the propagator computes. Three inductive invariants, each
  resting on those before it:
  * `Shape`: what is stored of a clause are at least three of its literals, each from a position
    of its own (`Drawn`); a clause is in the list of a literal, or in the two pieces of it while it
    is compacted, as often as it watches the literal (`WatchCount`: twice if both watches are on
    it); no variable is twice on the trail; every cube begins with the units and the trail with
    the cube. The step that needs all of it is `MoveWatch`, which takes a clause out of the list
    being read and puts it into another.
  * `Sound`: what is on the trail, what a literal implies and what a conflict refutes follows
    from what was decided; the literals that `addClause` drops are false in every case.
  * `Complete`: nothing that a propagated literal forces is missing. `Settled(l, T)` says that
    `T` has all that `l` implies and a true literal in every clause that watches `-l`. The literals
    propagated so far are settled in the trail; the units are settled among themselves and the
    cube in itself, which is what remains when `restart` and `cancelUntilPos` cut the trail
    without touching the watches. It is preserved because a watch moves only to a literal without
    a value, never to one that is false (`OnTrailKept`). A trail whose literals are all settled is closed
    (`SettledClosed`), so by `Sound` it is the closure.
* `SplitImplementsContract` - `Propagator` implements `SplitContract` under the mapping `Queue`. A
  step of `propagate`, a restart or a cut of the trail changes nothing in it; the end of a split
  does, and there `Sound` and `Complete` give the closures (`TrailIsClosure`, `HalfFacts`). The
  invariant it needs besides is `Apart`: the cubes clash pairwise, and with the cube being split,
  except for its own first half. Without it the mapping could not tell the first half from a cube
  that happens to have the same literals. `CubePool` has the same steps as `ExpandLeaf` and
  `ExpandSplit`, so its theorems speak about cubes that the propagator really makes.
* `CubesNeverOverlap` - no assignment satisfies two cubes of the queue; from `Apart`.

Assumptions, evaluated by TLC on every run: the clauses are over the variables of the
header, the occurrences of literals are finitely many, the initial cubes partition the
models (which is what `InitialCubesPartition` gives), the workers and the models of a file
are finitely many; task
timeouts and durations are positive, the clock of a task stops before "no timeout".

Only model-checked: the liveness properties `SolveReturns`, `EventuallyExact`,
`TimedTaskAnswered`, `Recovers`, `EndsUnlessEarly` and `Returns` (the prover has no fairness),
and the three counterexamples. Every invariant and every refinement of a run is a theorem.

## Plan

Left, in this order:

1. Composition: one specification with the pool of `CubePool` and the propagator's own steps, and
   the proof that it implements `Generator`. `SplitImplementsContract` and
   `PoolImplementsGenerator` are its two layers; that `ExpandSplit` takes the halves `SplitContract`
   promises is read off the two definitions and not stated as a theorem.
2. `Cnf` - `ParseCNF` over tokens, against a reference definition.
3. `Tui` - the poller of `tui/stats.go`, with `ReportStatus`, `GetMasterStats` and the status
   reporter of the worker.

## Not modelled

* `cube_gen_cli.cpp`: the program ends at its first split (11 above), so there is no behaviour
  beyond it to state properties of.
* The choice of variables (tree decomposition, VSADS scores): any choice is allowed, so no
  property depends on it.
* Rendering, configuration files, scripts and generated stubs: no state the rest depends on.
* Most of the C and C++ in the repository, by far the larger part of its lines, is vendored:
  d4 with two copies of glucose and a minisat, bipe, FlowCutter, fuzzing tools. HydraSAT calls
  three things in it: the propagator (modelled), a SAT solver (`Sat`, by what it answers) and
  the tree decomposition (left open). The methods of d4 (counting, enumeration, MaxSharpSAT) are
  not called at all. So the share of the repository's lines that the modules stand for is small,
  and models of the rest would say nothing about this system.
