------------------------------- MODULE Master -------------------------------
(***************************************************************************)
(* One problem solved by the HydraSAT master and its workers               *)
(* (go-master/master/server.go, task_manager.go, worker_tracker.go and the *)
(* work loop of python-worker/worker.py).                                  *)
(*                                                                         *)
(* MasterServer.Solve loads the initial cubes into the task queue and      *)
(* waits on the done channel.  Each worker loops: GetTask, ganak,          *)
(* SubmitResult.  A worker has one call outstanding at a time, so the      *)
(* goroutine of the handler that serves it is modelled by the worker's own *)
(* program counter.  A step of the model is what the code does between two *)
(* operations on state that another goroutine shares: a mutex section, an  *)
(* atomic counter, a channel operation.  Steps are merged only where no    *)
(* other goroutine can tell: nextID is used by makePayload alone, and the  *)
(* counters Solve resets and sets before it enqueues are changed by others *)
(* only when there are tasks.  LogResult's loads of the counters are taken *)
(* as one snapshot.                                                        *)
(*                                                                         *)
(* counted and dropped are history variables.  They hold the models of the *)
(* formula whose number has been added to totalCount, and the models of    *)
(* cubes for which the worker reported "0" because it found no count in    *)
(* the output of ganak.  No action reads them.                             *)
(***************************************************************************)
EXTENDS Cubes

CONSTANTS
    NumVars,          \* CNFData.NumVars
    Clauses,          \* CNFData.Clauses
    InitialCubes,     \* the cubes main passes to Solve
    Workers,          \* worker processes; each has its own (hostname, id)
    Solver,           \* the goroutine that runs Solve
    MaxWorkers,       \* HeuristicConfig.MaxWorkers, 0 for no limit
    QueueCap,         \* capacity of taskQueue, 10000 in the code
    GanakMayFail,     \* may ganak end without printing a count?
    CallsMayFail      \* may workers die and calls be lost?

Procs == Workers \cup {Solver}

AllModels == Models(NumVars, Clauses, {})

ModelsOf(cube) == Models(NumVars, Clauses, cube)

CubeType == SUBSET Literals(NumVars)

(***************************************************************************)
(* The formula is well formed and the initial cubes partition its models   *)
(* (InitialSplit shows that for the cubes main computes).                  *)
(***************************************************************************)
ASSUME FormulaAssumption ==
    /\ NumVars \in Nat
    /\ Clauses \in Seq(Seq(Literals(NumVars)))
    /\ IsFiniteSet(Occurrences(Clauses))

ASSUME InitialCubesAssumption ==
    /\ InitialCubes \in Seq(CubeType)
    /\ InitialCubes # <<>>
    /\ \A i, j \in DOMAIN InitialCubes :
          i # j => ModelsOf(InitialCubes[i]) \cap ModelsOf(InitialCubes[j]) = {}
    /\ \A a \in AllModels :
          \E i \in DOMAIN InitialCubes : a \in ModelsOf(InitialCubes[i])

ASSUME ProcsAssumption ==
    /\ IsFiniteSet(Workers)
    /\ Solver \notin Workers
    /\ MaxWorkers \in Nat
    /\ QueueCap \in Nat \ {0}
    /\ GanakMayFail \in BOOLEAN
    /\ CallsMayFail \in BOOLEAN

VARIABLES
    \* TaskManager
    taskQueue, checkbook, nextID, activeTasks,
    \* MasterServer
    done, totalCount, completedTasks, timedOutTasks, totalTasks, logged,
    \* WorkerTracker: the status of each worker, "NONE" before it registers
    status,
    \* the goroutines: program counter, cubes that a running EnqueueCubes has
    \* still to wrap, payload it is about to push; the payload a worker works
    \* on, its result, and what SubmitResult got back from the checkbook
    pc, todo, held, task, result, cube, host,
    \* history
    counted, dropped

managerVars == <<taskQueue, checkbook, nextID, activeTasks>>
statVars    == <<totalCount, completedTasks, timedOutTasks, totalTasks>>
localVars   == <<todo, held, task, result, cube, host>>
ghostVars   == <<counted, dropped>>
vars == <<managerVars, done, statVars, logged, status, pc, localVars, ghostVars>>

-----------------------------------------------------------------------------
\* IDs count from 1, so the ID 0 marks "no payload".
NoTask == [id |-> 0, cube |-> {}]

Payloads == [id : Nat, cube : CubeType]

NoHost == Solver

Entries == [cube : CubeType, hostname : Procs]

NotLogged == [count |-> -1, completed |-> 0, timedOut |-> 0, total |-> 0]

EnqueuePcs == {"enqueue", "activate", "push"}

WorkerPcs == {"idle", "registered", "select", "popped", "recorded", "solving",
              "submit", "removed", "updated", "timedOut", "added", "readActive",
              "readQueue", "gone"} \cup EnqueuePcs

SolverPcs == {"boot", "wait", "log", "returned"} \cup EnqueuePcs

Statuses == {"NONE", "IDLE", "BUSY", "TIMEOUT"}

Init ==
    /\ taskQueue = <<>>
    /\ checkbook = [i \in {} |-> [cube |-> {}, hostname |-> NoHost]]
    /\ nextID = 0
    /\ activeTasks = 0
    /\ done = 0
    /\ totalCount = 0
    /\ completedTasks = 0
    /\ timedOutTasks = 0
    /\ totalTasks = 0
    /\ logged = NotLogged
    /\ status = [w \in Workers |-> "NONE"]
    /\ pc = [p \in Procs |-> IF p = Solver THEN "boot" ELSE "idle"]
    /\ todo = [p \in Procs |-> <<>>]
    /\ held = [p \in Procs |-> NoTask]
    /\ task = [w \in Workers |-> NoTask]
    /\ result = [w \in Workers |-> "none"]
    /\ cube = [w \in Workers |-> {}]
    /\ host = [w \in Workers |-> NoHost]
    /\ counted = {}
    /\ dropped = {}

Goto(p, l) == pc' = [pc EXCEPT ![p] = l]

\* The locals of a worker that nothing reads any more.
Forget(w) ==
    /\ task' = [task EXCEPT ![w] = NoTask]
    /\ result' = [result EXCEPT ![w] = "none"]

-----------------------------------------------------------------------------
(***************************************************************************)
(* TaskManager.EnqueueCubes, run by Solve on the initial cubes and by      *)
(* SubmitResult on the two halves of a cube that timed out.  makePayload   *)
(* takes an ID, writes the checkbook, and then counts the task as active   *)
(* in a step of its own; the push that follows blocks while the queue is   *)
(* full.                                                                   *)
(***************************************************************************)
MakePayload(p) ==
    /\ pc[p] = "enqueue"
    /\ todo[p] # <<>>
    /\ LET id == nextID + 1
           c  == Head(todo[p])
       IN  /\ nextID' = id
           /\ checkbook' = [i \in DOMAIN checkbook \cup {id} |->
                               IF i = id THEN [cube |-> c, hostname |-> NoHost]
                                         ELSE checkbook[i]]
           /\ held' = [held EXCEPT ![p] = [id |-> id, cube |-> c]]
    /\ todo' = [todo EXCEPT ![p] = Tail(todo[p])]
    /\ Goto(p, "activate")
    /\ UNCHANGED <<taskQueue, activeTasks, done, statVars, logged, status, task, result,
                   cube, host, ghostVars>>

ActivatePayload(p) ==
    /\ pc[p] = "activate"
    /\ activeTasks' = activeTasks + 1
    /\ Goto(p, "push")
    /\ UNCHANGED <<taskQueue, checkbook, nextID, done, statVars, logged, status,
                   localVars, ghostVars>>

PushPayload(p) ==
    /\ pc[p] = "push"
    /\ Len(taskQueue) < QueueCap
    /\ taskQueue' = Append(taskQueue, held[p])
    /\ held' = [held EXCEPT ![p] = NoTask]
    /\ Goto(p, IF todo[p] # <<>> THEN "enqueue"
               ELSE IF p = Solver THEN "wait" ELSE "readActive")
    /\ UNCHANGED <<checkbook, nextID, activeTasks, done, statVars, logged, status,
                   todo, task, result, cube, host, ghostVars>>

-----------------------------------------------------------------------------
(***************************************************************************)
(* MasterServer.Solve.  Until it has run there is no task manager.         *)
(***************************************************************************)
SolveReset ==
    /\ pc[Solver] = "boot"
    /\ totalTasks' = Len(InitialCubes)
    /\ todo' = [todo EXCEPT ![Solver] = InitialCubes]
    /\ Goto(Solver, "enqueue")
    /\ UNCHANGED <<managerVars, done, totalCount, completedTasks, timedOutTasks, logged,
                   status, held, task, result, cube, host, ghostVars>>

SolveReceiveDone ==
    /\ pc[Solver] = "wait"
    /\ done = 1
    /\ done' = 0
    /\ Goto(Solver, "log")
    /\ UNCHANGED <<managerVars, statVars, logged, status, localVars, ghostVars>>

SolveLogResult ==
    /\ pc[Solver] = "log"
    /\ logged' = [count |-> totalCount, completed |-> completedTasks,
                  timedOut |-> timedOutTasks, total |-> totalTasks]
    /\ Goto(Solver, "returned")
    /\ UNCHANGED <<managerVars, done, statVars, status, localVars, ghostVars>>

-----------------------------------------------------------------------------
(***************************************************************************)
(* GetTask, the handler and the worker's call to it.                       *)
(***************************************************************************)
RegisterWorker(w) ==
    /\ pc[w] = "idle"
    /\ status' = [status EXCEPT ![w] = IF @ = "NONE" THEN "IDLE" ELSE @]
    /\ Goto(w, "registered")
    /\ UNCHANGED <<managerVars, done, statVars, logged, localVars, ghostVars>>

BusyWorkers == {w \in Workers : status[w] = "BUSY"}

\* The cap on busy workers is reached, or Solve has not been called yet.
NoTaskForNow ==
    \/ MaxWorkers > 0 /\ Cardinality(BusyWorkers) >= MaxWorkers
    \/ pc[Solver] = "boot"

GetTaskRefuse(w) ==
    /\ pc[w] = "registered"
    /\ NoTaskForNow
    /\ Goto(w, "idle")
    /\ UNCHANGED <<managerVars, done, statVars, logged, status, localVars, ghostVars>>

GetTaskAdmit(w) ==
    /\ pc[w] = "registered"
    /\ ~NoTaskForNow
    /\ Goto(w, "select")
    /\ UNCHANGED <<managerVars, done, statVars, logged, status, localVars, ghostVars>>

\* Mutant: the payload stays in the queue.
GetTaskPeek(w) ==
    /\ pc[w] = "select"
    /\ taskQueue # <<>>
    /\ task' = [task EXCEPT ![w] = Head(taskQueue)]
    /\ Goto(w, "popped")
    /\ UNCHANGED <<managerVars, done, statVars, logged, status, todo, held, result, cube,
                   host, ghostVars>>

GetTaskPop(w) ==
    /\ pc[w] = "select"
    /\ taskQueue # <<>>
    /\ task' = [task EXCEPT ![w] = Head(taskQueue)]
    /\ taskQueue' = Tail(taskQueue)
    /\ Goto(w, "popped")
    /\ UNCHANGED <<checkbook, nextID, activeTasks, done, statVars, logged, status,
                   todo, held, result, cube, host, ghostVars>>

\* The queue has stayed empty for five seconds.
GetTaskTimeout(w) ==
    /\ pc[w] = "select"
    /\ taskQueue = <<>>
    /\ status' = [status EXCEPT ![w] = "IDLE"]
    /\ Goto(w, "idle")
    /\ UNCHANGED <<managerVars, done, statVars, logged, localVars, ghostVars>>

RecordAssignment(w) ==
    /\ pc[w] = "popped"
    /\ checkbook' = IF task[w].id \in DOMAIN checkbook
                    THEN [checkbook EXCEPT ![task[w].id].hostname = w]
                    ELSE checkbook
    /\ Goto(w, "recorded")
    /\ UNCHANGED <<taskQueue, nextID, activeTasks, done, statVars, logged, status,
                   localVars, ghostVars>>

AssignTask(w) ==
    /\ pc[w] = "recorded"
    /\ status' = [status EXCEPT ![w] = "BUSY"]
    /\ Goto(w, "solving")
    /\ UNCHANGED <<managerVars, done, statVars, logged, localVars, ghostVars>>

-----------------------------------------------------------------------------
(***************************************************************************)
(* The worker's _solve, seen from outside.  Ganak counts the models of the *)
(* cube, or is killed at a deadline, or ends without printing a count and  *)
(* parse_ganak_unweighted_count turns that into "0".  A cube that fixes    *)
(* every variable of the formula is decided by propagation alone: it is    *)
(* assumed never to run into a deadline.                                   *)
(***************************************************************************)
Solved(w, r) ==
    /\ pc[w] = "solving"
    /\ result' = [result EXCEPT ![w] = r]
    /\ Goto(w, "submit")
    /\ UNCHANGED <<managerVars, done, statVars, logged, status, todo, held, task, cube,
                   host, ghostVars>>

GanakCounts(w) == Solved(w, "count")

GanakTimesOut(w) == FreeVars(task[w].cube, Clauses) # {} /\ Solved(w, "timeout")

GanakFails(w) == GanakMayFail /\ Solved(w, "failed")

-----------------------------------------------------------------------------
(***************************************************************************)
(* SubmitResult.                                                           *)
(***************************************************************************)

\* Mutant: activeTasks is not decremented.
GetAndRemoveTaskStillActive(w) ==
    /\ pc[w] = "submit"
    /\ checkbook' = [i \in DOMAIN checkbook \ {task[w].id} |-> checkbook[i]]
    /\ cube' = [cube EXCEPT ![w] = checkbook[task[w].id].cube]
    /\ host' = [host EXCEPT ![w] = checkbook[task[w].id].hostname]
    /\ Goto(w, "removed")
    /\ UNCHANGED <<taskQueue, nextID, activeTasks, done, statVars, logged, status, todo, held,
                   task, result, ghostVars>>

\* A result for an unknown task is refused.
GetAndRemoveTask(w) ==
    /\ pc[w] = "submit"
    /\ LET id == task[w].id
       IN IF id \in DOMAIN checkbook
          THEN /\ checkbook' = [i \in DOMAIN checkbook \ {id} |-> checkbook[i]]
               /\ activeTasks' = activeTasks - 1
               /\ cube' = [cube EXCEPT ![w] = checkbook[id].cube]
               /\ host' = [host EXCEPT ![w] = checkbook[id].hostname]
               /\ Goto(w, "removed")
               /\ UNCHANGED <<task, result>>
          ELSE /\ UNCHANGED <<checkbook, activeTasks, cube, host>>
               /\ Forget(w)
               /\ Goto(w, "idle")
    /\ UNCHANGED <<taskQueue, nextID, done, statVars, logged, status, todo, held, ghostVars>>

\* The worker is looked up under the host the checkbook had for the task.
UpdateWorkerResult(w) ==
    /\ pc[w] = "removed"
    /\ status' = [status EXCEPT ![host[w]] =
                     IF result[w] = "timeout" THEN "TIMEOUT" ELSE "IDLE"]
    /\ host' = [host EXCEPT ![w] = NoHost]
    /\ Goto(w, "updated")
    /\ UNCHANGED <<managerVars, done, statVars, logged, todo, held, task, result, cube,
                   ghostVars>>

CountTimeout(w) ==
    /\ pc[w] = "updated"
    /\ result[w] = "timeout"
    /\ timedOutTasks' = timedOutTasks + 1
    /\ Goto(w, "timedOut")
    /\ UNCHANGED <<managerVars, done, totalCount, completedTasks, totalTasks, logged, status,
                   localVars, ghostVars>>

\* Mutant: the second half is the cube itself, without the negated variable.
SplitTimedOutWhole(w) ==
    /\ pc[w] = "timedOut"
    /\ totalTasks' = totalTasks + 2
    /\ todo' = [todo EXCEPT ![w] = <<SplitCubeSmart(cube[w], Clauses)[1], cube[w]>>]
    /\ cube' = [cube EXCEPT ![w] = {}]
    /\ Forget(w)
    /\ Goto(w, "enqueue")
    /\ UNCHANGED <<managerVars, done, totalCount, completedTasks, timedOutTasks, logged,
                   status, held, host, ghostVars>>

SplitTimedOut(w) ==
    /\ pc[w] = "timedOut"
    /\ totalTasks' = totalTasks + 2
    /\ todo' = [todo EXCEPT ![w] = SplitCubeSmart(cube[w], Clauses)]
    /\ cube' = [cube EXCEPT ![w] = {}]
    /\ Forget(w)
    /\ Goto(w, "enqueue")
    /\ UNCHANGED <<managerVars, done, totalCount, completedTasks, timedOutTasks, logged,
                   status, held, host, ghostVars>>

\* Mutant: the count overwrites the total.
AddCountOverwrites(w) ==
    /\ pc[w] = "updated"
    /\ result[w] = "count"
    /\ totalCount' = Cardinality(ModelsOf(task[w].cube))
    /\ counted' = counted \cup ModelsOf(task[w].cube)
    /\ cube' = [cube EXCEPT ![w] = {}]
    /\ Forget(w)
    /\ Goto(w, "added")
    /\ UNCHANGED <<managerVars, done, completedTasks, timedOutTasks, totalTasks, logged,
                   status, todo, held, host, dropped>>

AddCount(w) ==
    /\ pc[w] = "updated"
    /\ result[w] = "count"
    /\ totalCount' = totalCount + Cardinality(ModelsOf(task[w].cube))
    /\ counted' = counted \cup ModelsOf(task[w].cube)
    /\ cube' = [cube EXCEPT ![w] = {}]
    /\ Forget(w)
    /\ Goto(w, "added")
    /\ UNCHANGED <<managerVars, done, completedTasks, timedOutTasks, totalTasks, logged,
                   status, todo, held, host, dropped>>

\* Mutant: a failed run skips the increment of completedTasks.
AddZeroUncounted(w) ==
    /\ pc[w] = "updated"
    /\ result[w] = "failed"
    /\ dropped' = dropped \cup ModelsOf(task[w].cube)
    /\ cube' = [cube EXCEPT ![w] = {}]
    /\ Forget(w)
    /\ Goto(w, "readActive")
    /\ UNCHANGED <<managerVars, done, statVars, logged, status, todo, held, host, counted>>

\* A failed run is added as the count "0".
AddZero(w) ==
    /\ pc[w] = "updated"
    /\ result[w] = "failed"
    /\ dropped' = dropped \cup ModelsOf(task[w].cube)
    /\ cube' = [cube EXCEPT ![w] = {}]
    /\ Forget(w)
    /\ Goto(w, "added")
    /\ UNCHANGED <<managerVars, done, statVars, logged, status, todo, held, host, counted>>

CompleteTask(w) ==
    /\ pc[w] = "added"
    /\ completedTasks' = completedTasks + 1
    /\ Goto(w, "readActive")
    /\ UNCHANGED <<managerVars, done, totalCount, timedOutTasks, totalTasks, logged,
                   status, localVars, ghostVars>>

\* Mutant: the task that is being submitted is taken to be still counted.
ReadActiveOneLeft(w) ==
    /\ pc[w] = "readActive"
    /\ Goto(w, IF activeTasks = 1 THEN "readQueue" ELSE "idle")
    /\ UNCHANGED <<managerVars, done, statVars, logged, status, localVars, ghostVars>>

\* IsEmpty reads the two counters one after the other.
ReadActive(w) ==
    /\ pc[w] = "readActive"
    /\ Goto(w, IF activeTasks = 0 THEN "readQueue" ELSE "idle")
    /\ UNCHANGED <<managerVars, done, statVars, logged, status, localVars, ghostVars>>

\* Mutant: the channel takes any number of signals.
ReadQueueAndPile(w) ==
    /\ pc[w] = "readQueue"
    /\ done' = IF taskQueue = <<>> THEN done + 1 ELSE done
    /\ Goto(w, "idle")
    /\ UNCHANGED <<managerVars, statVars, logged, status, localVars, ghostVars>>

\* The send on done never blocks: the channel holds one signal.
ReadQueueAndSignal(w) ==
    /\ pc[w] = "readQueue"
    /\ done' = IF taskQueue = <<>> THEN 1 ELSE done
    /\ Goto(w, "idle")
    /\ UNCHANGED <<managerVars, statVars, logged, status, localVars, ghostVars>>

-----------------------------------------------------------------------------
(***************************************************************************)
(* What can go wrong between a worker and the master.  A worker never      *)
(* repeats a call: when GetTask's answer or SubmitResult's request is lost *)
(* it sleeps and asks for another task.  A handler is not interrupted when *)
(* its worker dies, so a death during a handler is a death after it.       *)
(***************************************************************************)
CallLost(w) ==
    /\ CallsMayFail
    /\ pc[w] \in {"solving", "submit"}
    /\ Forget(w)
    /\ Goto(w, "idle")
    /\ UNCHANGED <<managerVars, done, statVars, logged, status, todo, held, cube, host,
                   ghostVars>>

WorkerLeaves(w) ==
    /\ CallsMayFail
    /\ pc[w] \in {"idle", "select", "solving", "submit"}
    /\ Forget(w)
    /\ Goto(w, "gone")
    /\ UNCHANGED <<managerVars, done, statVars, logged, status, todo, held, cube, host,
                   ghostVars>>

WorkerJoins(w) ==
    /\ pc[w] = "gone"
    /\ Goto(w, "idle")
    /\ UNCHANGED <<managerVars, done, statVars, logged, status, localVars, ghostVars>>

-----------------------------------------------------------------------------
Enqueue(p) == MakePayload(p) \/ ActivatePayload(p) \/ PushPayload(p)

SolverStep ==
    Enqueue(Solver) \/ SolveReset \/ SolveReceiveDone \/ SolveLogResult

GetTask(w) ==
    \/ RegisterWorker(w) \/ GetTaskRefuse(w) \/ GetTaskAdmit(w)
    \/ GetTaskPop(w) \/ GetTaskTimeout(w) \/ RecordAssignment(w) \/ AssignTask(w)

Ganak(w) == GanakCounts(w) \/ GanakTimesOut(w)

SubmitResult(w) ==
    \/ GetAndRemoveTask(w) \/ UpdateWorkerResult(w)
    \/ CountTimeout(w) \/ SplitTimedOut(w) \/ Enqueue(w)
    \/ AddCount(w) \/ AddZero(w) \/ CompleteTask(w)
    \/ ReadActive(w) \/ ReadQueueAndSignal(w)

WorkerStep(w) == GetTask(w) \/ Ganak(w) \/ SubmitResult(w)

Fault(w) == GanakFails(w) \/ CallLost(w) \/ WorkerLeaves(w) \/ WorkerJoins(w)

Next ==
    \/ SolverStep
    \/ \E w \in Workers : WorkerStep(w) \/ Fault(w)

Spec == Init /\ [][Next]_vars

(***************************************************************************)
(* Goroutines and worker processes keep running; ganak ends or is killed.  *)
(* Nothing is assumed of faults.                                           *)
(***************************************************************************)
Fairness == WF_vars(SolverStep) /\ \A w \in Workers : WF_vars(WorkerStep(w))

FairSpec == Spec /\ Fairness

-----------------------------------------------------------------------------
ManagerType ==
    /\ taskQueue \in Seq(Payloads)
    /\ nextID \in Nat
    /\ DOMAIN checkbook \subseteq 1..nextID
    /\ checkbook \in [DOMAIN checkbook -> Entries]
    /\ activeTasks \in Int

ServerType ==
    /\ done \in {0, 1}
    /\ totalCount \in Nat
    /\ completedTasks \in Nat
    /\ timedOutTasks \in Nat
    /\ totalTasks \in Nat
    /\ logged \in [count : Int, completed : Nat, timedOut : Nat, total : Nat]
    /\ status \in [Workers -> Statuses]
    /\ counted \subseteq AllModels
    /\ dropped \subseteq AllModels

PcType ==
    /\ pc \in [Procs -> WorkerPcs \cup SolverPcs]
    /\ pc[Solver] \in SolverPcs
    /\ \A w \in Workers : pc[w] \in WorkerPcs

LocalsType ==
    /\ todo \in [Procs -> Seq(CubeType)]
    /\ held \in [Procs -> Payloads]
    /\ task \in [Workers -> Payloads]
    /\ result \in [Workers -> {"none", "count", "failed", "timeout"}]
    /\ cube \in [Workers -> CubeType]
    /\ host \in [Workers -> Procs]

(***************************************************************************)
(* Type invariant.                                                         *)
(***************************************************************************)
TypeOK ==
    /\ ManagerType
    /\ ServerType
    /\ PcType
    /\ LocalsType

-----------------------------------------------------------------------------
(***************************************************************************)
(* Where a task can be.                                                    *)
(***************************************************************************)

\* The worker has a payload, from the pop in GetTask to its SubmitResult.
Holding(w) == pc[w] \in {"popped", "recorded", "solving", "submit"}

\* The payload stands in the checkbook, with the cube the worker was given.
InBook(t) == t.id \in DOMAIN checkbook /\ checkbook[t.id].cube = t.cube

(***************************************************************************)
(* A task is in one place: its ID is in at most one slot of the queue, in  *)
(* the hands of at most one EnqueueCubes or of at most one worker, and     *)
(* while it is in any of them the checkbook has it.  No worker is ever     *)
(* given a task that another one has.                                      *)
(***************************************************************************)
EachTaskOnce ==
    /\ \A i \in DOMAIN taskQueue : InBook(taskQueue[i])
    /\ \A p \in Procs : held[p] # NoTask => InBook(held[p])
    /\ \A w \in Workers : Holding(w) => InBook(task[w])
    /\ \A i, j \in DOMAIN taskQueue :
          i # j => taskQueue[i].id # taskQueue[j].id
    /\ \A i \in DOMAIN taskQueue, p \in Procs : taskQueue[i].id # held[p].id
    /\ \A i \in DOMAIN taskQueue, w \in Workers :
          Holding(w) => taskQueue[i].id # task[w].id
    /\ \A p, q \in Procs :
          held[p] # NoTask /\ p # q => held[p].id # held[q].id
    /\ \A p \in Procs, w \in Workers : Holding(w) => held[p].id # task[w].id
    /\ \A v, w \in Workers :
          Holding(v) /\ Holding(w) /\ v # w => task[v].id # task[w].id

(***************************************************************************)
(* activeTasks, which IsEmpty reads without the lock, is the number of     *)
(* entries of the checkbook, but for those a running makePayload has       *)
(* written and not counted yet.                                            *)
(***************************************************************************)
ActiveIsBook ==
    activeTasks + Cardinality({p \in Procs : pc[p] = "activate"})
        = Cardinality(DOMAIN checkbook)

-----------------------------------------------------------------------------
(***************************************************************************)
(* Where a model of the formula can be: accounted for (counted, dropped),  *)
(* in the cube of a checkbook entry, in the cube of a result that is being *)
(* processed, or in a cube that an EnqueueCubes has not wrapped yet.       *)
(***************************************************************************)
BookModels(id) == ModelsOf(checkbook[id].cube)

Removed(w) == pc[w] \in {"removed", "updated", "timedOut"}

RemovedModels(w) == ModelsOf(cube[w])

TodoModels(p, i) == ModelsOf(todo[p][i])

Accounted == counted \cup dropped

Disjoint(S, T) == S \cap T = {}

\* No model is lost: each is accounted for or in the cube of some live task.
NothingLost ==
    pc[Solver] # "boot" =>
        \A a \in AllModels :
            \/ a \in Accounted
            \/ \E id \in DOMAIN checkbook : a \in BookModels(id)
            \/ \E w \in Workers : Removed(w) /\ a \in RemovedModels(w)
            \/ \E p \in Procs : \E i \in DOMAIN todo[p] : a \in TodoModels(p, i)

\* No model is in two places.
NothingTwice ==
    /\ Disjoint(counted, dropped)
    /\ \A i \in DOMAIN checkbook : Disjoint(BookModels(i), Accounted)
    /\ \A w \in Workers : Removed(w) => Disjoint(RemovedModels(w), Accounted)
    /\ \A p \in Procs : \A i \in DOMAIN todo[p] : Disjoint(TodoModels(p, i), Accounted)
    /\ \A i, j \in DOMAIN checkbook : i # j => Disjoint(BookModels(i), BookModels(j))
    /\ \A i \in DOMAIN checkbook, w \in Workers :
          Removed(w) => Disjoint(BookModels(i), RemovedModels(w))
    /\ \A i \in DOMAIN checkbook, p \in Procs : \A j \in DOMAIN todo[p] :
          Disjoint(BookModels(i), TodoModels(p, j))
    /\ \A v, w \in Workers :
          Removed(v) /\ Removed(w) /\ v # w => Disjoint(RemovedModels(v), RemovedModels(w))
    /\ \A w \in Workers, p \in Procs : \A i \in DOMAIN todo[p] :
          Removed(w) => Disjoint(RemovedModels(w), TodoModels(p, i))
    /\ \A p, q \in Procs : \A i \in DOMAIN todo[p], j \in DOMAIN todo[q] :
          p # q \/ i # j => Disjoint(TodoModels(p, i), TodoModels(q, j))

(***************************************************************************)
(* Solve's cubes and the halves SubmitResult makes of a cube that timed    *)
(* out always partition the models not accounted for yet, whatever the     *)
(* interleaving of handlers, the deaths of workers and the calls lost.     *)
(***************************************************************************)
Conservation == NothingLost /\ NothingTwice

(***************************************************************************)
(* totalCount, which SubmitResult adds to and Solve logs, is never more    *)
(* than the number of models, even when Solve returns early.               *)
(***************************************************************************)
NeverOvercounts ==
    /\ totalCount <= Cardinality(AllModels)
    /\ logged.count <= totalCount

\* The worker's SubmitResult runs between its removal from the checkbook and
\* the end of the IsEmpty check.
Submitting(w) ==
    pc[w] \in {"removed", "updated", "timedOut", "added", "readActive", "readQueue"}
             \cup EnqueuePcs

Quiescent ==
    /\ pc[Solver] \in {"wait", "log", "returned"}
    /\ DOMAIN checkbook = {}
    /\ \A w \in Workers : ~Submitting(w)

(***************************************************************************)
(* When Solve has loaded its cubes, the checkbook is empty and no          *)
(* SubmitResult is running, totalCount is the model count of the formula,  *)
(* less the models of cubes for which ganak printed no count.              *)
(***************************************************************************)
ExactWhenQuiescent ==
    Quiescent => totalCount = Cardinality(AllModels) - Cardinality(dropped)

\* At no time is the total more than the number of models, and when all is
\* quiet it is that number, but for what ganak did not count.
CountIsSound == NeverOvercounts /\ ExactWhenQuiescent

(***************************************************************************)
(* The done signal is not missed: IsEmpty reads activeTasks and then the   *)
(* queue, each handler checks only once and the send does not block, and   *)
(* still Solve has got the signal or finds it in the channel when all the  *)
(* tasks are complete.                                                     *)
(***************************************************************************)
NoMissedDone == Quiescent => done = 1 \/ pc[Solver] \in {"log", "returned"}

\* The cubes that some EnqueueCubes has still to wrap.
Pending == UNION {{p} \X DOMAIN todo[p] : p \in Procs}

(***************************************************************************)
(* The counters of the result log: total_tasks is completed_tasks plus     *)
(* timed_out_tasks plus the tasks in flight, wherever they are.            *)
(***************************************************************************)
TasksBalance ==
    totalTasks = completedTasks + timedOutTasks + Cardinality(DOMAIN checkbook)
                 + Cardinality({w \in Workers : pc[w] \in {"removed", "updated", "added"}})
                 + Cardinality(Pending)

-----------------------------------------------------------------------------
\* The cubes on which the answer still depends, wherever they are.
LiveCubes ==
    IF pc[Solver] = "boot" THEN {InitialCubes[i] : i \in DOMAIN InitialCubes}
    ELSE {checkbook[id].cube : id \in DOMAIN checkbook}
             \cup {cube[w] : w \in {v \in Workers : Removed(v)}}
             \cup {todo[x[1]][x[2]] : x \in Pending}

Open == {ModelsOf(c) : c \in LiveCubes} \ {{}}

Counter == INSTANCE Counting WITH
    Universe <- AllModels, open <- Open, total <- totalCount, logged <- logged.count

(***************************************************************************)
(* With all its goroutines, locks and counters, and with all its failures, *)
(* the master does nothing but count the pieces of a partition of the      *)
(* models: SubmitResult counts or drops or halves one piece in one step    *)
(* that the others see whole, the tasks that EnqueueCubes, the queue and   *)
(* the workers pass on stay what they were, and Solve logs once.           *)
(***************************************************************************)
ImplementsCounting == Counter!Spec

-----------------------------------------------------------------------------
(***************************************************************************)
(* Liveness, when no worker dies and no call is lost.                      *)
(***************************************************************************)

\* Solve returns.
SolveReturns == <>(pc[Solver] = "returned")

\* The count becomes, and stays, the number of models.
EventuallyExact == <>[](totalCount = Cardinality(AllModels))

-----------------------------------------------------------------------------
(***************************************************************************)
(* What comments and documents say and the code does not do.               *)
(***************************************************************************)

\* server.go: Solve "blocks until every task is complete".
SolveBlocksUntilComplete ==
    pc[Solver] \in {"log", "returned"} => completedTasks + timedOutTasks = totalTasks

=============================================================================
