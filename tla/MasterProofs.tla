---------------------------- MODULE MasterProofs ----------------------------
(***************************************************************************)
(* Proofs about Master, for every formula, every partition of its models   *)
(* into initial cubes, every set of workers and every capacity of the      *)
(* queue, with and without failures.                                       *)
(***************************************************************************)
EXTENDS Master, CubesProofs

(***************************************************************************)
(* Facts about the program counters and the locals of the goroutines that  *)
(* the invariants of Master rest on.                                       *)
(***************************************************************************)
\* Only a running EnqueueCubes has cubes to wrap, and it has a payload in
\* its hands from the time it takes an ID to the push.
EnqueueFlow ==
    \A p \in Procs :
        /\ todo[p] # <<>> => pc[p] \in EnqueuePcs
        /\ held[p] # NoTask <=> pc[p] \in {"activate", "push"}

\* SubmitResult has a result for the cube of the worker's payload, and a
\* timeout is only reported for a cube that leaves a variable free.
ResultFlow ==
    \A w \in Workers :
        /\ pc[w] = "submit" \/ Removed(w) => result[w] # "none"
        /\ Removed(w) => cube[w] = task[w].cube
        /\ pc[w] = "timedOut" => result[w] = "timeout"
        /\ (pc[w] = "submit" \/ Removed(w)) /\ result[w] = "timeout" =>
              FreeVars(task[w].cube, Clauses) # {}

\* Before Solve runs no worker gets past the start of GetTask.
BootFlow ==
    pc[Solver] = "boot" =>
        /\ \A w \in Workers : pc[w] \in {"idle", "registered", "gone"}
        /\ DOMAIN checkbook = {}
        /\ counted = {} /\ dropped = {}

Flow == EnqueueFlow /\ ResultFlow /\ BootFlow

\* totalCount is the number of counted models, and no more was logged.
CountIsCounted ==
    /\ totalCount = Cardinality(counted)
    /\ logged.count <= totalCount

\* The inductive invariant.
IInv ==
    /\ TypeOK
    /\ Flow
    /\ EachTaskOnce
    /\ ActiveIsBook
    /\ Conservation
    /\ CountIsCounted
    /\ NoMissedDone

-----------------------------------------------------------------------------
\* The steps of the system, one action each.
LEMMA NextCases ==
    ASSUME [Next]_vars
    PROVE  \/ \E p \in Procs : MakePayload(p)
           \/ \E p \in Procs : ActivatePayload(p)
           \/ \E p \in Procs : PushPayload(p)
           \/ SolveReset
           \/ SolveReceiveDone
           \/ SolveLogResult
           \/ \E w \in Workers : RegisterWorker(w)
           \/ \E w \in Workers : GetTaskRefuse(w)
           \/ \E w \in Workers : GetTaskAdmit(w)
           \/ \E w \in Workers : GetTaskPop(w)
           \/ \E w \in Workers : GetTaskTimeout(w)
           \/ \E w \in Workers : RecordAssignment(w)
           \/ \E w \in Workers : AssignTask(w)
           \/ \E w \in Workers : GanakCounts(w)
           \/ \E w \in Workers : GanakTimesOut(w)
           \/ \E w \in Workers : GanakFails(w)
           \/ \E w \in Workers : GetAndRemoveTask(w)
           \/ \E w \in Workers : UpdateWorkerResult(w)
           \/ \E w \in Workers : CountTimeout(w)
           \/ \E w \in Workers : SplitTimedOut(w)
           \/ \E w \in Workers : AddCount(w)
           \/ \E w \in Workers : AddZero(w)
           \/ \E w \in Workers : CompleteTask(w)
           \/ \E w \in Workers : ReadActive(w)
           \/ \E w \in Workers : ReadQueueAndSignal(w)
           \/ \E w \in Workers : CallLost(w)
           \/ \E w \in Workers : WorkerLeaves(w)
           \/ \E w \in Workers : WorkerJoins(w)
           \/ UNCHANGED vars
BY DEF Next, SolverStep, Enqueue, WorkerStep, GetTask, Ganak, SubmitResult, Fault, Procs

\* Small facts about the types of locals and program counters.
LEMMA NoTaskType == NoTask \in Payloads
BY DEF NoTask, Payloads, CubeType

\* A worker only ever moves to a label of a worker.
LEMMA GotoWorker ==
    ASSUME PcType, NEW w \in Workers, NEW l \in WorkerPcs, Goto(w, l)
    PROVE  PcType'
BY ProcsAssumption DEF PcType, Goto, Procs

\* Solve only ever moves to a label of Solve.
LEMMA GotoSolver ==
    ASSUME PcType, NEW l \in SolverPcs, Goto(Solver, l)
    PROVE  PcType'
BY ProcsAssumption DEF PcType, Goto, Procs

\* ganak's answer is a natural number, and its models are models of F.
LEMMA GanakAnswer ==
    ASSUME NEW c
    PROVE  /\ IsFiniteSet(ModelsOf(c))
           /\ Cardinality(ModelsOf(c)) \in Nat
           /\ ModelsOf(c) \subseteq AllModels
BY FormulaAssumption, ModelsFinite DEF ModelsOf, AllModels

\* What SplitCubeSmart does to the cube of a task that timed out.
LEMMA SplitHalves ==
    ASSUME NEW c \in CubeType, FreeVars(c, Clauses) # {}
    PROVE  /\ SplitCubeSmart(c, Clauses) \in Seq(CubeType)
           /\ Len(SplitCubeSmart(c, Clauses)) = 2
           /\ ModelsOf(c) = ModelsOf(SplitCubeSmart(c, Clauses)[1])
                              \cup ModelsOf(SplitCubeSmart(c, Clauses)[2])
           /\ ModelsOf(SplitCubeSmart(c, Clauses)[1])
                  \cap ModelsOf(SplitCubeSmart(c, Clauses)[2]) = {}
BY FormulaAssumption, SplitPartitions DEF CubeType, ModelsOf

-----------------------------------------------------------------------------
(***************************************************************************)
(* Types.                                                                  *)
(***************************************************************************)
\* IDs grow and the checkbook only has IDs that were given out.
LEMMA ManagerTypeStep == IInv /\ [Next]_vars => ManagerType'
<1> SUFFICES ASSUME IInv, [Next]_vars PROVE ManagerType'
    OBVIOUS
<1>0. ManagerType /\ PcType /\ LocalsType
    BY DEF IInv, TypeOK
<1>1. ASSUME NEW p \in Procs, MakePayload(p) PROVE ManagerType'
    <2> DEFINE id == nextID + 1
               e == [cube |-> Head(todo[p]), hostname |-> NoHost]
    <2>1. Head(todo[p]) \in CubeType
        BY <1>0, <1>1 DEF MakePayload, LocalsType
    <2>2. e \in Entries
        BY <2>1 DEF Entries, NoHost, Procs
    <2>3. /\ nextID' = id /\ UNCHANGED <<activeTasks, taskQueue>>
          /\ checkbook' = [i \in DOMAIN checkbook \cup {id} |-> IF i = id THEN e ELSE checkbook[i]]
        BY <1>1 DEF MakePayload
    <2>4. DOMAIN (checkbook') = DOMAIN checkbook \cup {id}
        BY <2>3
    <2>5. DOMAIN (checkbook') \subseteq 1..(nextID')
        BY <1>0, <2>3, <2>4 DEF ManagerType
    <2>6. checkbook' \in [DOMAIN (checkbook') -> Entries]
        BY <1>0, <2>2, <2>3, <2>4 DEF ManagerType
    <2> QED
        BY <1>0, <2>3, <2>5, <2>6 DEF ManagerType
<1>2. ASSUME NEW p \in Procs, PushPayload(p) PROVE ManagerType'
    BY <1>0, <1>2 DEF PushPayload, ManagerType, LocalsType
<1>3. ASSUME NEW w \in Workers, GetTaskPop(w) PROVE ManagerType'
    BY <1>0, <1>3 DEF GetTaskPop, ManagerType
<1>4. ASSUME NEW w \in Workers, RecordAssignment(w) PROVE ManagerType'
    BY <1>0, <1>4 DEF RecordAssignment, ManagerType, Entries, Procs
<1>5. ASSUME NEW w \in Workers, GetAndRemoveTask(w) PROVE ManagerType'
    BY <1>0, <1>5 DEF GetAndRemoveTask, ManagerType
<1>6. ASSUME UNCHANGED managerVars PROVE ManagerType'
    BY <1>0, <1>6 DEF managerVars, ManagerType
<1>7. ASSUME NEW p \in Procs, ActivatePayload(p) PROVE ManagerType'
    BY <1>0, <1>7 DEF ActivatePayload, ManagerType
<1> QED
    BY <1>1, <1>2, <1>3, <1>4, <1>5, <1>6, <1>7, NextCases
    DEF SolveReset, SolveReceiveDone, SolveLogResult, RegisterWorker, GetTaskRefuse, GetTaskAdmit,
        GetTaskTimeout, AssignTask, UpdateWorkerResult, CountTimeout, GanakCounts, GanakTimesOut,
        GanakFails, Solved, SplitTimedOut, AddCount, AddZero, CompleteTask, ReadActive,
        ReadQueueAndSignal, CallLost, WorkerLeaves, WorkerJoins, vars

\* The counters stay natural numbers: what is added to them is a count.
LEMMA ServerTypeStep == IInv /\ [Next]_vars => ServerType'
<1> SUFFICES ASSUME IInv, [Next]_vars PROVE ServerType'
    OBVIOUS
<1>0. ServerType
    BY DEF IInv, TypeOK
<1> USE DEF ServerType, statVars, ghostVars
<1>1. ASSUME SolveReset PROVE ServerType'
    BY <1>0, <1>1, InitialCubesAssumption DEF SolveReset
<1>2. ASSUME SolveReceiveDone PROVE ServerType'
    BY <1>0, <1>2 DEF SolveReceiveDone
<1>3. ASSUME SolveLogResult PROVE ServerType'
    BY <1>0, <1>3 DEF SolveLogResult
<1>4. ASSUME NEW w \in Workers, RegisterWorker(w) PROVE ServerType'
    BY <1>0, <1>4 DEF RegisterWorker, Statuses
<1>5. ASSUME NEW w \in Workers, GetTaskTimeout(w) PROVE ServerType'
    BY <1>0, <1>5 DEF GetTaskTimeout, Statuses
<1>6. ASSUME NEW w \in Workers, AssignTask(w) PROVE ServerType'
    BY <1>0, <1>6 DEF AssignTask, Statuses
<1>7. ASSUME NEW w \in Workers, UpdateWorkerResult(w) PROVE ServerType'
    BY <1>0, <1>7 DEF UpdateWorkerResult, Statuses
<1>8. ASSUME NEW w \in Workers, CountTimeout(w) \/ SplitTimedOut(w) PROVE ServerType'
    BY <1>0, <1>8 DEF CountTimeout, SplitTimedOut
<1>9. ASSUME NEW w \in Workers, AddCount(w) PROVE ServerType'
    <2>1. /\ Cardinality(ModelsOf(task[w].cube)) \in Nat
          /\ ModelsOf(task[w].cube) \subseteq AllModels
        BY GanakAnswer
    <2> QED
        BY <1>0, <1>9, <2>1 DEF AddCount
<1>10. ASSUME NEW w \in Workers, AddZero(w) PROVE ServerType'
    <2>1. ModelsOf(task[w].cube) \subseteq AllModels
        BY GanakAnswer
    <2> QED
        BY <1>0, <1>10, <2>1 DEF AddZero
<1>11. ASSUME NEW w \in Workers, CompleteTask(w) PROVE ServerType'
    BY <1>0, <1>11 DEF CompleteTask
<1>12. ASSUME NEW w \in Workers, ReadQueueAndSignal(w) PROVE ServerType'
    BY <1>0, <1>12 DEF ReadQueueAndSignal
<1>13. ASSUME UNCHANGED <<done, statVars, logged, status, ghostVars>> PROVE ServerType'
    BY <1>0, <1>13
<1> QED
    BY <1>1, <1>2, <1>3, <1>4, <1>5, <1>6, <1>7, <1>8, <1>9, <1>10, <1>11, <1>12, <1>13, NextCases
    DEF MakePayload, ActivatePayload, PushPayload, GetTaskRefuse, GetTaskAdmit, GetTaskPop,
        RecordAssignment, GanakCounts, GanakTimesOut, GanakFails, Solved, GetAndRemoveTask,
        ReadActive, CallLost, WorkerLeaves, WorkerJoins, vars

\* Every goroutine keeps to its own labels.
LEMMA PcTypeStep == IInv /\ [Next]_vars => PcType'
<1> SUFFICES ASSUME IInv, [Next]_vars PROVE PcType'
    OBVIOUS
<1>0. PcType
    BY DEF IInv, TypeOK
<1>1. ASSUME UNCHANGED pc PROVE PcType'
    BY <1>0, <1>1 DEF PcType
<1>2. ASSUME NEW l \in SolverPcs, Goto(Solver, l) PROVE PcType'
    BY <1>0, <1>2, GotoSolver
<1>3. ASSUME NEW w \in Workers, NEW l \in WorkerPcs, Goto(w, l) PROVE PcType'
    BY <1>0, <1>3, GotoWorker
<1>4. ASSUME NEW p \in Procs, NEW l \in EnqueuePcs, Goto(p, l) PROVE PcType'
    BY <1>2, <1>3, <1>4 DEF Procs, SolverPcs, WorkerPcs
<1>5. ASSUME NEW p \in Procs, MakePayload(p) \/ ActivatePayload(p) \/ PushPayload(p)
      PROVE  PcType'
    <2>1. CASE MakePayload(p) \/ ActivatePayload(p) \/ (PushPayload(p) /\ todo[p] # <<>>)
        BY <1>4, <2>1 DEF MakePayload, ActivatePayload, PushPayload, EnqueuePcs
    <2>2. CASE PushPayload(p) /\ todo[p] = <<>> /\ p = Solver
        BY <1>2, <2>2 DEF PushPayload, SolverPcs
    <2>3. CASE PushPayload(p) /\ todo[p] = <<>> /\ p \in Workers
        BY <1>3, <2>3, ProcsAssumption DEF PushPayload, WorkerPcs
    <2> QED
        <3>1. p \in Workers \/ p = Solver
            BY DEF Procs
        <3> QED
            BY <1>5, <2>1, <2>2, <2>3, <3>1
<1>6. ASSUME SolveReset \/ SolveReceiveDone \/ SolveLogResult PROVE PcType'
    BY <1>2, <1>6 DEF SolveReset, SolveReceiveDone, SolveLogResult, SolverPcs, EnqueuePcs
<1>7. ASSUME NEW w \in Workers,
             \/ RegisterWorker(w) \/ GetTaskRefuse(w) \/ GetTaskAdmit(w) \/ GetTaskPop(w)
             \/ GetTaskTimeout(w) \/ RecordAssignment(w) \/ AssignTask(w)
             \/ GanakCounts(w) \/ GanakTimesOut(w) \/ GanakFails(w)
             \/ CallLost(w) \/ WorkerLeaves(w) \/ WorkerJoins(w)
      PROVE  PcType'
    BY <1>3, <1>7
    DEF RegisterWorker, GetTaskRefuse, GetTaskAdmit, GetTaskPop, GetTaskTimeout, RecordAssignment,
        AssignTask, GanakCounts, GanakTimesOut, GanakFails, Solved, CallLost, WorkerLeaves,
        WorkerJoins, WorkerPcs
<1>8. ASSUME NEW w \in Workers,
             \/ GetAndRemoveTask(w) \/ UpdateWorkerResult(w) \/ CountTimeout(w)
             \/ SplitTimedOut(w) \/ AddCount(w) \/ AddZero(w)
             \/ CompleteTask(w) \/ ReadActive(w) \/ ReadQueueAndSignal(w)
      PROVE  PcType'
    BY <1>3, <1>8
    DEF GetAndRemoveTask, UpdateWorkerResult, CountTimeout, SplitTimedOut, AddCount, AddZero,
        CompleteTask, ReadActive, ReadQueueAndSignal, WorkerPcs, EnqueuePcs
<1> QED
    BY <1>1, <1>5, <1>6, <1>7, <1>8, NextCases DEF vars

\* Payloads, results and cubes keep their types; a split makes two cubes.
LEMMA LocalsTypeStep == IInv /\ [Next]_vars => LocalsType'
<1> SUFFICES ASSUME IInv, [Next]_vars PROVE LocalsType'
    OBVIOUS
<1>0. LocalsType /\ ManagerType /\ Flow
    BY DEF IInv, TypeOK
<1>1. ASSUME NEW p \in Procs, MakePayload(p) PROVE LocalsType'
    <2> DEFINE t == [id |-> nextID + 1, cube |-> Head(todo[p])]
    <2>1. Head(todo[p]) \in CubeType /\ Tail(todo[p]) \in Seq(CubeType)
        BY <1>0, <1>1 DEF MakePayload, LocalsType
    <2>2. t \in Payloads
        BY <1>0, <2>1 DEF Payloads, ManagerType
    <2>3. /\ held' = [held EXCEPT ![p] = t]
          /\ todo' = [todo EXCEPT ![p] = Tail(todo[p])]
          /\ UNCHANGED <<task, result, cube, host>>
        BY <1>1 DEF MakePayload
    <2> QED
        BY <1>0, <2>1, <2>2, <2>3 DEF LocalsType
<1>2. ASSUME NEW p \in Procs, PushPayload(p) PROVE LocalsType'
    BY <1>0, <1>2, NoTaskType DEF PushPayload, LocalsType
<1>3. ASSUME SolveReset PROVE LocalsType'
    BY <1>0, <1>3, InitialCubesAssumption DEF SolveReset, LocalsType
<1>4. ASSUME NEW w \in Workers, GetTaskPop(w) PROVE LocalsType'
    BY <1>0, <1>4 DEF GetTaskPop, LocalsType, ManagerType
<1>5. ASSUME NEW w \in Workers, GanakCounts(w) \/ GanakTimesOut(w) \/ GanakFails(w) PROVE LocalsType'
    BY <1>0, <1>5 DEF GanakCounts, GanakTimesOut, GanakFails, Solved, LocalsType
<1>6. ASSUME NEW w \in Workers, GetAndRemoveTask(w) PROVE LocalsType'
    <2>1. CASE task[w].id \in DOMAIN checkbook
        <3>1. checkbook[task[w].id].cube \in CubeType /\ checkbook[task[w].id].hostname \in Procs
            BY <1>0, <2>1 DEF ManagerType, Entries
        <3> QED
            BY <1>0, <1>6, <2>1, <3>1 DEF GetAndRemoveTask, LocalsType
    <2>2. CASE task[w].id \notin DOMAIN checkbook
        BY <1>0, <1>6, <2>2, NoTaskType DEF GetAndRemoveTask, Forget, LocalsType
    <2> QED
        BY <2>1, <2>2
<1>7. ASSUME NEW w \in Workers, SplitTimedOut(w) PROVE LocalsType'
    <2>1. FreeVars(cube[w], Clauses) # {} /\ cube[w] \in CubeType
        BY <1>0, <1>7 DEF SplitTimedOut, Flow, ResultFlow, Removed, LocalsType
    <2>2. SplitCubeSmart(cube[w], Clauses) \in Seq(CubeType)
        BY <2>1, SplitHalves
    <2>3. {} \in CubeType
        BY DEF CubeType
    <2> QED
        BY <1>0, <1>7, <2>2, <2>3, NoTaskType DEF SplitTimedOut, Forget, LocalsType
<1>8. ASSUME NEW w \in Workers, AddCount(w) \/ AddZero(w) PROVE LocalsType'
    <2>1. {} \in CubeType
        BY DEF CubeType
    <2> QED
        BY <1>0, <1>8, <2>1, NoTaskType DEF AddCount, AddZero, Forget, LocalsType
<1>9. ASSUME NEW w \in Workers, CallLost(w) \/ WorkerLeaves(w) PROVE LocalsType'
    BY <1>0, <1>9, NoTaskType DEF CallLost, WorkerLeaves, Forget, LocalsType
<1>10. ASSUME UNCHANGED localVars PROVE LocalsType'
    BY <1>0, <1>10 DEF localVars, LocalsType
<1>11. ASSUME NEW w \in Workers, UpdateWorkerResult(w) PROVE LocalsType'
    BY <1>0, <1>11 DEF UpdateWorkerResult, LocalsType, NoHost, Procs
<1> QED
    BY <1>1, <1>2, <1>3, <1>4, <1>5, <1>6, <1>7, <1>8, <1>9, <1>10, <1>11, NextCases
    DEF ActivatePayload, SolveReceiveDone, SolveLogResult, RegisterWorker, GetTaskRefuse,
        GetTaskAdmit, GetTaskTimeout, RecordAssignment, AssignTask, CountTimeout, CompleteTask,
        ReadActive, ReadQueueAndSignal, WorkerJoins, vars

\* Every step keeps the type invariant.
LEMMA TypeStep == IInv /\ [Next]_vars => TypeOK'
BY ManagerTypeStep, ServerTypeStep, PcTypeStep, LocalsTypeStep DEF TypeOK

-----------------------------------------------------------------------------
(***************************************************************************)
(* Program counters and locals.                                            *)
(***************************************************************************)
\* Only EnqueueCubes, SolveReset and SplitTimedOut touch todo and held.
LEMMA EnqueueFlowStep == IInv /\ [Next]_vars => EnqueueFlow'
<1> SUFFICES ASSUME IInv, [Next]_vars PROVE EnqueueFlow'
    OBVIOUS
<1>0. ManagerType /\ LocalsType /\ PcType /\ EnqueueFlow
    BY DEF IInv, TypeOK, Flow
<1> USE ProcsAssumption DEF Procs, EnqueuePcs
<1>a. ASSUME NEW p \in Procs, NEW l, Goto(p, l), UNCHANGED <<todo, held>>,
             \/ pc[p] \notin EnqueuePcs /\ l \notin EnqueuePcs
             \/ pc[p] = "activate" /\ l = "push"
      PROVE  EnqueueFlow'
    BY <1>0, <1>a DEF Goto, EnqueueFlow, PcType
<1>1. ASSUME NEW p \in Procs, MakePayload(p) PROVE EnqueueFlow'
    <2>1. [id |-> nextID + 1, cube |-> Head(todo[p])] # NoTask
        BY <1>0 DEF NoTask, ManagerType
    <2> QED
        BY <1>0, <1>1, <2>1 DEF MakePayload, Goto, EnqueueFlow, LocalsType, PcType
<1>2. ASSUME NEW p \in Procs, ActivatePayload(p) PROVE EnqueueFlow'
    BY <1>a, <1>2 DEF ActivatePayload, localVars
<1>3. ASSUME NEW p \in Procs, PushPayload(p) PROVE EnqueueFlow'
    BY <1>0, <1>3 DEF PushPayload, Goto, EnqueueFlow, LocalsType, PcType
<1>4. ASSUME SolveReset PROVE EnqueueFlow'
    BY <1>0, <1>4 DEF SolveReset, Goto, EnqueueFlow, LocalsType, PcType
<1>5. ASSUME SolveReceiveDone \/ SolveLogResult PROVE EnqueueFlow'
    BY <1>a, <1>5 DEF SolveReceiveDone, SolveLogResult, localVars
<1>6. ASSUME NEW w \in Workers,
             \/ RegisterWorker(w) \/ GetTaskRefuse(w) \/ GetTaskAdmit(w) \/ GetTaskPop(w)
             \/ GetTaskTimeout(w) \/ RecordAssignment(w) \/ AssignTask(w)
             \/ GanakCounts(w) \/ GanakTimesOut(w) \/ GanakFails(w)
             \/ CallLost(w) \/ WorkerLeaves(w) \/ WorkerJoins(w)
      PROVE  EnqueueFlow'
    BY <1>a, <1>6
    DEF RegisterWorker, GetTaskRefuse, GetTaskAdmit, GetTaskPop, GetTaskTimeout, RecordAssignment,
        AssignTask, GanakCounts, GanakTimesOut, GanakFails, Solved, CallLost, WorkerLeaves,
        WorkerJoins, localVars
<1>7. ASSUME NEW w \in Workers, SplitTimedOut(w) PROVE EnqueueFlow'
    BY <1>0, <1>7 DEF SplitTimedOut, Goto, EnqueueFlow, LocalsType, PcType
<1>8. ASSUME NEW w \in Workers,
             \/ GetAndRemoveTask(w) \/ UpdateWorkerResult(w) \/ CountTimeout(w)
             \/ AddCount(w) \/ AddZero(w) \/ CompleteTask(w)
             \/ ReadActive(w) \/ ReadQueueAndSignal(w)
      PROVE  EnqueueFlow'
    BY <1>a, <1>8
    DEF GetAndRemoveTask, UpdateWorkerResult, CountTimeout, AddCount, AddZero, CompleteTask,
        ReadActive, ReadQueueAndSignal, localVars
<1>9. ASSUME UNCHANGED vars PROVE EnqueueFlow'
    BY <1>0, <1>9 DEF EnqueueFlow, vars, localVars
<1> QED
    BY <1>1, <1>2, <1>3, <1>4, <1>5, <1>6, <1>7, <1>8, <1>9, NextCases

\* A worker's result and cube are what they were when it got past ganak.
LEMMA ResultFlowStep == IInv /\ [Next]_vars => ResultFlow'
<1> SUFFICES ASSUME IInv, [Next]_vars PROVE ResultFlow'
    OBVIOUS
<1>0. LocalsType /\ PcType /\ EnqueueFlow /\ ResultFlow
    BY DEF IInv, TypeOK, Flow
<1> USE ProcsAssumption DEF Procs
<1>a. ASSUME NEW p \in Procs, NEW l, Goto(p, l), l # "submit",
             l \notin {"removed", "updated", "timedOut"},
             \A w \in Workers : w # p => /\ task'[w] = task[w] /\ result'[w] = result[w]
                                         /\ cube'[w] = cube[w]
      PROVE  ResultFlow'
    BY <1>0, <1>a DEF Goto, ResultFlow, Removed, PcType
<1>1. ASSUME NEW p \in Procs, MakePayload(p) \/ ActivatePayload(p) \/ PushPayload(p)
      PROVE  ResultFlow'
    BY <1>a, <1>1 DEF MakePayload, ActivatePayload, PushPayload, localVars
<1>2. ASSUME SolveReset \/ SolveReceiveDone \/ SolveLogResult PROVE ResultFlow'
    BY <1>a, <1>2 DEF SolveReset, SolveReceiveDone, SolveLogResult, localVars
<1>3. ASSUME NEW w \in Workers,
             \/ RegisterWorker(w) \/ GetTaskRefuse(w) \/ GetTaskAdmit(w) \/ GetTaskPop(w)
             \/ GetTaskTimeout(w) \/ RecordAssignment(w) \/ AssignTask(w)
             \/ CallLost(w) \/ WorkerLeaves(w) \/ WorkerJoins(w)
      PROVE  ResultFlow'
    <2>1. \A v \in Workers : v # w => /\ task'[v] = task[v] /\ result'[v] = result[v]
                                     /\ cube'[v] = cube[v]
        BY <1>0, <1>3
        DEF RegisterWorker, GetTaskRefuse, GetTaskAdmit, GetTaskPop, GetTaskTimeout,
            RecordAssignment, AssignTask, CallLost, WorkerLeaves, WorkerJoins, Forget, localVars,
            LocalsType
    <2>2. \E l \in {"registered", "idle", "select", "popped", "recorded", "solving", "gone"} :
              Goto(w, l)
        BY <1>3
        DEF RegisterWorker, GetTaskRefuse, GetTaskAdmit, GetTaskPop, GetTaskTimeout,
            RecordAssignment, AssignTask, CallLost, WorkerLeaves, WorkerJoins
    <2> QED
        BY <1>a, <2>1, <2>2
<1>4. ASSUME NEW w \in Workers, GanakCounts(w) \/ GanakTimesOut(w) \/ GanakFails(w)
      PROVE  ResultFlow'
    BY <1>0, <1>4
    DEF GanakCounts, GanakTimesOut, GanakFails, Solved, Goto, ResultFlow, Removed, LocalsType,
        PcType
<1>5. ASSUME NEW w \in Workers, GetAndRemoveTask(w) PROVE ResultFlow'
    <2>1. InBook(task[w])
        BY <1>5 DEF IInv, EachTaskOnce, GetAndRemoveTask, Holding
    <2> QED
        BY <1>0, <1>5, <2>1
        DEF GetAndRemoveTask, InBook, Goto, ResultFlow, Removed, LocalsType, PcType
<1>6. ASSUME NEW w \in Workers, UpdateWorkerResult(w) \/ CountTimeout(w) PROVE ResultFlow'
    BY <1>0, <1>6
    DEF UpdateWorkerResult, CountTimeout, Goto, ResultFlow, Removed, localVars, LocalsType, PcType
<1>7. ASSUME NEW w \in Workers,
             \/ SplitTimedOut(w) \/ AddCount(w) \/ AddZero(w) \/ CompleteTask(w)
             \/ ReadActive(w) \/ ReadQueueAndSignal(w)
      PROVE  ResultFlow'
    <2>1. \A v \in Workers : v # w => /\ task'[v] = task[v] /\ result'[v] = result[v]
                                     /\ cube'[v] = cube[v]
        BY <1>0, <1>7
        DEF SplitTimedOut, AddCount, AddZero, CompleteTask, ReadActive, ReadQueueAndSignal,
            Forget, localVars, LocalsType
    <2>2. \E l \in {"enqueue", "added", "readActive", "readQueue", "idle"} : Goto(w, l)
        BY <1>7
        DEF SplitTimedOut, AddCount, AddZero, CompleteTask, ReadActive, ReadQueueAndSignal
    <2> QED
        BY <1>a, <2>1, <2>2
<1>8. ASSUME UNCHANGED vars PROVE ResultFlow'
    BY <1>0, <1>8 DEF ResultFlow, Removed, vars, localVars
<1> QED
    BY <1>1, <1>2, <1>3, <1>4, <1>5, <1>6, <1>7, <1>8, NextCases

\* Before Solve has reset the state GetTask refuses, and no one has a task.
LEMMA BootFlowStep == IInv /\ [Next]_vars => BootFlow'
<1> SUFFICES ASSUME IInv, [Next]_vars, pc'[Solver] = "boot" PROVE BootFlow'
    BY DEF BootFlow
<1>0. EnqueueFlow /\ PcType /\ BootFlow
    BY DEF IInv, TypeOK, Flow
<1> USE ProcsAssumption DEF Procs
<1>a. ASSUME NEW w \in Workers, NEW l \in {"idle", "registered", "gone"}, Goto(w, l),
             UNCHANGED <<managerVars, ghostVars>>
      PROVE  BootFlow'
    BY <1>0, <1>a DEF BootFlow, Goto, PcType, managerVars, ghostVars
<1>b. ASSUME NEW w \in Workers, NEW l, Goto(w, l), pc[w] \notin {"idle", "registered", "gone"}
      PROVE  FALSE
    BY <1>0, <1>b DEF BootFlow, Goto, PcType
<1>1. ASSUME NEW p \in Procs, MakePayload(p) \/ ActivatePayload(p) \/ PushPayload(p)
      PROVE  BootFlow'
    BY <1>0, <1>b, <1>1 DEF MakePayload, ActivatePayload, PushPayload, Goto, PcType
<1>2. ASSUME SolveReset \/ SolveReceiveDone \/ SolveLogResult PROVE BootFlow'
    BY <1>0, <1>2 DEF SolveReset, SolveReceiveDone, SolveLogResult, Goto, PcType
<1>3. ASSUME NEW w \in Workers,
             RegisterWorker(w) \/ GetTaskRefuse(w) \/ WorkerJoins(w)
      PROVE  BootFlow'
    BY <1>a, <1>3 DEF RegisterWorker, GetTaskRefuse, WorkerJoins
<1>4. ASSUME NEW w \in Workers, GetTaskAdmit(w) PROVE BootFlow'
    BY <1>0, <1>4 DEF GetTaskAdmit, NoTaskForNow, Goto, PcType
<1>5. ASSUME NEW w \in Workers, CallLost(w) \/ WorkerLeaves(w) PROVE BootFlow'
    BY <1>a, <1>5 DEF CallLost, WorkerLeaves
<1>6. ASSUME NEW w \in Workers,
             \/ GetTaskPop(w) \/ GetTaskTimeout(w) \/ RecordAssignment(w) \/ AssignTask(w)
             \/ GanakCounts(w) \/ GanakTimesOut(w) \/ GanakFails(w)
             \/ GetAndRemoveTask(w) \/ UpdateWorkerResult(w) \/ CountTimeout(w)
             \/ SplitTimedOut(w) \/ AddCount(w) \/ AddZero(w) \/ CompleteTask(w)
             \/ ReadActive(w) \/ ReadQueueAndSignal(w)
      PROVE  BootFlow'
    BY <1>b, <1>6
    DEF GetTaskPop, GetTaskTimeout, RecordAssignment, AssignTask, GanakCounts, GanakTimesOut,
        GanakFails, Solved, GetAndRemoveTask, UpdateWorkerResult, CountTimeout, SplitTimedOut,
        AddCount, AddZero, CompleteTask, ReadActive, ReadQueueAndSignal
<1>7. ASSUME UNCHANGED vars PROVE BootFlow'
    BY <1>0, <1>7 DEF BootFlow, vars, managerVars, ghostVars
<1> QED
    BY <1>1, <1>2, <1>3, <1>4, <1>5, <1>6, <1>7, NextCases

-----------------------------------------------------------------------------
(***************************************************************************)
(* A task is in one place.                                                 *)
(***************************************************************************)

\* A step that moves no payload, other than to drop one, keeps the tasks in
\* one place.
LEMMA OnceFrame ==
    ASSUME EachTaskOnce,
           UNCHANGED <<taskQueue, held>>,
           \A t : InBook(t) => InBook(t)',
           \A w \in Workers : Holding(w)' => Holding(w) /\ task'[w] = task[w]
    PROVE  EachTaskOnce'
BY DEF EachTaskOnce

\* A payload moves from EnqueueCubes to the queue, to a worker, and is removed
\* from the checkbook by that worker's SubmitResult; its ID is never reused.
LEMMA EachTaskOnceStep == IInv /\ [Next]_vars => EachTaskOnce'
<1> SUFFICES ASSUME IInv, [Next]_vars PROVE EachTaskOnce'
    OBVIOUS
<1>0. ManagerType /\ LocalsType /\ PcType /\ EachTaskOnce /\ EnqueueFlow
    BY DEF IInv, TypeOK, Flow
<1> USE ProcsAssumption DEF Procs
<1>a. \A t : InBook(t) => t.id \in 1..nextID
    BY <1>0 DEF InBook, ManagerType
<1>b. /\ \A i \in DOMAIN taskQueue : taskQueue[i].id \in 1..nextID
      /\ \A w \in Workers : Holding(w) => task[w].id \in 1..nextID
      /\ \A q \in Procs : held[q] # NoTask => held[q].id \in 1..nextID
      /\ \A q \in Procs : held[q] = NoTask => held[q].id = 0
      /\ nextID \in Nat
    BY <1>0, <1>a DEF EachTaskOnce, NoTask, ManagerType
<1>1. ASSUME NEW p \in Procs, MakePayload(p) PROVE EachTaskOnce'
    <2> DEFINE id == nextID + 1
               t == [id |-> id, cube |-> Head(todo[p])]
    <2>1. /\ held' = [held EXCEPT ![p] = t]
          /\ checkbook' = [i \in DOMAIN checkbook \cup {id} |->
                              IF i = id THEN [cube |-> t.cube, hostname |-> NoHost]
                                        ELSE checkbook[i]]
          /\ pc[p] = "enqueue" /\ pc' = [pc EXCEPT ![p] = "activate"]
          /\ UNCHANGED <<taskQueue, task>>
        BY <1>1 DEF MakePayload, Goto
    <2>2. /\ t.id = id /\ id \notin 1..nextID /\ id # 0
          /\ held'[p] = t /\ \A q \in Procs : q # p => held'[q] = held[q]
        BY <1>0, <1>b, <2>1 DEF LocalsType
    <2>3. ASSUME NEW u, InBook(u) PROVE InBook(u)'
        <3>1. u.id # id
            BY <1>a, <2>2, <2>3
        <3> QED
            BY <2>1, <2>3, <3>1 DEF InBook
    <2>4. t.id \in DOMAIN (checkbook') /\ checkbook'[t.id].cube = t.cube
        BY <2>1
    <2>5. \A w \in Workers : Holding(w)' <=> Holding(w)
        BY <1>0, <2>1 DEF Holding, PcType
    <2> HIDE DEF t, id
    <2>6. /\ \A i \in DOMAIN taskQueue' : InBook(taskQueue[i])'
          /\ \A w \in Workers : Holding(w)' => InBook(task[w])'
        BY <1>0, <2>1, <2>3, <2>5 DEF EachTaskOnce
    <2>7. \A q \in Procs : held'[q] # NoTask => InBook(held[q])'
        <3>1. InBook(held[p])'
            BY <2>2, <2>4 DEF InBook
        <3>2. \A q \in Procs : q # p /\ held[q] # NoTask => InBook(held[q])
            BY <1>0 DEF EachTaskOnce
        <3>3. \A q \in Procs : q # p /\ held[q] # NoTask =>
                  held[q].id \in DOMAIN (checkbook') /\ checkbook'[held[q].id].cube = held[q].cube
            BY <2>3, <3>2 DEF InBook
        <3> QED
            BY <2>2, <3>1, <3>3 DEF InBook
    <2>8. \A i \in DOMAIN taskQueue, q \in Procs : taskQueue[i].id # held'[q].id
        BY <1>0, <1>b, <2>2 DEF EachTaskOnce
    <2>9. \A q, r \in Procs : held'[q] # NoTask /\ q # r => held'[q].id # held'[r].id
        BY <1>0, <1>b, <2>2 DEF EachTaskOnce
    <2>10. \A q \in Procs, w \in Workers : Holding(w) => held'[q].id # task[w].id
        BY <1>0, <1>b, <2>2 DEF EachTaskOnce
    <2> QED
        BY <1>0, <2>1, <2>5, <2>6, <2>7, <2>8, <2>9, <2>10 DEF EachTaskOnce
<1>2. ASSUME NEW p \in Procs, PushPayload(p) PROVE EachTaskOnce'
    <2> DEFINE n == Len(taskQueue)
    <2>1. /\ pc[p] = "push" /\ held[p] # NoTask
          /\ held' = [held EXCEPT ![p] = NoTask]
          /\ taskQueue' = Append(taskQueue, held[p])
          /\ UNCHANGED <<checkbook, task>>
        BY <1>0, <1>2 DEF PushPayload, EnqueueFlow
    <2>2. /\ n \in Nat /\ DOMAIN taskQueue = 1..n /\ DOMAIN (taskQueue') = 1..(n + 1)
          /\ taskQueue'[n + 1] = held[p]
          /\ \A i \in 1..n : taskQueue'[i] = taskQueue[i]
          /\ \A i \in 1..(n + 1) : i \in 1..n \/ i = n + 1
        BY <1>0, <2>1 DEF ManagerType, LocalsType
    <2> HIDE DEF n
    <2>3. held'[p] = NoTask /\ NoTask.id = 0 /\ \A q \in Procs : q # p => held'[q] = held[q]
        BY <1>0, <2>1 DEF LocalsType, NoTask
    <2>4. \A w \in Workers : Holding(w)' <=> Holding(w)
        BY <1>0, <1>2, <2>1 DEF PushPayload, Goto, Holding, PcType
    <2>5. \A u : InBook(u)' <=> InBook(u')
        BY <2>1 DEF InBook
    <2>6. \A i \in 1..(n + 1) : InBook(taskQueue[i])'
        BY <1>0, <2>1, <2>2 DEF EachTaskOnce, InBook
    <2>7. /\ \A q \in Procs : held'[q] # NoTask => InBook(held[q])'
          /\ \A w \in Workers : Holding(w)' => InBook(task[w])'
        BY <1>0, <2>1, <2>3, <2>4 DEF EachTaskOnce, InBook
    <2>8. \A i, j \in 1..(n + 1) : i # j => taskQueue'[i].id # taskQueue'[j].id
        BY <1>0, <2>2 DEF EachTaskOnce
    <2>9. \A i \in 1..(n + 1), q \in Procs : taskQueue'[i].id # held'[q].id
        <3>1. \A i \in 1..(n + 1) : taskQueue'[i].id # 0
            BY <1>b, <2>1, <2>2
        <3>2. \A q \in Procs : q # p => held[p].id # held[q].id
            BY <1>0, <2>1 DEF EachTaskOnce
        <3> QED
            BY <1>0, <2>2, <2>3, <3>1, <3>2 DEF EachTaskOnce
    <2>10. \A i \in 1..(n + 1), w \in Workers : Holding(w) => taskQueue'[i].id # task[w].id
        BY <1>0, <2>1, <2>2 DEF EachTaskOnce
    <2>11. \A q, r \in Procs : held'[q] # NoTask /\ q # r => held'[q].id # held'[r].id
        BY <1>0, <1>b, <2>3 DEF EachTaskOnce
    <2>12. \A q \in Procs, w \in Workers : Holding(w) => held'[q].id # task[w].id
        BY <1>0, <1>b, <2>3 DEF EachTaskOnce
    <2> QED
        BY <1>0, <2>1, <2>2, <2>4, <2>6, <2>7, <2>8, <2>9, <2>10, <2>11, <2>12 DEF EachTaskOnce
<1>3. ASSUME NEW w \in Workers, GetTaskPop(w) PROVE EachTaskOnce'
    <2> DEFINE n == Len(taskQueue)
    <2>1. /\ taskQueue # <<>>
          /\ task' = [task EXCEPT ![w] = Head(taskQueue)]
          /\ taskQueue' = Tail(taskQueue)
          /\ pc[w] = "select"
          /\ pc' = [pc EXCEPT ![w] = "popped"]
          /\ UNCHANGED <<checkbook, held>>
        BY <1>3 DEF GetTaskPop, Goto
    <2>2. /\ n \in Nat \ {0} /\ DOMAIN taskQueue = 1..n
          /\ DOMAIN (taskQueue') = 1..(n - 1)
          /\ \A i \in 1..(n - 1) : taskQueue'[i] = taskQueue[i + 1] /\ i + 1 \in 1..n /\ i + 1 # 1
          /\ 1 \in 1..n
        BY <1>0, <2>1 DEF ManagerType
    <2>3. task'[w] = taskQueue[1] /\ \A v \in Workers : v # w => task'[v] = task[v]
        BY <1>0, <2>1 DEF LocalsType, ManagerType
    <2> HIDE DEF n
    <2>4. \A v \in Workers : v # w => (Holding(v)' <=> Holding(v))
        BY <1>0, <2>1 DEF Holding, PcType
    <2>5. \A i \in 1..(n - 1) : InBook(taskQueue[i])'
        BY <1>0, <2>1, <2>2 DEF EachTaskOnce, InBook
    <2>6. /\ \A q \in Procs : held'[q] # NoTask => InBook(held[q])'
          /\ \A v \in Workers : Holding(v)' => InBook(task[v])'
        BY <1>0, <2>1, <2>2, <2>3, <2>4 DEF EachTaskOnce, InBook
    <2>7. \A i, j \in 1..(n - 1) : i # j => taskQueue'[i].id # taskQueue'[j].id
        <3>1. \A i, j \in 1..n : i # j => taskQueue[i].id # taskQueue[j].id
            BY <1>0, <2>2 DEF EachTaskOnce
        <3> SUFFICES ASSUME NEW i \in 1..(n - 1), NEW j \in 1..(n - 1), i # j
                     PROVE  taskQueue[i + 1].id # taskQueue[j + 1].id
            BY <2>2
        <3>2. i + 1 \in 1..n /\ j + 1 \in 1..n /\ i + 1 # j + 1
            BY <2>2
        <3> QED
            BY <3>1, <3>2
    <2>8. \A i \in 1..(n - 1), q \in Procs : taskQueue'[i].id # held[q].id
        BY <1>0, <2>2 DEF EachTaskOnce
    <2>9. \A i \in 1..(n - 1), v \in Workers : Holding(v)' => taskQueue'[i].id # task'[v].id
        BY <1>0, <2>2, <2>3, <2>4 DEF EachTaskOnce
    <2>10. \A q \in Procs, v \in Workers : Holding(v)' => held[q].id # task'[v].id
        BY <1>0, <2>2, <2>3, <2>4 DEF EachTaskOnce
    <2>11. \A u, v \in Workers : Holding(u)' /\ Holding(v)' /\ u # v => task'[u].id # task'[v].id
        BY <1>0, <2>2, <2>3, <2>4 DEF EachTaskOnce
    <2> QED
        BY <1>0, <2>1, <2>2, <2>5, <2>6, <2>7, <2>8, <2>9, <2>10, <2>11 DEF EachTaskOnce
<1>4. ASSUME NEW w \in Workers, RecordAssignment(w) PROVE EachTaskOnce'
    <2>1. \A t : InBook(t) => InBook(t)'
        BY <1>0, <1>4 DEF RecordAssignment, InBook, ManagerType, Entries
    <2>2. \A v \in Workers : Holding(v)' => Holding(v) /\ task'[v] = task[v]
        BY <1>0, <1>4 DEF RecordAssignment, Holding, PcType, Goto, localVars
    <2> QED
        BY <1>0, <1>4, <2>1, <2>2, OnceFrame DEF RecordAssignment, localVars
<1>5. ASSUME NEW w \in Workers, GetAndRemoveTask(w) PROVE EachTaskOnce'
    <2> DEFINE id == task[w].id
    <2>1. Holding(w)
        BY <1>5 DEF GetAndRemoveTask, Holding
    <2>2. id \in DOMAIN checkbook
        BY <1>0, <2>1 DEF EachTaskOnce, InBook
    <2>3. /\ checkbook' = [i \in DOMAIN checkbook \ {id} |-> checkbook[i]]
          /\ pc' = [pc EXCEPT ![w] = "removed"]
          /\ UNCHANGED <<task, held, taskQueue>>
        BY <1>5, <2>2 DEF GetAndRemoveTask, Goto
    <2>4. \A v \in Workers : Holding(v)' <=> v # w /\ Holding(v)
        BY <1>0, <2>3 DEF Holding, PcType
    <2>5. ASSUME NEW t, InBook(t), t.id # id PROVE InBook(t)'
        BY <2>3, <2>5 DEF InBook
    <2>6. /\ \A i \in DOMAIN taskQueue : taskQueue[i].id # id
          /\ \A q \in Procs : held[q].id # id
          /\ \A v \in Workers : Holding(v)' => task[v].id # id
        BY <1>0, <2>1, <2>4 DEF EachTaskOnce
    <2>7. /\ \A i \in DOMAIN taskQueue : InBook(taskQueue[i])'
          /\ \A q \in Procs : held[q] # NoTask => InBook(held[q])'
          /\ \A v \in Workers : Holding(v)' => InBook(task[v])'
        BY <1>0, <2>3, <2>4, <2>5, <2>6 DEF EachTaskOnce
    <2> QED
        BY <1>0, <2>3, <2>4, <2>7 DEF EachTaskOnce
<1>6. ASSUME UNCHANGED <<taskQueue, held, checkbook>>,
             \A w \in Workers : Holding(w)' => Holding(w) /\ task'[w] = task[w]
      PROVE  EachTaskOnce'
    BY <1>0, <1>6, OnceFrame DEF InBook
<1>7. ASSUME NEW w \in Workers,
             \/ RegisterWorker(w) \/ GetTaskRefuse(w) \/ GetTaskAdmit(w) \/ GetTaskTimeout(w)
             \/ AssignTask(w) \/ GanakCounts(w) \/ GanakTimesOut(w) \/ GanakFails(w)
             \/ CallLost(w) \/ WorkerLeaves(w) \/ WorkerJoins(w)
      PROVE  EachTaskOnce'
    BY <1>0, <1>6, <1>7
    DEF RegisterWorker, GetTaskRefuse, GetTaskAdmit, GetTaskTimeout, AssignTask, GanakCounts,
        GanakTimesOut, GanakFails, Solved, CallLost, WorkerLeaves, WorkerJoins, Goto, Forget,
        managerVars, localVars, Holding, PcType, LocalsType
<1>8. ASSUME NEW w \in Workers,
             \/ UpdateWorkerResult(w) \/ CountTimeout(w) \/ SplitTimedOut(w)
             \/ AddCount(w) \/ AddZero(w) \/ CompleteTask(w)
             \/ ReadActive(w) \/ ReadQueueAndSignal(w)
      PROVE  EachTaskOnce'
    BY <1>0, <1>6, <1>8
    DEF UpdateWorkerResult, CountTimeout, SplitTimedOut, AddCount, AddZero, CompleteTask,
        ReadActive, ReadQueueAndSignal, Goto, Forget, managerVars, localVars, Holding, PcType,
        LocalsType
<1>9. ASSUME SolveReset \/ SolveReceiveDone \/ SolveLogResult PROVE EachTaskOnce'
    BY <1>0, <1>6, <1>9
    DEF SolveReset, SolveReceiveDone, SolveLogResult, Goto, managerVars, localVars, Holding,
        PcType
<1>10. ASSUME UNCHANGED vars PROVE EachTaskOnce'
    BY <1>6, <1>10 DEF vars, managerVars, localVars, Holding
<1>11. ASSUME NEW p \in Procs, ActivatePayload(p) PROVE EachTaskOnce'
    BY <1>0, <1>6, <1>11 DEF ActivatePayload, Goto, localVars, Holding, PcType
<1> QED
    BY <1>1, <1>2, <1>3, <1>4, <1>5, <1>7, <1>8, <1>9, <1>10, <1>11, NextCases

-----------------------------------------------------------------------------
(***************************************************************************)
(* The counter of active tasks and the done signal.                        *)
(***************************************************************************)

\* The checkbook is finite: its IDs are at most nextID.
LEMMA BookFinite == ManagerType => IsFiniteSet(DOMAIN checkbook)
<1> SUFFICES ASSUME ManagerType PROVE IsFiniteSet(DOMAIN checkbook)
    OBVIOUS
<1>1. nextID \in Nat /\ DOMAIN checkbook \in SUBSET (1..nextID)
    BY DEF ManagerType
<1>2. IsFiniteSet(1..nextID)
    BY <1>1, FS_Interval
<1> QED
    BY <1>1, <1>2, FS_Subset

\* The goroutines that have written the checkbook and not counted the task.
Activating == {p \in Procs : pc[p] = "activate"}

\* ActiveIsBook with the set named, and the facts its cardinalities rest on.
LEMMA ActiveFacts ==
    /\ ActiveIsBook <=> activeTasks + Cardinality(Activating) = Cardinality(DOMAIN checkbook)
    /\ IsFiniteSet(Activating)
    /\ Cardinality(Activating) \in Nat
<1>1. IsFiniteSet(Procs)
    BY ProcsAssumption, FS_Singleton, FS_Union DEF Procs
<1>2. IsFiniteSet(Activating)
    BY <1>1, FS_Subset DEF Activating
<1> QED
    BY <1>2, FS_CardinalityType DEF ActiveIsBook, Activating

\* makePayload writes the checkbook before it counts the task, and
\* GetAndRemoveTask deletes and discounts it in one mutex section.
LEMMA ActiveIsBookStep == IInv /\ [Next]_vars => ActiveIsBook'
<1> SUFFICES ASSUME IInv, [Next]_vars PROVE ActiveIsBook'
    OBVIOUS
<1>0. /\ ManagerType /\ LocalsType /\ PcType /\ IsFiniteSet(DOMAIN checkbook)
      /\ Cardinality(DOMAIN checkbook) \in Nat /\ activeTasks \in Int
      /\ activeTasks + Cardinality(Activating) = Cardinality(DOMAIN checkbook)
      /\ IsFiniteSet(Activating) /\ Cardinality(Activating) \in Nat
    BY BookFinite, ActiveFacts, FS_CardinalityType DEF IInv, TypeOK, ManagerType
<1> SUFFICES activeTasks' + Cardinality(Activating') = Cardinality(DOMAIN checkbook')
    BY DEF ActiveIsBook, Activating
\* A step of a goroutine that is not in makePayload before or after it.
<1>a. ASSUME NEW p \in Procs, NEW l, Goto(p, l), pc[p] # "activate", l # "activate"
      PROVE  Activating' = Activating
    BY <1>0, <1>a DEF Activating, Goto, PcType
<1>b. ASSUME Activating' = Activating, DOMAIN checkbook' = DOMAIN checkbook,
             activeTasks' = activeTasks
      PROVE  activeTasks' + Cardinality(Activating') = Cardinality(DOMAIN checkbook')
    BY <1>0, <1>b
<1>1. ASSUME NEW p \in Procs, MakePayload(p)
      PROVE  activeTasks' + Cardinality(Activating') = Cardinality(DOMAIN checkbook')
    <2>1. /\ DOMAIN checkbook' = DOMAIN checkbook \cup {nextID + 1}
          /\ activeTasks' = activeTasks
        BY <1>1 DEF MakePayload
    <2>2. nextID + 1 \notin DOMAIN checkbook
        BY <1>0 DEF ManagerType
    <2>3. Cardinality(DOMAIN checkbook \cup {nextID + 1}) = Cardinality(DOMAIN checkbook) + 1
        BY <1>0, <2>2, FS_AddElement
    <2>4. Activating' = Activating \cup {p} /\ p \notin Activating
        BY <1>0, <1>1 DEF MakePayload, Goto, Activating, PcType
    <2>5. Cardinality(Activating \cup {p}) = Cardinality(Activating) + 1
        BY <1>0, <2>4, FS_AddElement
    <2> QED
        BY <1>0, <2>1, <2>3, <2>4, <2>5
<1>2. ASSUME NEW p \in Procs, ActivatePayload(p)
      PROVE  activeTasks' + Cardinality(Activating') = Cardinality(DOMAIN checkbook')
    <2>1. DOMAIN checkbook' = DOMAIN checkbook /\ activeTasks' = activeTasks + 1
        BY <1>2 DEF ActivatePayload
    <2>2. Activating' = Activating \ {p} /\ p \in Activating
        BY <1>0, <1>2 DEF ActivatePayload, Goto, Activating, PcType
    <2>3. Cardinality(Activating \ {p}) = Cardinality(Activating) - 1
        BY <1>0, <2>2, FS_RemoveElement
    <2> QED
        BY <1>0, <2>1, <2>2, <2>3
<1>3. ASSUME NEW p \in Procs, PushPayload(p)
      PROVE  activeTasks' + Cardinality(Activating') = Cardinality(DOMAIN checkbook')
    BY <1>a, <1>b, <1>3 DEF PushPayload
<1>4. ASSUME SolveReset \/ SolveReceiveDone \/ SolveLogResult
      PROVE  activeTasks' + Cardinality(Activating') = Cardinality(DOMAIN checkbook')
    BY <1>a, <1>b, <1>4 DEF SolveReset, SolveReceiveDone, SolveLogResult, managerVars, Procs
<1>5. ASSUME NEW w \in Workers, RecordAssignment(w)
      PROVE  activeTasks' + Cardinality(Activating') = Cardinality(DOMAIN checkbook')
    <2>1. DOMAIN checkbook' = DOMAIN checkbook
        BY <1>0, <1>5 DEF RecordAssignment, ManagerType
    <2> QED
        BY <1>a, <1>b, <1>5, <2>1 DEF RecordAssignment, Procs
<1>6. ASSUME NEW w \in Workers, GetAndRemoveTask(w)
      PROVE  activeTasks' + Cardinality(Activating') = Cardinality(DOMAIN checkbook')
    <2>0. Activating' = Activating
        BY <1>a, <1>6 DEF GetAndRemoveTask, Procs
    <2>1. CASE task[w].id \in DOMAIN checkbook
        <3>1. /\ DOMAIN checkbook' = DOMAIN checkbook \ {task[w].id}
              /\ activeTasks' = activeTasks - 1
            BY <1>6, <2>1 DEF GetAndRemoveTask
        <3>2. Cardinality(DOMAIN checkbook \ {task[w].id}) = Cardinality(DOMAIN checkbook) - 1
            BY <1>0, <2>1, FS_RemoveElement
        <3> QED
            BY <1>0, <2>0, <3>1, <3>2
    <2>2. CASE task[w].id \notin DOMAIN checkbook
        BY <1>b, <1>6, <2>0, <2>2 DEF GetAndRemoveTask
    <2> QED
        BY <2>1, <2>2
<1>7. ASSUME NEW w \in Workers,
             \/ RegisterWorker(w) \/ GetTaskRefuse(w) \/ GetTaskAdmit(w) \/ GetTaskPop(w)
             \/ GetTaskTimeout(w) \/ AssignTask(w)
             \/ GanakCounts(w) \/ GanakTimesOut(w) \/ GanakFails(w)
             \/ CallLost(w) \/ WorkerLeaves(w) \/ WorkerJoins(w)
      PROVE  activeTasks' + Cardinality(Activating') = Cardinality(DOMAIN checkbook')
    BY <1>a, <1>b, <1>7
    DEF RegisterWorker, GetTaskRefuse, GetTaskAdmit, GetTaskPop, GetTaskTimeout, AssignTask,
        GanakCounts, GanakTimesOut, GanakFails, Solved, CallLost, WorkerLeaves, WorkerJoins,
        managerVars, Procs
<1>8. ASSUME NEW w \in Workers,
             \/ UpdateWorkerResult(w) \/ CountTimeout(w) \/ SplitTimedOut(w)
             \/ AddCount(w) \/ AddZero(w) \/ CompleteTask(w)
             \/ ReadActive(w) \/ ReadQueueAndSignal(w)
      PROVE  activeTasks' + Cardinality(Activating') = Cardinality(DOMAIN checkbook')
    BY <1>a, <1>b, <1>8
    DEF UpdateWorkerResult, CountTimeout, SplitTimedOut, AddCount, AddZero, CompleteTask,
        ReadActive, ReadQueueAndSignal, managerVars, Procs
<1>9. ASSUME UNCHANGED vars
      PROVE  activeTasks' + Cardinality(Activating') = Cardinality(DOMAIN checkbook')
    BY <1>b, <1>9 DEF vars, managerVars, Activating
<1> QED
    BY <1>1, <1>2, <1>3, <1>4, <1>5, <1>6, <1>7, <1>8, <1>9, NextCases

\* When the checkbook is empty, activeTasks is 0: IsEmpty's first read sees it.
LEMMA EmptyBook ==
    ASSUME ManagerType, EnqueueFlow, EachTaskOnce, ActiveIsBook, DOMAIN checkbook = {}
    PROVE  activeTasks = 0
<1>1. Activating = {}
    BY DEF Activating, EnqueueFlow, EachTaskOnce, InBook
<1> QED
    BY <1>1, ActiveFacts, FS_EmptySet DEF ManagerType

\* The last handler of all finds activeTasks and the queue at 0, and signals.
LEMMA NoMissedDoneStep == IInv /\ [Next]_vars => NoMissedDone'
<1> SUFFICES ASSUME IInv, [Next]_vars PROVE NoMissedDone'
    OBVIOUS
<1>0. /\ ManagerType /\ ServerType /\ LocalsType /\ PcType
      /\ EnqueueFlow /\ EachTaskOnce /\ ActiveIsBook /\ NoMissedDone
    BY DEF IInv, TypeOK, Flow
<1> USE ProcsAssumption DEF Procs, EnqueuePcs
\* A step after which the checkbook is not empty or a SubmitResult runs, and
\* a step that changes nothing of it.
<1>a. ASSUME DOMAIN (checkbook') # {} \/ \E w \in Workers : Submitting(w)' PROVE NoMissedDone'
    BY <1>a DEF NoMissedDone, Quiescent
<1>b. ASSUME DOMAIN (checkbook') = DOMAIN checkbook,
             \A w \in Workers : Submitting(w)' <=> Submitting(w),
             \/ pc'[Solver] = pc[Solver] /\ done' = done
             \/ pc'[Solver] \in {"enqueue", "push", "log", "returned"}
      PROVE  NoMissedDone'
    BY <1>0, <1>b DEF NoMissedDone, Quiescent
<1>1. ASSUME NEW p \in Procs, MakePayload(p) PROVE NoMissedDone'
    BY <1>a, <1>1 DEF MakePayload
<1>2. ASSUME NEW p \in Procs, PushPayload(p) PROVE NoMissedDone'
    <2>1. held[p].id \in DOMAIN checkbook
        BY <1>0, <1>2 DEF PushPayload, EnqueueFlow, EachTaskOnce, InBook
    <2> QED
        BY <1>a, <1>2, <2>1 DEF PushPayload
<1>3. ASSUME SolveReset \/ SolveReceiveDone \/ SolveLogResult PROVE NoMissedDone'
    BY <1>0, <1>b, <1>3
    DEF SolveReset, SolveReceiveDone, SolveLogResult, Goto, managerVars, PcType, Submitting
<1>4. ASSUME NEW w \in Workers,
             \/ RegisterWorker(w) \/ GetTaskRefuse(w) \/ GetTaskAdmit(w) \/ GetTaskPop(w)
             \/ GetTaskTimeout(w) \/ AssignTask(w)
             \/ GanakCounts(w) \/ GanakTimesOut(w) \/ GanakFails(w)
             \/ CallLost(w) \/ WorkerLeaves(w) \/ WorkerJoins(w)
      PROVE  NoMissedDone'
    BY <1>0, <1>b, <1>4
    DEF RegisterWorker, GetTaskRefuse, GetTaskAdmit, GetTaskPop, GetTaskTimeout, AssignTask,
        GanakCounts, GanakTimesOut, GanakFails, Solved, CallLost, WorkerLeaves, WorkerJoins, Goto,
        managerVars, PcType, Submitting
<1>5. ASSUME NEW w \in Workers, RecordAssignment(w) PROVE NoMissedDone'
    BY <1>0, <1>b, <1>5 DEF RecordAssignment, Goto, ManagerType, PcType, Submitting
<1>6. ASSUME NEW w \in Workers, GetAndRemoveTask(w) PROVE NoMissedDone'
    <2>1. task[w].id \in DOMAIN checkbook
        BY <1>0, <1>6 DEF GetAndRemoveTask, EachTaskOnce, Holding, InBook
    <2> QED
        BY <1>0, <1>a, <1>6, <2>1 DEF GetAndRemoveTask, Goto, PcType, Submitting
<1>7. ASSUME NEW w \in Workers,
             \/ UpdateWorkerResult(w) \/ CountTimeout(w) \/ SplitTimedOut(w)
             \/ AddCount(w) \/ AddZero(w) \/ CompleteTask(w)
      PROVE  NoMissedDone'
    BY <1>0, <1>a, <1>7
    DEF UpdateWorkerResult, CountTimeout, SplitTimedOut, AddCount, AddZero, CompleteTask, Goto,
        PcType, Submitting
<1>8. ASSUME NEW w \in Workers, ReadActive(w) PROVE NoMissedDone'
    <2>1. CASE activeTasks = 0
        BY <1>0, <1>a, <1>8, <2>1 DEF ReadActive, Goto, PcType, Submitting
    <2>2. CASE activeTasks # 0
        <3>1. DOMAIN checkbook # {}
            BY <1>0, <2>2, EmptyBook
        <3> QED
            BY <1>a, <1>8, <3>1 DEF ReadActive, managerVars
    <2> QED
        BY <2>1, <2>2
<1>9. ASSUME NEW w \in Workers, ReadQueueAndSignal(w) PROVE NoMissedDone'
    <2>1. CASE taskQueue = <<>>
        BY <1>9, <2>1 DEF ReadQueueAndSignal, NoMissedDone
    <2>2. CASE taskQueue # <<>>
        <3>1. 1 \in DOMAIN taskQueue
            BY <1>0, <2>2 DEF ManagerType
        <3>2. DOMAIN checkbook # {}
            BY <1>0, <3>1 DEF EachTaskOnce, InBook
        <3> QED
            BY <1>a, <1>9, <3>2 DEF ReadQueueAndSignal, managerVars
    <2> QED
        BY <2>1, <2>2
<1>10. ASSUME UNCHANGED vars PROVE NoMissedDone'
    BY <1>b, <1>10 DEF vars, managerVars, Submitting
<1>11. ASSUME NEW p \in Procs, ActivatePayload(p) PROVE NoMissedDone'
    <2>1. held[p].id \in DOMAIN checkbook
        BY <1>0, <1>11 DEF ActivatePayload, EnqueueFlow, EachTaskOnce, InBook
    <2> QED
        BY <1>a, <1>11, <2>1 DEF ActivatePayload
<1> QED
    BY <1>1, <1>2, <1>3, <1>4, <1>5, <1>6, <1>7, <1>8, <1>9, <1>10, <1>11, NextCases

-----------------------------------------------------------------------------
(***************************************************************************)
(* Every model is in one place.                                            *)
(***************************************************************************)

\* Disjointness is symmetric and distributes over unions.
LEMMA DisjointFacts ==
    ASSUME NEW S, NEW T, NEW U
    PROVE  /\ Disjoint(S, T) <=> Disjoint(T, S)
           /\ Disjoint(S, T \cup U) <=> Disjoint(S, T) /\ Disjoint(S, U)
BY DEF Disjoint

\* A step that moves no cube keeps every model in its place.
LEMMA ConservationFrame ==
    ASSUME Conservation,
           DOMAIN (checkbook') = DOMAIN checkbook,
           \A i \in DOMAIN checkbook : checkbook'[i].cube = checkbook[i].cube,
           UNCHANGED <<cube, todo, counted, dropped>>,
           \A w \in Workers : Removed(w)' <=> Removed(w),
           pc'[Solver] # "boot" => pc[Solver] # "boot"
    PROVE  Conservation'
<1>1. /\ \A i \in DOMAIN checkbook : BookModels(i)' = BookModels(i)
      /\ \A w \in Workers : RemovedModels(w)' = RemovedModels(w)
      /\ \A p \in Procs : \A i \in DOMAIN todo[p] : TodoModels(p, i)' = TodoModels(p, i)
      /\ Accounted' = Accounted
    BY DEF BookModels, RemovedModels, TodoModels, Accounted
<1>2. NothingLost'
    BY <1>1 DEF Conservation, NothingLost
<1>3. NothingTwice'
    BY <1>1 DEF Conservation, NothingTwice
<1> QED
    BY <1>2, <1>3 DEF Conservation

\* makePayload moves a cube from the hands of EnqueueCubes to the checkbook.
LEMMA MakePayloadConserves ==
    ASSUME ManagerType, LocalsType, PcType, Conservation, NEW p \in Procs, MakePayload(p)
    PROVE  Conservation'
<1> DEFINE id == nextID + 1
           n == Len(todo[p])
<1>1. /\ todo[p] \in Seq(CubeType) /\ todo[p] # <<>>
      /\ checkbook' = [i \in DOMAIN checkbook \cup {id} |->
                          IF i = id THEN [cube |-> Head(todo[p]), hostname |-> NoHost]
                                    ELSE checkbook[i]]
      /\ todo' = [todo EXCEPT ![p] = Tail(todo[p])]
      /\ pc[p] = "enqueue" /\ pc' = [pc EXCEPT ![p] = "activate"]
      /\ UNCHANGED <<cube, counted, dropped>>
    BY DEF MakePayload, Goto, LocalsType, ghostVars
<1>2. /\ n \in Nat \ {0} /\ DOMAIN todo[p] = 1..n /\ DOMAIN todo'[p] = 1..(n - 1)
      /\ \A i \in 1..(n - 1) : todo'[p][i] = todo[p][i + 1] /\ i + 1 \in 1..n /\ i + 1 # 1
      /\ \A i \in 1..n : i # 1 => i - 1 \in 1..(n - 1) /\ (i - 1) + 1 = i
      /\ 1 \in 1..n
      /\ \A q \in Procs : q # p => todo'[q] = todo[q]
    BY <1>1 DEF LocalsType
<1>3. /\ DOMAIN (checkbook') = DOMAIN checkbook \cup {id}
      /\ id \notin DOMAIN checkbook
      /\ checkbook'[id].cube = todo[p][1]
      /\ \A i \in DOMAIN checkbook : checkbook'[i] = checkbook[i]
    BY <1>1 DEF ManagerType
<1> HIDE DEF id, n
<1> DEFINE B(i) == ModelsOf(checkbook'[i].cube)
           T(q, i) == ModelsOf(todo'[q][i])
<1>4. /\ B(id) = TodoModels(p, 1)
      /\ \A i \in DOMAIN checkbook : B(i) = BookModels(i)
      /\ \A i \in 1..(n - 1) : T(p, i) = TodoModels(p, i + 1)
      /\ \A q \in Procs : q # p => \A i \in DOMAIN todo[q] : T(q, i) = TodoModels(q, i)
    BY <1>2, <1>3 DEF BookModels, TodoModels
<1> HIDE DEF B, T
<1>5. \A q \in Procs : \A i \in DOMAIN todo'[q] :
          \E j \in DOMAIN todo[q] : /\ T(q, i) = TodoModels(q, j)
                                    /\ q = p => j # 1 /\ j = i + 1
                                    /\ q # p => j = i
    <2> SUFFICES ASSUME NEW q \in Procs, NEW i \in DOMAIN todo'[q]
                 PROVE  \E j \in DOMAIN todo[q] : /\ T(q, i) = TodoModels(q, j)
                                                  /\ q = p => j # 1 /\ j = i + 1
                                                  /\ q # p => j = i
        OBVIOUS
    <2>1. CASE q = p
        <3>1. i \in 1..(n - 1)
            BY <1>2, <2>1
        <3>2. /\ i + 1 \in DOMAIN todo[p] /\ i + 1 # 1
              /\ T(p, i) = TodoModels(p, i + 1)
            BY <1>2, <1>4, <3>1
        <3> QED
            BY <2>1, <3>2
    <2>2. CASE q # p
        <3>1. i \in DOMAIN todo[q]
            BY <1>2, <2>2
        <3>2. T(q, i) = TodoModels(q, i)
            BY <1>4, <2>2, <3>1
        <3> QED
            BY <2>2, <3>1, <3>2
    <2> QED
        BY <2>1, <2>2
<1>6. /\ \A w \in Workers : Removed(w)' <=> Removed(w)
      /\ pc'[Solver] # "boot" => pc[Solver] # "boot"
    BY <1>1, ProcsAssumption DEF Removed, PcType, Procs
<1>7. NothingLost'
    <2> SUFFICES ASSUME pc[Solver] # "boot", NEW a \in AllModels
                 PROVE  \/ a \in Accounted
                        \/ \E i \in DOMAIN (checkbook') : a \in B(i)
                        \/ \E w \in Workers : Removed(w) /\ a \in RemovedModels(w)
                        \/ \E q \in Procs : \E i \in DOMAIN todo'[q] : a \in T(q, i)
        BY <1>1, <1>6 DEF NothingLost, Accounted, RemovedModels, BookModels, TodoModels, B, T
    <2>1. CASE a \in Accounted \/ \E w \in Workers : Removed(w) /\ a \in RemovedModels(w)
        BY <2>1
    <2>2. CASE \E i \in DOMAIN checkbook : a \in BookModels(i)
        BY <1>3, <1>4, <2>2
    <2>3. ASSUME NEW q \in Procs, NEW i \in DOMAIN todo[q], a \in TodoModels(q, i)
          PROVE  \/ \E j \in DOMAIN (checkbook') : a \in B(j)
                 \/ \E j \in DOMAIN todo'[q] : a \in T(q, j)
        <3>1. CASE q # p
            BY <1>2, <1>4, <2>3, <3>1
        <3>2. CASE q = p /\ i = 1
            BY <1>3, <1>4, <2>3, <3>2
        <3>3. CASE q = p /\ i # 1
            <4>1. i - 1 \in 1..(n - 1) /\ (i - 1) + 1 = i
                BY <1>2, <3>3
            <4>2. T(p, i - 1) = TodoModels(p, i)
                BY <1>4, <4>1
            <4> QED
                BY <1>2, <2>3, <3>3, <4>1, <4>2
        <3> QED
            BY <3>1, <3>2, <3>3
    <2> QED
        BY <2>1, <2>2, <2>3 DEF Conservation, NothingLost
<1>8. NothingTwice'
    <2>0. NothingTwice
        BY DEF Conservation
    <2>1. \A i \in DOMAIN (checkbook') : Disjoint(B(i), Accounted)
        BY <1>2, <1>3, <1>4, <2>0 DEF NothingTwice
    <2>2. \A q \in Procs : \A i \in DOMAIN todo'[q] : Disjoint(T(q, i), Accounted)
        BY <1>5, <2>0 DEF NothingTwice
    <2>3. \A i \in DOMAIN checkbook : Disjoint(BookModels(i), TodoModels(p, 1))
                                      /\ Disjoint(TodoModels(p, 1), BookModels(i))
        BY <1>2, <2>0, DisjointFacts DEF NothingTwice
    <2>4. \A i, j \in DOMAIN (checkbook') : i # j => Disjoint(B(i), B(j))
        BY <1>3, <1>4, <2>0, <2>3 DEF NothingTwice
    <2>5. \A i \in DOMAIN (checkbook'), w \in Workers :
              Removed(w) => Disjoint(B(i), RemovedModels(w))
        BY <1>2, <1>3, <1>4, <2>0, DisjointFacts DEF NothingTwice
    <2>6. \A i \in DOMAIN (checkbook'), q \in Procs : \A j \in DOMAIN todo'[q] :
              Disjoint(B(i), T(q, j))
        BY <1>2, <1>3, <1>4, <1>5, <2>0 DEF NothingTwice
    <2>7. \A w \in Workers, q \in Procs : \A i \in DOMAIN todo'[q] :
              Removed(w) => Disjoint(RemovedModels(w), T(q, i))
        BY <1>5, <2>0 DEF NothingTwice
    <2>8. \A q, r \in Procs : \A i \in DOMAIN todo'[q], j \in DOMAIN todo'[r] :
              q # r \/ i # j => Disjoint(T(q, i), T(r, j))
        <3> SUFFICES ASSUME NEW q \in Procs, NEW r \in Procs,
                            NEW i \in DOMAIN todo'[q], NEW j \in DOMAIN todo'[r],
                            q # r \/ i # j
                     PROVE  Disjoint(T(q, i), T(r, j))
            OBVIOUS
        <3>1. PICK k \in DOMAIN todo[q] : /\ T(q, i) = TodoModels(q, k)
                                          /\ q = p => k = i + 1
                                          /\ q # p => k = i
            BY <1>5
        <3>2. PICK l \in DOMAIN todo[r] : /\ T(r, j) = TodoModels(r, l)
                                          /\ r = p => l = j + 1
                                          /\ r # p => l = j
            BY <1>5
        <3>3. q # r \/ k # l
            BY <1>2, <3>1, <3>2
        <3> QED
            BY <2>0, <3>1, <3>2, <3>3 DEF NothingTwice
    <2> QED
        BY <1>1, <1>6, <2>0, <2>1, <2>2, <2>4, <2>5, <2>6, <2>7, <2>8
        DEF NothingTwice, Accounted, RemovedModels, BookModels, TodoModels, B, T
<1> QED
    BY <1>7, <1>8 DEF Conservation

\* Solve starts from a partition of the models.
LEMMA SolveResetConserves ==
    ASSUME LocalsType, PcType, Flow, Conservation, SolveReset
    PROVE  Conservation'
<1>1. /\ pc[Solver] = "boot"
      /\ todo' = [todo EXCEPT ![Solver] = InitialCubes]
      /\ pc' = [pc EXCEPT ![Solver] = "enqueue"]
      /\ UNCHANGED <<checkbook, cube, counted, dropped>>
    BY DEF SolveReset, Goto, managerVars, ghostVars
<1>2. /\ DOMAIN checkbook = {} /\ Accounted = {} /\ counted = {} /\ dropped = {}
      /\ \A w \in Workers : pc[w] \in {"idle", "registered", "gone"}
    BY <1>1 DEF Flow, BootFlow, Accounted
<1>3. \A w \in Workers : ~Removed(w)'
    BY <1>1, <1>2, ProcsAssumption DEF Removed, PcType
<1>4. \A p \in Procs : todo'[p] = IF p = Solver THEN InitialCubes ELSE <<>>
    <2>1. \A w \in Workers : todo[w] = <<>>
        BY <1>2, ProcsAssumption DEF Flow, EnqueueFlow, EnqueuePcs, Procs
    <2> QED
        BY <1>1, <2>1 DEF LocalsType, Procs
<1>5. \A p \in Procs : \A i \in DOMAIN todo'[p] :
          p = Solver /\ i \in DOMAIN InitialCubes /\ TodoModels(p, i)' = ModelsOf(InitialCubes[i])
    BY <1>4 DEF TodoModels
<1>6. NothingLost'
    <2> SUFFICES ASSUME NEW a \in AllModels
                 PROVE  \E p \in Procs : \E i \in DOMAIN todo'[p] : a \in TodoModels(p, i)'
        BY DEF NothingLost
    <2>1. PICK i \in DOMAIN InitialCubes : a \in ModelsOf(InitialCubes[i])
        BY InitialCubesAssumption
    <2>2. Solver \in Procs /\ i \in DOMAIN todo'[Solver]
        BY <1>4 DEF Procs
    <2> QED
        BY <1>5, <2>1, <2>2
<1>7. NothingTwice'
    <2>1. Accounted' = {} /\ Disjoint(counted', dropped')
        BY <1>1, <1>2 DEF Accounted, Disjoint
    <2>2. \A p \in Procs : \A i \in DOMAIN todo'[p] : Disjoint(TodoModels(p, i), Accounted)'
        BY <2>1 DEF Disjoint
    <2>3. \A p, q \in Procs : \A i \in DOMAIN todo'[p], j \in DOMAIN todo'[q] :
              p # q \/ i # j => Disjoint(TodoModels(p, i), TodoModels(q, j))'
        BY <1>5, InitialCubesAssumption DEF Disjoint
    <2>4. DOMAIN (checkbook') = {}
        BY <1>1, <1>2
    <2> QED
        BY <1>3, <2>1, <2>2, <2>3, <2>4 DEF NothingTwice
<1> QED
    BY <1>6, <1>7 DEF Conservation

\* GetAndRemoveTask moves the models of a task from the checkbook to the
\* handler that runs SubmitResult.
LEMMA RemoveConserves ==
    ASSUME PcType, LocalsType, EachTaskOnce, Conservation,
           NEW w \in Workers, GetAndRemoveTask(w)
    PROVE  Conservation'
<1> DEFINE id == task[w].id
<1>1. id \in DOMAIN checkbook
    BY DEF GetAndRemoveTask, EachTaskOnce, Holding, InBook
<1>2. /\ pc[w] = "submit"
      /\ pc' = [pc EXCEPT ![w] = "removed"]
      /\ checkbook' = [i \in DOMAIN checkbook \ {id} |-> checkbook[i]]
      /\ cube' = [cube EXCEPT ![w] = checkbook[id].cube]
      /\ UNCHANGED <<todo, counted, dropped>>
    BY <1>1 DEF GetAndRemoveTask, Goto, ghostVars
<1> HIDE DEF id
<1>3. /\ \A v \in Workers : Removed(v)' <=> v = w \/ Removed(v)
      /\ ~Removed(w)
      /\ pc'[Solver] = pc[Solver]
    BY <1>2, ProcsAssumption DEF Removed, PcType, Procs
<1>4. /\ RemovedModels(w)' = BookModels(id)
      /\ \A v \in Workers : v # w => RemovedModels(v)' = RemovedModels(v)
      /\ DOMAIN (checkbook') = DOMAIN checkbook \ {id}
      /\ \A i \in DOMAIN checkbook : i # id => BookModels(i)' = BookModels(i)
      /\ \A p \in Procs : \A i \in DOMAIN todo[p] : TodoModels(p, i)' = TodoModels(p, i)
      /\ Accounted' = Accounted
    BY <1>2 DEF RemovedModels, BookModels, TodoModels, Accounted, LocalsType
<1>5. NothingLost'
    <2> SUFFICES ASSUME pc[Solver] # "boot", NEW a \in AllModels
                 PROVE  \/ a \in Accounted
                        \/ \E i \in DOMAIN (checkbook') : a \in BookModels(i)'
                        \/ \E v \in Workers : Removed(v)' /\ a \in RemovedModels(v)'
                        \/ \E p \in Procs : \E i \in DOMAIN todo[p] : a \in TodoModels(p, i)
        BY <1>2, <1>3, <1>4 DEF NothingLost
    <2> QED
        BY <1>1, <1>3, <1>4 DEF Conservation, NothingLost
<1>6. NothingTwice'
    <2>0. NothingTwice
        BY DEF Conservation
    <2>1. \A v \in Workers : Removed(v)' => Disjoint(RemovedModels(v)', Accounted)
        BY <1>1, <1>3, <1>4, <2>0 DEF NothingTwice
    <2>2. \A i \in DOMAIN (checkbook'), v \in Workers :
              Removed(v)' => Disjoint(BookModels(i)', RemovedModels(v)')
        BY <1>1, <1>3, <1>4, <2>0 DEF NothingTwice
    <2>3. \A u, v \in Workers :
              Removed(u)' /\ Removed(v)' /\ u # v => Disjoint(RemovedModels(u)', RemovedModels(v)')
        BY <1>1, <1>3, <1>4, <2>0, DisjointFacts DEF NothingTwice
    <2>4. \A v \in Workers, p \in Procs : \A i \in DOMAIN todo[p] :
              Removed(v)' => Disjoint(RemovedModels(v)', TodoModels(p, i))
        BY <1>1, <1>3, <1>4, <2>0 DEF NothingTwice
    <2>5. /\ \A i \in DOMAIN (checkbook') : Disjoint(BookModels(i)', Accounted)
          /\ \A i, j \in DOMAIN (checkbook') : i # j => Disjoint(BookModels(i)', BookModels(j)')
          /\ \A i \in DOMAIN (checkbook'), p \in Procs : \A j \in DOMAIN todo[p] :
                Disjoint(BookModels(i)', TodoModels(p, j))
        BY <1>4, <2>0 DEF NothingTwice
    <2> QED
        BY <1>2, <1>4, <2>0, <2>1, <2>2, <2>3, <2>4, <2>5 DEF NothingTwice, Disjoint
<1> QED
    BY <1>5, <1>6 DEF Conservation

\* SubmitResult replaces a cube that timed out by its two halves.
LEMMA SplitConserves ==
    ASSUME PcType, LocalsType, Flow, Conservation, NEW w \in Workers, SplitTimedOut(w)
    PROVE  Conservation'
<1> DEFINE h == SplitCubeSmart(cube[w], Clauses)
<1>1. /\ Removed(w)
      /\ pc' = [pc EXCEPT ![w] = "enqueue"]
      /\ todo' = [todo EXCEPT ![w] = h]
      /\ cube' = [cube EXCEPT ![w] = {}]
      /\ UNCHANGED <<checkbook, counted, dropped>>
    BY DEF SplitTimedOut, Removed, Goto, managerVars, ghostVars
<1>2. cube[w] \in CubeType /\ FreeVars(cube[w], Clauses) # {}
    BY DEF SplitTimedOut, Flow, ResultFlow, Removed, LocalsType
<1>3. /\ Len(h) = 2 /\ DOMAIN h = {1, 2}
      /\ RemovedModels(w) = ModelsOf(h[1]) \cup ModelsOf(h[2])
      /\ Disjoint(ModelsOf(h[1]), ModelsOf(h[2]))
    <2>1. /\ h \in Seq(CubeType) /\ Len(h) = 2
          /\ ModelsOf(cube[w]) = ModelsOf(h[1]) \cup ModelsOf(h[2])
          /\ ModelsOf(h[1]) \cap ModelsOf(h[2]) = {}
        BY <1>2, SplitHalves
    <2> HIDE DEF h
    <2>2. DOMAIN h = 1..2
        BY <2>1
    <2>3. 1..2 = {1, 2}
        OBVIOUS
    <2> QED
        BY <2>1, <2>2, <2>3 DEF RemovedModels, Disjoint
<1> HIDE DEF h
<1>4. /\ todo[w] = <<>> /\ todo'[w] = h
      /\ \A p \in Procs : p # w => todo'[p] = todo[p]
    BY <1>1 DEF Flow, EnqueueFlow, EnqueuePcs, Removed, LocalsType, Procs
<1>5. /\ \A v \in Workers : Removed(v)' <=> v # w /\ Removed(v)
      /\ pc'[Solver] = pc[Solver]
    BY <1>1, ProcsAssumption DEF Removed, PcType, Procs
<1>6. /\ TodoModels(w, 1)' = ModelsOf(h[1]) /\ TodoModels(w, 2)' = ModelsOf(h[2])
      /\ \A p \in Procs : p # w => \A i \in DOMAIN todo[p] : TodoModels(p, i)' = TodoModels(p, i)
      /\ \A v \in Workers : v # w => RemovedModels(v)' = RemovedModels(v)
      /\ \A i \in DOMAIN checkbook : BookModels(i)' = BookModels(i)
      /\ Accounted' = Accounted
    BY <1>1, <1>4 DEF TodoModels, RemovedModels, BookModels, Accounted, LocalsType
<1>7. NothingLost'
    <2> SUFFICES ASSUME pc[Solver] # "boot", NEW a \in AllModels
                 PROVE  \/ a \in Accounted
                        \/ \E i \in DOMAIN checkbook : a \in BookModels(i)
                        \/ \E v \in Workers : Removed(v)' /\ a \in RemovedModels(v)'
                        \/ \E p \in Procs : \E i \in DOMAIN todo'[p] : a \in TodoModels(p, i)'
        BY <1>1, <1>5, <1>6 DEF NothingLost
    <2>1. CASE a \in RemovedModels(w)
        <3>1. w \in Procs /\ 1 \in DOMAIN todo'[w] /\ 2 \in DOMAIN todo'[w]
            BY <1>3, <1>4 DEF Procs
        <3> QED
            BY <1>3, <1>6, <2>1, <3>1
    <2>2. CASE \E v \in Workers : v # w /\ Removed(v) /\ a \in RemovedModels(v)
        BY <1>5, <1>6, <2>2
    <2>3. CASE \E p \in Procs : \E i \in DOMAIN todo[p] : a \in TodoModels(p, i)
        <3>1. \A p \in Procs : \A i \in DOMAIN todo[p] : p # w
            BY <1>4
        <3> QED
            BY <1>4, <1>6, <2>3, <3>1
    <2> QED
        BY <2>1, <2>2, <2>3 DEF Conservation, NothingLost
<1>8. NothingTwice'
    <2>0. NothingTwice
        BY DEF Conservation
    <2>1. \A p \in Procs : \A i \in DOMAIN todo'[p] :
              \/ p = w /\ i = 1 /\ TodoModels(p, i)' = ModelsOf(h[1])
              \/ p = w /\ i = 2 /\ TodoModels(p, i)' = ModelsOf(h[2])
              \/ p # w /\ i \in DOMAIN todo[p] /\ TodoModels(p, i)' = TodoModels(p, i)
        BY <1>3, <1>4, <1>6
    \* What is disjoint from the cube is disjoint from its halves.
    <2>2. ASSUME NEW S, Disjoint(S, RemovedModels(w)) \/ Disjoint(RemovedModels(w), S)
          PROVE  /\ Disjoint(S, ModelsOf(h[1])) /\ Disjoint(ModelsOf(h[1]), S)
                 /\ Disjoint(S, ModelsOf(h[2])) /\ Disjoint(ModelsOf(h[2]), S)
        BY <1>3, <2>2, DisjointFacts
    <2>3. \A p \in Procs : \A i \in DOMAIN todo'[p] : Disjoint(TodoModels(p, i)', Accounted)
        <3>1. Disjoint(RemovedModels(w), Accounted)
            BY <1>1, <2>0 DEF NothingTwice
        <3> QED
            BY <2>0, <2>1, <2>2, <3>1 DEF NothingTwice
    <2>4. \A i \in DOMAIN checkbook, p \in Procs : \A j \in DOMAIN todo'[p] :
              Disjoint(BookModels(i), TodoModels(p, j)')
        <3>1. \A i \in DOMAIN checkbook : Disjoint(BookModels(i), RemovedModels(w))
            BY <1>1, <2>0 DEF NothingTwice
        <3> QED
            BY <2>0, <2>1, <2>2, <3>1 DEF NothingTwice
    <2>5. \A v \in Workers, p \in Procs : \A i \in DOMAIN todo'[p] :
              Removed(v)' => Disjoint(RemovedModels(v), TodoModels(p, i)')
        <3>1. \A v \in Workers : Removed(v)' => Disjoint(RemovedModels(v), RemovedModels(w))
            BY <1>1, <1>5, <2>0 DEF NothingTwice
        <3> QED
            BY <1>5, <2>0, <2>1, <2>2, <3>1 DEF NothingTwice
    <2>6. \A p, q \in Procs : \A i \in DOMAIN todo'[p], j \in DOMAIN todo'[q] :
              p # q \/ i # j => Disjoint(TodoModels(p, i)', TodoModels(q, j)')
        <3>1. \A p \in Procs : \A i \in DOMAIN todo[p] : Disjoint(RemovedModels(w), TodoModels(p, i))
            BY <1>1, <2>0 DEF NothingTwice
        <3>2. Disjoint(ModelsOf(h[1]), ModelsOf(h[2])) /\ Disjoint(ModelsOf(h[2]), ModelsOf(h[1]))
            BY <1>3, DisjointFacts
        <3> QED
            BY <2>0, <2>1, <2>2, <3>1, <3>2 DEF NothingTwice
    <2> QED
        BY <1>1, <1>5, <1>6, <2>0, <2>3, <2>4, <2>5, <2>6 DEF NothingTwice
<1> QED
    BY <1>7, <1>8 DEF Conservation

\* SubmitResult accounts for the models of a cube that ganak has finished.
LEMMA AccountConserves ==
    ASSUME PcType, LocalsType, Flow, Conservation, NEW w \in Workers,
           AddCount(w) \/ AddZero(w)
    PROVE  Conservation'
<1> DEFINE M == ModelsOf(cube[w])
<1>1. /\ Removed(w) /\ M = RemovedModels(w)
      /\ pc' = [pc EXCEPT ![w] = "added"]
      /\ cube' = [cube EXCEPT ![w] = {}]
      /\ UNCHANGED <<checkbook, todo>>
      /\ \/ counted' = counted \cup M /\ dropped' = dropped
         \/ dropped' = dropped \cup M /\ counted' = counted
    BY DEF AddCount, AddZero, Removed, RemovedModels, Goto, managerVars, Flow, ResultFlow
<1> HIDE DEF M
<1>2. /\ \A v \in Workers : Removed(v)' <=> v # w /\ Removed(v)
      /\ pc'[Solver] = pc[Solver]
    BY <1>1, ProcsAssumption DEF Removed, PcType, Procs
<1>3. /\ \A p \in Procs : \A i \in DOMAIN todo[p] : TodoModels(p, i)' = TodoModels(p, i)
      /\ \A v \in Workers : v # w => RemovedModels(v)' = RemovedModels(v)
      /\ \A i \in DOMAIN checkbook : BookModels(i)' = BookModels(i)
      /\ Accounted' = Accounted \cup M
    BY <1>1 DEF TodoModels, RemovedModels, BookModels, Accounted, LocalsType
<1>4. NothingLost'
    <2> SUFFICES ASSUME pc[Solver] # "boot", NEW a \in AllModels
                 PROVE  \/ a \in Accounted \cup M
                        \/ \E i \in DOMAIN checkbook : a \in BookModels(i)
                        \/ \E v \in Workers : Removed(v)' /\ a \in RemovedModels(v)'
                        \/ \E p \in Procs : \E i \in DOMAIN todo[p] : a \in TodoModels(p, i)
        BY <1>1, <1>2, <1>3 DEF NothingLost
    <2> QED
        BY <1>1, <1>2, <1>3 DEF Conservation, NothingLost
<1>5. NothingTwice'
    <2>0. NothingTwice
        BY DEF Conservation
    <2>1. ASSUME NEW S, Disjoint(S, Accounted), Disjoint(S, M) \/ Disjoint(M, S)
          PROVE  Disjoint(S, Accounted \cup M)
        BY <2>1, DisjointFacts
    <2>2. Disjoint(counted', dropped')
        <3>1. Disjoint(M, Accounted)
            BY <1>1, <2>0 DEF NothingTwice
        <3>2. Disjoint(M, counted) /\ Disjoint(M, dropped) /\ Disjoint(counted, dropped)
            BY <2>0, <3>1, DisjointFacts DEF Accounted, NothingTwice
        <3> QED
            BY <1>1, <3>2 DEF Disjoint
    <2>3. \A i \in DOMAIN checkbook : Disjoint(BookModels(i), Accounted \cup M)
        BY <1>1, <2>0, <2>1 DEF NothingTwice
    <2>4. \A v \in Workers : Removed(v)' => Disjoint(RemovedModels(v), Accounted \cup M)
        BY <1>1, <1>2, <2>0, <2>1 DEF NothingTwice
    <2>5. \A p \in Procs : \A i \in DOMAIN todo[p] : Disjoint(TodoModels(p, i), Accounted \cup M)
        BY <1>1, <2>0, <2>1 DEF NothingTwice
    <2>6. /\ DOMAIN checkbook' = DOMAIN checkbook
          /\ \A p \in Procs : DOMAIN todo'[p] = DOMAIN todo[p]
        BY <1>1
    <2>7. /\ \A i \in DOMAIN checkbook' : Disjoint(BookModels(i)', Accounted')
          /\ \A v \in Workers : Removed(v)' => Disjoint(RemovedModels(v)', Accounted')
          /\ \A p \in Procs : \A i \in DOMAIN todo'[p] : Disjoint(TodoModels(p, i)', Accounted')
        BY <1>2, <1>3, <2>3, <2>4, <2>5, <2>6
    <2>8. /\ \A i, j \in DOMAIN checkbook' : i # j => Disjoint(BookModels(i)', BookModels(j)')
          /\ \A i \in DOMAIN checkbook', v \in Workers :
                Removed(v)' => Disjoint(BookModels(i)', RemovedModels(v)')
          /\ \A i \in DOMAIN checkbook', p \in Procs : \A j \in DOMAIN todo'[p] :
                Disjoint(BookModels(i)', TodoModels(p, j)')
        BY <1>2, <1>3, <2>0, <2>6 DEF NothingTwice
    <2>9. /\ \A u, v \in Workers :
                Removed(u)' /\ Removed(v)' /\ u # v
                    => Disjoint(RemovedModels(u)', RemovedModels(v)')
          /\ \A v \in Workers, p \in Procs : \A i \in DOMAIN todo'[p] :
                Removed(v)' => Disjoint(RemovedModels(v)', TodoModels(p, i)')
        BY <1>2, <1>3, <2>0, <2>6 DEF NothingTwice
    <2>10. \A p, q \in Procs : \A i \in DOMAIN todo'[p], j \in DOMAIN todo'[q] :
              p # q \/ i # j => Disjoint(TodoModels(p, i)', TodoModels(q, j)')
        BY <1>3, <2>0, <2>6 DEF NothingTwice
    <2> QED
        BY <2>2, <2>7, <2>8, <2>9, <2>10 DEF NothingTwice, Disjoint
<1> QED
    BY <1>4, <1>5 DEF Conservation

\* Every step keeps each model in exactly one place.
LEMMA ConservationStep == IInv /\ [Next]_vars => Conservation'
<1> SUFFICES ASSUME IInv, [Next]_vars PROVE Conservation'
    OBVIOUS
<1>0. /\ ManagerType /\ LocalsType /\ PcType
      /\ Flow /\ EachTaskOnce /\ Conservation
    BY DEF IInv, TypeOK
<1> USE ProcsAssumption DEF Procs
<1>a. ASSUME UNCHANGED <<checkbook, cube, todo, counted, dropped>>,
             \A w \in Workers : Removed(w)' <=> Removed(w),
             pc'[Solver] # "boot" => pc[Solver] # "boot"
      PROVE  Conservation'
    BY <1>0, <1>a, ConservationFrame
<1>1. ASSUME NEW p \in Procs, MakePayload(p) PROVE Conservation'
    BY <1>0, <1>1, MakePayloadConserves
<1>2. ASSUME NEW p \in Procs, ActivatePayload(p) \/ PushPayload(p) PROVE Conservation'
    <2>1. \A w \in Workers : Removed(w)' <=> Removed(w)
        BY <1>0, <1>2 DEF ActivatePayload, PushPayload, Goto, Removed, PcType
    <2>2. pc'[Solver] # "boot" => pc[Solver] # "boot"
        BY <1>0, <1>2 DEF ActivatePayload, PushPayload, Goto, PcType
    <2> QED
        BY <1>a, <1>2, <2>1, <2>2 DEF ActivatePayload, PushPayload, localVars, ghostVars
<1>3. ASSUME SolveReset PROVE Conservation'
    BY <1>0, <1>3, SolveResetConserves
<1>4. ASSUME SolveReceiveDone \/ SolveLogResult PROVE Conservation'
    BY <1>0, <1>a, <1>4
    DEF SolveReceiveDone, SolveLogResult, Goto, managerVars, localVars, ghostVars, Removed, PcType
<1>5. ASSUME NEW w \in Workers,
             \/ RegisterWorker(w) \/ GetTaskRefuse(w) \/ GetTaskAdmit(w) \/ GetTaskPop(w)
             \/ GetTaskTimeout(w) \/ AssignTask(w)
             \/ GanakCounts(w) \/ GanakTimesOut(w) \/ GanakFails(w)
             \/ CallLost(w) \/ WorkerLeaves(w) \/ WorkerJoins(w)
      PROVE  Conservation'
    BY <1>0, <1>a, <1>5
    DEF RegisterWorker, GetTaskRefuse, GetTaskAdmit, GetTaskPop, GetTaskTimeout, AssignTask,
        GanakCounts, GanakTimesOut, GanakFails, Solved, CallLost, WorkerLeaves, WorkerJoins, Goto,
        managerVars, localVars, ghostVars, Removed, PcType
<1>6. ASSUME NEW w \in Workers, RecordAssignment(w) PROVE Conservation'
    <2>1. /\ DOMAIN (checkbook') = DOMAIN checkbook
          /\ \A i \in DOMAIN checkbook : checkbook'[i].cube = checkbook[i].cube
        BY <1>0, <1>6 DEF RecordAssignment, ManagerType, Entries
    <2>2. \A v \in Workers : Removed(v)' <=> Removed(v)
        BY <1>0, <1>6 DEF RecordAssignment, Goto, Removed, PcType
    <2>3. pc'[Solver] = pc[Solver]
        BY <1>0, <1>6 DEF RecordAssignment, Goto, PcType
    <2> QED
        BY <1>0, <1>6, <2>1, <2>2, <2>3, ConservationFrame
        DEF RecordAssignment, localVars, ghostVars
<1>7. ASSUME NEW w \in Workers, GetAndRemoveTask(w) PROVE Conservation'
    BY <1>0, <1>7, RemoveConserves
<1>8. ASSUME NEW w \in Workers, SplitTimedOut(w) PROVE Conservation'
    BY <1>0, <1>8, SplitConserves
<1>9. ASSUME NEW w \in Workers, AddCount(w) \/ AddZero(w) PROVE Conservation'
    BY <1>0, <1>9, AccountConserves
<1>10. ASSUME NEW w \in Workers,
              \/ UpdateWorkerResult(w) \/ CountTimeout(w) \/ CompleteTask(w)
              \/ ReadActive(w) \/ ReadQueueAndSignal(w)
       PROVE  Conservation'
    BY <1>0, <1>a, <1>10
    DEF UpdateWorkerResult, CountTimeout, CompleteTask, ReadActive, ReadQueueAndSignal, Goto,
        managerVars, localVars, ghostVars, Removed, PcType
<1>11. ASSUME UNCHANGED vars PROVE Conservation'
    BY <1>a, <1>11 DEF vars, managerVars, localVars, ghostVars, Removed
<1> QED
    BY <1>1, <1>2, <1>3, <1>4, <1>5, <1>6, <1>7, <1>8, <1>9, <1>10, <1>11, NextCases

-----------------------------------------------------------------------------
(***************************************************************************)
(* The count.                                                              *)
(***************************************************************************)
\* A count is added once: its models were not counted before.
LEMMA CountIsCountedStep == IInv /\ [Next]_vars => CountIsCounted'
<1> SUFFICES ASSUME IInv, [Next]_vars PROVE CountIsCounted'
    OBVIOUS
<1>0. ServerType /\ CountIsCounted /\ Flow /\ Conservation
    BY DEF IInv, TypeOK
<1>1. ASSUME NEW w \in Workers, AddCount(w) PROVE CountIsCounted'
    <2> DEFINE M == ModelsOf(task[w].cube)
    <2>1. IsFiniteSet(M) /\ Cardinality(M) \in Nat
        BY GanakAnswer
    <2>2. IsFiniteSet(counted)
        <3>1. IsFiniteSet(AllModels)
            BY GanakAnswer DEF AllModels, ModelsOf
        <3> QED
            BY <1>0, <3>1, FS_Subset DEF ServerType
    <2>3. counted \cap M = {}
        <3>1. Removed(w) /\ M = RemovedModels(w)
            BY <1>0, <1>1 DEF AddCount, Removed, RemovedModels, Flow, ResultFlow
        <3>2. Disjoint(M, Accounted)
            BY <1>0, <3>1 DEF Conservation, NothingTwice
        <3> QED
            BY <3>2 DEF Disjoint, Accounted
    <2>4. /\ totalCount' = totalCount + Cardinality(M)
          /\ counted' = counted \cup M
          /\ logged' = logged
        BY <1>1 DEF AddCount
    <2> HIDE DEF M
    <2>5. Cardinality(counted \cup M) = Cardinality(counted) + Cardinality(M)
        <3>1. Cardinality(counted \cup M)
                  = Cardinality(counted) + Cardinality(M) - Cardinality(counted \cap M)
            BY <2>1, <2>2, FS_Union
        <3>2. Cardinality(counted \cap M) = 0
            BY <2>3, FS_EmptySet
        <3>3. Cardinality(counted) \in Nat
            BY <2>2, FS_CardinalityType
        <3> QED
            BY <2>1, <3>1, <3>2, <3>3
    <2> QED
        BY <1>0, <2>1, <2>4, <2>5 DEF CountIsCounted, ServerType
<1>2. ASSUME SolveLogResult PROVE CountIsCounted'
    BY <1>0, <1>2 DEF SolveLogResult, CountIsCounted, ServerType, statVars, ghostVars
<1>3. ASSUME UNCHANGED <<totalCount, counted, logged>> PROVE CountIsCounted'
    BY <1>0, <1>3 DEF CountIsCounted
<1> QED
    BY <1>1, <1>2, <1>3, NextCases
    DEF MakePayload, ActivatePayload, PushPayload, SolveReset, SolveReceiveDone, RegisterWorker,
        GetTaskRefuse, GetTaskAdmit, GetTaskPop, GetTaskTimeout, RecordAssignment, AssignTask,
        GanakCounts, GanakTimesOut, GanakFails, Solved, GetAndRemoveTask, UpdateWorkerResult,
        CountTimeout, SplitTimedOut, AddZero, CompleteTask, ReadActive, ReadQueueAndSignal,
        CallLost, WorkerLeaves, WorkerJoins, statVars, ghostVars, vars

-----------------------------------------------------------------------------
(***************************************************************************)
(* The counters of the result log.                                         *)
(***************************************************************************)
\* The results that SubmitResult has taken out of the checkbook and not
\* counted yet as completed or timed out.
InFlight == {w \in Workers : pc[w] \in {"removed", "updated", "added"}}

\* The tasks that are neither completed nor timed out.
Outstanding ==
    Cardinality(DOMAIN checkbook) + Cardinality(InFlight) + Cardinality(Slots(Procs, todo))

\* TasksBalance, and that nothing is counted before Solve sets totalTasks.
CountersBalance ==
    /\ totalTasks = completedTasks + timedOutTasks + Outstanding
    /\ pc[Solver] = "boot" => completedTasks = 0 /\ timedOutTasks = 0

\* CountersBalance is TasksBalance and the boot condition.
LEMMA BalanceFacts ==
    /\ TasksBalance <=> totalTasks = completedTasks + timedOutTasks
                                     + Cardinality(DOMAIN checkbook) + Cardinality(InFlight)
                                     + Cardinality(Slots(Procs, todo))
    /\ IsFiniteSet(Procs)
    /\ IsFiniteSet(InFlight) /\ Cardinality(InFlight) \in Nat
<1>1. IsFiniteSet(Procs)
    BY ProcsAssumption, FS_Singleton, FS_Union DEF Procs
<1>2. IsFiniteSet(InFlight)
    BY ProcsAssumption, FS_Subset DEF InFlight
<1> QED
    BY <1>1, <1>2, FS_CardinalityType DEF TasksBalance, InFlight, Pending, Slots, Tagged

\* SubmitResult counts each task it takes out of the checkbook once, as
\* completed or as timed out, and a split adds its two halves to the total
\* before it hands them to EnqueueCubes.
LEMMA CountersBalanceStep == IInv /\ CountersBalance /\ [Next]_vars => CountersBalance'
<1> SUFFICES ASSUME IInv, CountersBalance, [Next]_vars PROVE CountersBalance'
    OBVIOUS
<1> DEFINE B == Cardinality(DOMAIN checkbook)
           F == Cardinality(InFlight)
           T == Cardinality(Slots(Procs, todo))
<1>0. /\ ManagerType /\ PcType /\ LocalsType /\ Flow
      /\ IsFiniteSet(DOMAIN checkbook) /\ B \in Nat
      /\ IsFiniteSet(InFlight) /\ F \in Nat
      /\ T \in Nat
      /\ completedTasks \in Nat /\ timedOutTasks \in Nat /\ totalTasks \in Nat
      /\ totalTasks = completedTasks + timedOutTasks + (B + F + T)
    <2>1. ManagerType /\ PcType /\ LocalsType /\ ServerType /\ Flow
        BY DEF IInv, TypeOK
    <2>2. IsFiniteSet(Slots(Procs, todo))
        <3>1. SeqFamily(Procs, todo)
            BY <2>1 DEF SeqFamily, LocalsType
        <3> QED
            BY <3>1, BalanceFacts, SlotsFinite
    <2> QED
        BY <2>1, <2>2, BookFinite, BalanceFacts, FS_CardinalityType
        DEF ServerType, CountersBalance, Outstanding
<1>c. /\ Solver \in Procs /\ Solver \notin Workers
      /\ \A w \in Workers : w \in Procs /\ w # Solver
    BY ProcsAssumption DEF Procs
\* What a step does to the three parts.
<1>a. ASSUME NEW p \in Procs, NEW l, Goto(p, l),
             (p \in InFlight) = (p \in Workers /\ l \in {"removed", "updated", "added"})
      PROVE  InFlight' = InFlight
    BY <1>0, <1>a DEF InFlight, Goto, PcType
<1>b. ASSUME InFlight' = InFlight, DOMAIN checkbook' = DOMAIN checkbook, todo' = todo
      PROVE  B' = B /\ F' = F /\ T' = T
    <2>1. Slots(Procs, todo)' = Slots(Procs, todo)
        BY <1>b DEF Slots
    <2> QED
        BY <1>b, <2>1
<1>d. ASSUME NEW p \in Procs, NEW s \in Seq(CubeType), todo' = [todo EXCEPT ![p] = s]
      PROVE  T' = T - Len(todo[p]) + Len(s)
    <2>1. IsFiniteSet(Procs) /\ todo \in [Procs -> Seq(CubeType)]
        BY <1>0, BalanceFacts DEF LocalsType
    <2>2. /\ todo' \in [Procs -> Seq(CubeType)] /\ todo'[p] = s
          /\ \A q \in Procs : q # p => todo'[q] = todo[q]
        BY <1>d, <2>1
    <2>3. Cardinality(Slots(Procs, todo'))
            = Cardinality(Slots(Procs, todo)) - Len(todo[p]) + Len(todo'[p])
        <3>1. SeqFamily(Procs, todo) /\ SeqFamily(Procs, todo')
            BY <2>1, <2>2 DEF SeqFamily
        <3> QED
            BY <2>1, <2>2, <3>1, SlotsReplace
    <2>4. Slots(Procs, todo)' = Slots(Procs, todo')
        BY DEF Slots
    <2> QED
        BY <2>2, <2>3, <2>4
<1>e. ASSUME NEW w \in Workers, InFlight' = InFlight \ {w}, w \in InFlight
      PROVE  F' = F - 1
    BY <1>0, <1>e, FS_RemoveElement
<1>f. ASSUME NEW w \in Workers, InFlight' = InFlight \cup {w}, w \notin InFlight
      PROVE  F' = F + 1
    BY <1>0, <1>f, FS_AddElement
<1>g. ASSUME totalTasks' = completedTasks' + timedOutTasks' + (B' + F' + T'),
             pc'[Solver] = "boot" => completedTasks' = 0 /\ timedOutTasks' = 0
      PROVE  CountersBalance'
    BY <1>g DEF CountersBalance, Outstanding
<1>h. ASSUME UNCHANGED <<completedTasks, timedOutTasks>>, 
             pc'[Solver] = "boot" => pc[Solver] = "boot"
      PROVE  pc'[Solver] = "boot" => completedTasks' = 0 /\ timedOutTasks' = 0
    BY <1>h DEF CountersBalance
<1> HIDE DEF B, F, T
\* A step that moves no task.
<1>i. ASSUME NEW p \in Procs, NEW l, Goto(p, l), l # "boot",
             (p \in InFlight) = (p \in Workers /\ l \in {"removed", "updated", "added"}),
             DOMAIN checkbook' = DOMAIN checkbook,
             UNCHANGED <<todo, completedTasks, timedOutTasks, totalTasks>>
      PROVE  CountersBalance'
    <2>1. InFlight' = InFlight
        BY <1>a, <1>i
    <2>2. B' = B /\ F' = F /\ T' = T
        BY <1>b, <1>i, <2>1
    <2>3. pc'[Solver] = "boot" => pc[Solver] = "boot"
        BY <1>0, <1>c, <1>i DEF Goto, PcType
    <2>4. pc'[Solver] = "boot" => completedTasks' = 0 /\ timedOutTasks' = 0
        BY <1>h, <1>i, <2>3
    <2> QED
        BY <1>0, <1>g, <1>i, <2>2, <2>4
<1>1. ASSUME NEW p \in Procs, MakePayload(p) PROVE CountersBalance'
    <2>1. /\ DOMAIN checkbook' = DOMAIN checkbook \cup {nextID + 1}
          /\ nextID + 1 \notin DOMAIN checkbook
        BY <1>0, <1>1 DEF MakePayload, ManagerType
    <2>2. B' = B + 1
        BY <1>0, <2>1, FS_AddElement DEF B
    <2>3. /\ todo[p] \in Seq(CubeType) /\ todo[p] # <<>>
          /\ todo' = [todo EXCEPT ![p] = Tail(todo[p])]
        BY <1>0, <1>1 DEF MakePayload, LocalsType
    <2>4. /\ Tail(todo[p]) \in Seq(CubeType) /\ Len(Tail(todo[p])) = Len(todo[p]) - 1
          /\ Len(todo[p]) \in Nat
        BY <2>3
    <2>5. T' = T - Len(todo[p]) + Len(Tail(todo[p]))
        BY <1>d, <2>3, <2>4
    <2>6. InFlight' = InFlight
        <3>1. Goto(p, "activate") /\ p \notin InFlight
            BY <1>1 DEF MakePayload, InFlight
        <3> QED
            BY <1>a, <3>1
    <2>7. F' = F
        BY <2>6 DEF F
    <2>8. UNCHANGED <<completedTasks, timedOutTasks, totalTasks>>
        BY <1>1 DEF MakePayload, statVars
    <2>9. pc'[Solver] = "boot" => pc[Solver] = "boot"
        BY <1>0, <1>1, <1>c DEF MakePayload, Goto, PcType
    <2>10. pc'[Solver] = "boot" => completedTasks' = 0 /\ timedOutTasks' = 0
        BY <1>h, <2>8, <2>9
    <2>11. T' = T - 1
        BY <1>0, <2>4, <2>5
    <2> QED
        BY <1>0, <1>g, <2>2, <2>7, <2>8, <2>10, <2>11
<1>2. ASSUME NEW p \in Procs, ActivatePayload(p) \/ PushPayload(p) PROVE CountersBalance'
    BY <1>i, <1>2 DEF ActivatePayload, PushPayload, statVars, localVars, InFlight
<1>3. ASSUME SolveReset PROVE CountersBalance'
    <2>1. /\ completedTasks = 0 /\ timedOutTasks = 0 /\ DOMAIN checkbook = {}
          /\ \A w \in Workers : pc[w] \in {"idle", "registered", "gone"}
        BY <1>0, <1>3 DEF SolveReset, CountersBalance, Flow, BootFlow
    <2>2. InFlight = {} /\ InFlight' = {}
        BY <1>0, <1>3, <1>c, <2>1 DEF SolveReset, InFlight, Goto, PcType
    <2>3. \A p \in Procs : todo[p] = <<>>
        BY <1>0, <1>3, <2>1 DEF SolveReset, Flow, EnqueueFlow, EnqueuePcs, Procs
    <2>4. Slots(Procs, todo) = {}
        BY <2>3 DEF Slots, Tagged
    <2>5. T = 0
        BY <2>4, FS_EmptySet DEF T
    <2>6. /\ InitialCubes \in Seq(CubeType) /\ todo' = [todo EXCEPT ![Solver] = InitialCubes]
          /\ totalTasks' = Len(InitialCubes) /\ Len(InitialCubes) \in Nat
          /\ UNCHANGED <<completedTasks, timedOutTasks, checkbook>>
        BY <1>3, InitialCubesAssumption DEF SolveReset, managerVars
    <2>7. T' = T - Len(todo[Solver]) + Len(InitialCubes)
        BY <1>c, <1>d, <2>6
    <2>8. T' = Len(InitialCubes)
        BY <1>c, <2>3, <2>5, <2>6, <2>7
    <2>9. B' = 0 /\ F' = 0
        BY <2>1, <2>2, <2>6, FS_EmptySet DEF B, F
    <2> QED
        BY <1>g, <2>1, <2>6, <2>8, <2>9
<1>4. ASSUME SolveReceiveDone \/ SolveLogResult PROVE CountersBalance'
    BY <1>c, <1>i, <1>4 DEF SolveReceiveDone, SolveLogResult, managerVars, statVars, localVars,
                      InFlight
<1>5. ASSUME NEW w \in Workers, RecordAssignment(w) PROVE CountersBalance'
    <2>1. DOMAIN checkbook' = DOMAIN checkbook
        BY <1>0, <1>5 DEF RecordAssignment, ManagerType
    <2> QED
        BY <1>c, <1>i, <1>5, <2>1 DEF RecordAssignment, statVars, localVars, InFlight
<1>6. ASSUME NEW w \in Workers, GetAndRemoveTask(w) PROVE CountersBalance'
    <2>0. /\ UNCHANGED <<todo, completedTasks, timedOutTasks, totalTasks>>
          /\ pc[w] = "submit"
        BY <1>6 DEF GetAndRemoveTask, statVars
    <2>1. CASE task[w].id \in DOMAIN checkbook
        <3>1. DOMAIN checkbook' = DOMAIN checkbook \ {task[w].id} /\ Goto(w, "removed")
            BY <1>6, <2>1 DEF GetAndRemoveTask
        <3>2. B' = B - 1
            BY <1>0, <2>1, <3>1, FS_RemoveElement DEF B
        <3>3. InFlight' = InFlight \cup {w} /\ w \notin InFlight
            BY <1>0, <1>c, <2>0, <3>1 DEF InFlight, Goto, PcType
        <3>4. F' = F + 1
            BY <1>f, <3>3
        <3>5. T' = T
            BY <2>0 DEF T, Slots
        <3>6. pc'[Solver] = "boot" => pc[Solver] = "boot"
            BY <1>0, <1>c, <3>1 DEF Goto, PcType
        <3>7. pc'[Solver] = "boot" => completedTasks' = 0 /\ timedOutTasks' = 0
            BY <1>h, <2>0, <3>6
        <3> QED
            BY <1>0, <1>g, <2>0, <3>2, <3>4, <3>5, <3>7
    <2>2. CASE task[w].id \notin DOMAIN checkbook
        BY <1>c, <1>i, <1>6, <2>0, <2>2 DEF GetAndRemoveTask, InFlight
    <2> QED
        BY <2>1, <2>2
<1>7. ASSUME NEW w \in Workers, CountTimeout(w) \/ CompleteTask(w) PROVE CountersBalance'
    <2>1. /\ UNCHANGED <<todo, checkbook, totalTasks>> /\ pc[w] \in {"updated", "added"}
          /\ \E l \in {"timedOut", "readActive"} : Goto(w, l)
          /\ \/ completedTasks' = completedTasks + 1 /\ timedOutTasks' = timedOutTasks
             \/ timedOutTasks' = timedOutTasks + 1 /\ completedTasks' = completedTasks
        BY <1>7 DEF CountTimeout, CompleteTask, managerVars, localVars
    <2>2. InFlight' = InFlight \ {w} /\ w \in InFlight
        BY <1>0, <1>c, <2>1 DEF InFlight, Goto, PcType
    <2>3. F' = F - 1
        BY <1>e, <2>2
    <2>4. B' = B /\ T' = T
        BY <2>1 DEF B, T, Slots
    <2>5. pc'[Solver] = pc[Solver] /\ pc[Solver] # "boot"
        BY <1>0, <1>c, <2>1 DEF Goto, PcType, Flow, BootFlow
    <2> QED
        BY <1>0, <1>g, <2>1, <2>3, <2>4, <2>5
<1>8. ASSUME NEW w \in Workers, SplitTimedOut(w) PROVE CountersBalance'
    <2>1. /\ UNCHANGED <<checkbook, completedTasks, timedOutTasks>>
          /\ totalTasks' = totalTasks + 2
          /\ pc[w] = "timedOut" /\ Goto(w, "enqueue")
          /\ todo' = [todo EXCEPT ![w] = SplitCubeSmart(cube[w], Clauses)]
        BY <1>8 DEF SplitTimedOut, managerVars
    <2>2. /\ SplitCubeSmart(cube[w], Clauses) \in Seq(CubeType)
          /\ Len(SplitCubeSmart(cube[w], Clauses)) = 2
        <3>1. cube[w] \in CubeType
            BY <1>0 DEF LocalsType
        <3>2. FreeVars(cube[w], Clauses) # {}
            BY <1>0, <2>1 DEF Flow, ResultFlow, Removed
        <3> QED
            BY <3>1, <3>2, SplitHalves
    <2>3. todo[w] = <<>>
        BY <1>0, <1>c, <2>1 DEF Flow, EnqueueFlow, EnqueuePcs
    <2>4. T' = T - Len(todo[w]) + Len(SplitCubeSmart(cube[w], Clauses))
        BY <1>c, <1>d, <2>1, <2>2
    <2>5. T' = T + 2
        BY <1>0, <2>2, <2>3, <2>4
    <2>6. InFlight' = InFlight
        BY <1>a, <1>c, <2>1 DEF InFlight
    <2>7. B' = B /\ F' = F
        BY <2>1, <2>6 DEF B, F
    <2>8. pc'[Solver] = "boot" => pc[Solver] = "boot"
        BY <1>0, <1>c, <2>1 DEF Goto, PcType
    <2>9. pc'[Solver] = "boot" => completedTasks' = 0 /\ timedOutTasks' = 0
        BY <1>h, <2>1, <2>8
    <2> QED
        BY <1>0, <1>g, <2>1, <2>5, <2>7, <2>9
<1>9. ASSUME NEW w \in Workers,
             \/ RegisterWorker(w) \/ GetTaskRefuse(w) \/ GetTaskAdmit(w) \/ GetTaskPop(w)
             \/ GetTaskTimeout(w) \/ AssignTask(w)
             \/ GanakCounts(w) \/ GanakTimesOut(w) \/ GanakFails(w)
             \/ CallLost(w) \/ WorkerLeaves(w) \/ WorkerJoins(w)
      PROVE  CountersBalance'
    <2>1. UNCHANGED <<checkbook, todo, completedTasks, timedOutTasks, totalTasks>>
        BY <1>9 DEF RegisterWorker, GetTaskRefuse, GetTaskAdmit, GetTaskPop, GetTaskTimeout,
            AssignTask, GanakCounts, GanakTimesOut, GanakFails, Solved, CallLost, WorkerLeaves,
            WorkerJoins, managerVars, statVars, localVars
    <2>2. /\ w \notin InFlight
          /\ \E l \in {"registered", "idle", "select", "popped", "solving", "submit", "gone"} :
                Goto(w, l)
        BY <1>9 DEF RegisterWorker, GetTaskRefuse, GetTaskAdmit, GetTaskPop, GetTaskTimeout,
            AssignTask, GanakCounts, GanakTimesOut, GanakFails, Solved, CallLost, WorkerLeaves,
            WorkerJoins, InFlight
    <2>3. PICK l \in {"registered", "idle", "select", "popped", "solving", "submit", "gone"} :
                Goto(w, l)
        BY <2>2
    <2>4. /\ l # "boot" /\ w \in Procs
          /\ (w \in InFlight) = (w \in Workers /\ l \in {"removed", "updated", "added"})
        BY <1>c, <2>2
    <2> QED
        BY <1>i, <2>1, <2>3, <2>4
<1>10. ASSUME NEW w \in Workers,
              \/ UpdateWorkerResult(w) \/ AddCount(w) \/ AddZero(w)
              \/ ReadActive(w) \/ ReadQueueAndSignal(w)
       PROVE  CountersBalance'
    <2>1. UNCHANGED <<checkbook, todo, completedTasks, timedOutTasks, totalTasks>>
        BY <1>10 DEF UpdateWorkerResult, AddCount, AddZero, ReadActive, ReadQueueAndSignal,
            managerVars, statVars, localVars
    <2>2. \/ w \in InFlight /\ \E l \in {"updated", "added"} : Goto(w, l)
          \/ w \notin InFlight /\ \E l \in {"readQueue", "idle"} : Goto(w, l)
        BY <1>10 DEF UpdateWorkerResult, AddCount, AddZero, ReadActive, ReadQueueAndSignal,
            InFlight
    <2>3. PICK l \in {"updated", "added", "readQueue", "idle"} :
                /\ Goto(w, l)
                /\ (w \in InFlight) = (l \in {"updated", "added"})
        BY <2>2
    <2>4. /\ l # "boot" /\ w \in Procs
          /\ (w \in InFlight) = (w \in Workers /\ l \in {"removed", "updated", "added"})
        BY <1>c, <2>3
    <2> QED
        BY <1>i, <2>1, <2>3, <2>4
<1>11. ASSUME UNCHANGED vars PROVE CountersBalance'
    <2>1. /\ UNCHANGED <<checkbook, todo, pc, completedTasks, timedOutTasks, totalTasks>>
          /\ InFlight' = InFlight
        BY <1>11 DEF vars, managerVars, statVars, localVars, InFlight
    <2>2. B' = B /\ F' = F /\ T' = T
        BY <1>b, <2>1
    <2> QED
        BY <1>0, <1>g, <1>h, <2>1, <2>2
<1> QED
    BY <1>1, <1>2, <1>3, <1>4, <1>5, <1>6, <1>7, <1>8, <1>9, <1>10, <1>11, NextCases

-----------------------------------------------------------------------------
(***************************************************************************)
(* The invariant.                                                          *)
(***************************************************************************)
\* The inductive invariant holds initially.
LEMMA InitIInv == Init => IInv
<1> SUFFICES ASSUME Init PROVE IInv
    OBVIOUS
<1> USE ProcsAssumption DEF Init, Procs
<1>1. DOMAIN checkbook = {}
    OBVIOUS
<1>2. TypeOK
    <2>1. ManagerType
        BY <1>1 DEF ManagerType
    <2>2. ServerType
        BY DEF ServerType, NotLogged, Statuses
    <2>3. PcType
        BY DEF PcType, WorkerPcs, SolverPcs
    <2>4. LocalsType
        BY NoTaskType DEF LocalsType, CubeType, NoHost
    <2> QED
        BY <2>1, <2>2, <2>3, <2>4 DEF TypeOK
<1>3. Flow
    BY <1>1 DEF Flow, EnqueueFlow, ResultFlow, BootFlow, Removed
<1>4. EachTaskOnce
    BY DEF EachTaskOnce, Holding
<1>5. ActiveIsBook
    <2>1. Activating = {} /\ activeTasks = 0
        BY DEF Activating
    <2>2. Cardinality(Activating) = 0 /\ Cardinality(DOMAIN checkbook) = 0
        BY <1>1, <2>1, FS_EmptySet
    <2> QED
        BY <2>1, <2>2, ActiveFacts
<1>6. Conservation
    BY <1>1 DEF Conservation, NothingLost, NothingTwice, Removed, Disjoint
<1>7. CountIsCounted
    BY FS_EmptySet DEF CountIsCounted, NotLogged
<1>8. NoMissedDone
    BY DEF NoMissedDone, Quiescent
<1> QED
    BY <1>2, <1>3, <1>4, <1>5, <1>6, <1>7, <1>8 DEF IInv

\* The inductive invariant is preserved by every step.
LEMMA NextIInv == IInv /\ [Next]_vars => IInv'
BY TypeStep, EnqueueFlowStep, ResultFlowStep, BootFlowStep, EachTaskOnceStep, ActiveIsBookStep,
   ConservationStep, CountIsCountedStep, NoMissedDoneStep
   DEF IInv, Flow

\* The inductive invariant holds throughout every behaviour.
LEMMA IInvHolds == Spec => []IInv
BY InitIInv, NextIInv, PTL DEF Spec

(***************************************************************************)
(* The variables of the master and of its workers keep their types.        *)
(***************************************************************************)
THEOREM TypeCorrect == Spec => []TypeOK
<1>1. IInv => TypeOK
    BY DEF IInv
<1> QED
    BY <1>1, IInvHolds, PTL

(***************************************************************************)
(* No task is given to two workers or stands twice in the queue, and every *)
(* task that is queued or worked on is in the checkbook, so SubmitResult   *)
(* knows every task ID it receives.                                        *)
(***************************************************************************)
THEOREM TasksAreUnique == Spec => []EachTaskOnce
<1>1. IInv => EachTaskOnce
    BY DEF IInv
<1> QED
    BY <1>1, IInvHolds, PTL

(***************************************************************************)
(* Through every interleaving of handlers, every split, every crash and    *)
(* every lost call, each model of the formula is accounted for or in the   *)
(* cube of exactly one task.                                               *)
(***************************************************************************)
THEOREM ModelsAreConserved == Spec => []Conservation
<1>1. IInv => Conservation
    BY DEF IInv
<1> QED
    BY <1>1, IInvHolds, PTL

(***************************************************************************)
(* totalCount, and the count Solve logs, never exceed the model count.     *)
(***************************************************************************)
THEOREM CountIsBounded == Spec => []NeverOvercounts
<1>1. IInv => NeverOvercounts
    <2> SUFFICES ASSUME IInv PROVE NeverOvercounts
        OBVIOUS
    <2>1. totalCount = Cardinality(counted) /\ logged.count <= totalCount
        BY DEF IInv, CountIsCounted
    <2>2. IsFiniteSet(AllModels) /\ counted \in SUBSET AllModels
        BY GanakAnswer DEF AllModels, ModelsOf, IInv, TypeOK, ServerType
    <2>3. Cardinality(counted) <= Cardinality(AllModels)
        BY <2>2, FS_Subset
    <2> QED
        BY <2>1, <2>3 DEF NeverOvercounts
<1> QED
    BY <1>1, IInvHolds, PTL

(***************************************************************************)
(* Whenever the master is quiescent, its total is the model count of the   *)
(* formula, less the models of cubes for which ganak printed no count.     *)
(***************************************************************************)
THEOREM QuiescentCountIsExact == Spec => []ExactWhenQuiescent
<1>1. IInv => ExactWhenQuiescent
    <2> SUFFICES ASSUME IInv, Quiescent
                 PROVE  totalCount = Cardinality(AllModels) - Cardinality(dropped)
        BY DEF ExactWhenQuiescent
    <2>1. /\ totalCount = Cardinality(counted)
          /\ counted \subseteq AllModels /\ dropped \subseteq AllModels
          /\ counted \cap dropped = {}
        BY DEF IInv, CountIsCounted, TypeOK, ServerType, Conservation, NothingTwice, Disjoint
    <2>2. \A p \in Procs : todo[p] = <<>>
        BY DEF IInv, Flow, EnqueueFlow, EnqueuePcs, Quiescent, Submitting, Procs
    <2>3. \A w \in Workers : ~Removed(w)
        BY DEF Quiescent, Submitting, Removed
    <2>4. \A a \in AllModels : a \in Accounted
        BY <2>2, <2>3 DEF IInv, Conservation, NothingLost, Quiescent
    <2>5. AllModels = counted \cup dropped
        BY <2>1, <2>4 DEF Accounted
    <2>6. IsFiniteSet(AllModels)
        BY GanakAnswer DEF AllModels, ModelsOf
    <2>7. IsFiniteSet(counted) /\ IsFiniteSet(dropped)
        BY <2>1, <2>6, FS_Subset
    <2>8. Cardinality(AllModels) = Cardinality(counted) + Cardinality(dropped)
                                       - Cardinality(counted \cap dropped)
        BY <2>5, <2>7, FS_Union
    <2>9. /\ Cardinality(counted \cap dropped) = 0
          /\ Cardinality(counted) \in Nat /\ Cardinality(dropped) \in Nat
        BY <2>1, <2>7, FS_EmptySet, FS_CardinalityType
    <2> QED
        BY <2>1, <2>8, <2>9
<1> QED
    BY <1>1, IInvHolds, PTL

(***************************************************************************)
(* The total that SubmitResult adds up is never too large, and exact when  *)
(* nothing is in flight, but for cubes ganak did not count.                *)
(***************************************************************************)
THEOREM MasterCountIsSound == Spec => []CountIsSound
<1>1. NeverOvercounts /\ ExactWhenQuiescent => CountIsSound
    BY DEF CountIsSound
<1> QED
    BY <1>1, CountIsBounded, QuiescentCountIsExact, PTL

(***************************************************************************)
(* The counter IsEmpty reads without the lock agrees with the checkbook,   *)
(* but for the tasks a running makePayload has not counted yet.            *)
(***************************************************************************)
THEOREM ActiveCountsBook == Spec => []ActiveIsBook
<1>1. IInv => ActiveIsBook
    BY DEF IInv
<1> QED
    BY <1>1, IInvHolds, PTL

(***************************************************************************)
(* When the last task is complete, Solve has the done signal or will find  *)
(* it in the channel: IsEmpty's two reads, each handler's single check and *)
(* the non-blocking send lose no wakeup.                                   *)
(***************************************************************************)
THEOREM DoneIsNotMissed == Spec => []NoMissedDone
<1>1. IInv => NoMissedDone
    BY DEF IInv
<1> QED
    BY <1>1, IInvHolds, PTL

(***************************************************************************)
(* The counters that Solve logs add up in every state: totalTasks is       *)
(* completedTasks plus timedOutTasks plus the tasks that are still in the  *)
(* checkbook, being submitted or waiting for EnqueueCubes, also when calls *)
(* are lost, since a lost task stays in the checkbook.                     *)
(***************************************************************************)
THEOREM CountersAddUp == Spec => []TasksBalance
<1>1. Init => CountersBalance
    <2> SUFFICES ASSUME Init PROVE CountersBalance
        OBVIOUS
    <2>a. /\ DOMAIN checkbook = {} /\ \A p \in Procs : todo[p] = <<>>
          /\ \A w \in Workers : pc[w] = "idle"
        BY ProcsAssumption DEF Init, Procs
    <2>1. DOMAIN checkbook = {} /\ InFlight = {} /\ Slots(Procs, todo) = {}
        BY <2>a DEF InFlight, Slots, Tagged
    <2>2. Outstanding = 0
        BY <2>1, FS_EmptySet DEF Outstanding
    <2> QED
        BY <2>2 DEF Init, CountersBalance
<1>2. IInv /\ CountersBalance => TasksBalance
    <2> SUFFICES ASSUME IInv, CountersBalance PROVE TasksBalance
        OBVIOUS
    <2>1. completedTasks \in Nat /\ timedOutTasks \in Nat /\ IsFiniteSet(DOMAIN checkbook)
        BY BookFinite DEF IInv, TypeOK, ServerType
    <2>2. IsFiniteSet(Slots(Procs, todo))
        <3>1. SeqFamily(Procs, todo)
            BY DEF SeqFamily, IInv, TypeOK, LocalsType
        <3> QED
            BY <3>1, BalanceFacts, SlotsFinite
    <2> QED
        BY <2>1, <2>2, BalanceFacts, FS_CardinalityType DEF CountersBalance, Outstanding
<1> QED
    BY <1>1, <1>2, CountersBalanceStep, IInvHolds, PTL DEF Spec

-----------------------------------------------------------------------------
(***************************************************************************)
(* The master implements Counting.                                         *)
(***************************************************************************)
\* S is the set of models of a cube that some part of the master has.
Piece(S) ==
    \/ \E id \in DOMAIN checkbook : S = BookModels(id)
    \/ \E w \in Workers : Removed(w) /\ S = RemovedModels(w)
    \/ \E p \in Procs : \E i \in DOMAIN todo[p] : S = TodoModels(p, i)

\* Nothing is logged before Solve returns.
LogOnce == pc[Solver] # "returned" => logged.count = -1

\* The open sets are the pieces with a model, once Solve has its cubes.
LEMMA OpenPieces ==
    ASSUME pc[Solver] # "boot", NEW CONSTANT S
    PROVE  S \in Open <=> S # {} /\ Piece(S)
<1>1. ASSUME NEW c
      PROVE  c \in LiveCubes <=>
                 \/ \E id \in DOMAIN checkbook : c = checkbook[id].cube
                 \/ \E w \in Workers : Removed(w) /\ c = cube[w]
                 \/ \E p \in Procs : \E i \in DOMAIN todo[p] : c = todo[p][i]
    <2>1. (\E x \in Pending : c = todo[x[1]][x[2]])
              <=> \E p \in Procs : \E i \in DOMAIN todo[p] : c = todo[p][i]
        <3>1. \A x : x \in Pending <=> \E p \in Procs : \E i \in DOMAIN todo[p] : x = <<p, i>>
            BY DEF Pending
        <3>2. ASSUME NEW x \in Pending, c = todo[x[1]][x[2]]
              PROVE  \E p \in Procs : \E i \in DOMAIN todo[p] : c = todo[p][i]
            BY <3>1, <3>2
        <3>3. ASSUME NEW p \in Procs, NEW i \in DOMAIN todo[p], c = todo[p][i]
              PROVE  \E x \in Pending : c = todo[x[1]][x[2]]
            <4>1. <<p, i>> \in Pending
                BY <3>1
            <4>2. <<p, i>>[1] = p /\ <<p, i>>[2] = i
                OBVIOUS
            <4> QED
                BY <3>3, <4>1, <4>2
        <3> QED
            BY <3>2, <3>3
    <2> QED
        BY <2>1 DEF LiveCubes
<1>2. S \in Open <=> S # {} /\ \E c \in LiveCubes : S = ModelsOf(c)
    BY DEF Open
<1> QED
    BY <1>1, <1>2 DEF Piece, BookModels, RemovedModels, TodoModels

\* The same after a step.
LEMMA OpenPiecesNext ==
    ASSUME pc'[Solver] # "boot", NEW CONSTANT S
    PROVE  S \in Open' <=> S # {} /\ Piece(S)'
<1>1. ASSUME NEW CONSTANT c
      PROVE  c \in LiveCubes' <=>
                 \/ \E id \in DOMAIN checkbook' : c = checkbook'[id].cube
                 \/ \E w \in Workers : Removed(w)' /\ c = cube'[w]
                 \/ \E p \in Procs : \E i \in DOMAIN todo'[p] : c = todo'[p][i]
    <2>1. (\E x \in Pending' : c = todo'[x[1]][x[2]])
              <=> \E p \in Procs : \E i \in DOMAIN todo'[p] : c = todo'[p][i]
        <3>1. \A x : x \in Pending' <=> \E p \in Procs : \E i \in DOMAIN todo'[p] : x = <<p, i>>
            BY DEF Pending
        <3>2. ASSUME NEW x \in Pending', c = todo'[x[1]][x[2]]
              PROVE  \E p \in Procs : \E i \in DOMAIN todo'[p] : c = todo'[p][i]
            BY <3>1, <3>2
        <3>3. ASSUME NEW p \in Procs, NEW i \in DOMAIN todo'[p], c = todo'[p][i]
              PROVE  \E x \in Pending' : c = todo'[x[1]][x[2]]
            <4>1. <<p, i>> \in Pending'
                BY <3>1
            <4>2. <<p, i>>[1] = p /\ <<p, i>>[2] = i
                OBVIOUS
            <4> QED
                BY <3>3, <4>1, <4>2
        <3> QED
            BY <3>2, <3>3
    <2> QED
        BY <2>1 DEF LiveCubes
<1>2. S \in Open' <=> S # {} /\ \E c \in LiveCubes' : S = ModelsOf(c)
    BY DEF Open, ModelsOf
<1> QED
    BY <1>1, <1>2 DEF Piece, BookModels, RemovedModels, TodoModels, ModelsOf

\* A step that moves no cube leaves the open sets alone.
LEMMA OpenFrame ==
    ASSUME DOMAIN (checkbook') = DOMAIN checkbook,
           \A i \in DOMAIN checkbook : checkbook'[i].cube = checkbook[i].cube,
           UNCHANGED <<cube, todo>>,
           \A w \in Workers : Removed(w)' <=> Removed(w),
           pc'[Solver] = "boot" <=> pc[Solver] = "boot"
    PROVE  Open' = Open
<1>1. LiveCubes' = LiveCubes
    <2>1. Pending' = Pending
        BY DEF Pending
    <2> QED
        BY <2>1 DEF LiveCubes
<1> QED
    BY <1>1 DEF Open, ModelsOf

\* A cube that makePayload wraps stays what it is.
LEMMA MakePayloadKeepsOpen ==
    ASSUME ManagerType, LocalsType, PcType, Flow, NEW p \in Procs, MakePayload(p)
    PROVE  Open' = Open
<1> DEFINE id == nextID + 1
           n == Len(todo[p])
<1>1. /\ todo[p] \in Seq(CubeType) /\ todo[p] # <<>>
      /\ checkbook' = [i \in DOMAIN checkbook \cup {id} |->
                          IF i = id THEN [cube |-> Head(todo[p]), hostname |-> NoHost]
                                    ELSE checkbook[i]]
      /\ todo' = [todo EXCEPT ![p] = Tail(todo[p])]
      /\ pc[p] = "enqueue" /\ pc' = [pc EXCEPT ![p] = "activate"]
      /\ UNCHANGED cube
    BY DEF MakePayload, Goto, LocalsType
<1>2. pc[Solver] # "boot" /\ pc'[Solver] # "boot"
    BY <1>1, ProcsAssumption DEF Flow, BootFlow, PcType, Procs
<1>3. \A w \in Workers : Removed(w)' <=> Removed(w)
    BY <1>1, ProcsAssumption DEF Removed, PcType, Procs
<1>4. /\ n \in Nat \ {0} /\ DOMAIN todo[p] = 1..n /\ DOMAIN todo'[p] = 1..(n - 1)
      /\ \A i \in 1..(n - 1) : todo'[p][i] = todo[p][i + 1] /\ i + 1 \in 1..n
      /\ \A i \in 1..n : i # 1 => i - 1 \in 1..(n - 1) /\ (i - 1) + 1 = i
      /\ 1 \in 1..n
      /\ \A q \in Procs : q # p => todo'[q] = todo[q]
    BY <1>1 DEF LocalsType
<1>5. /\ DOMAIN (checkbook') = DOMAIN checkbook \cup {id}
      /\ id \notin DOMAIN checkbook
      /\ checkbook'[id].cube = todo[p][1]
      /\ \A i \in DOMAIN checkbook : checkbook'[i] = checkbook[i]
    BY <1>1 DEF ManagerType
<1> HIDE DEF id, n
<1> DEFINE B(i) == ModelsOf(checkbook'[i].cube)
           T(q, i) == ModelsOf(todo'[q][i])
<1>6. /\ B(id) = TodoModels(p, 1)
      /\ \A i \in DOMAIN checkbook : B(i) = BookModels(i)
      /\ \A i \in 1..(n - 1) : T(p, i) = TodoModels(p, i + 1)
      /\ \A q \in Procs : q # p => \A i \in DOMAIN todo[q] : T(q, i) = TodoModels(q, i)
    BY <1>4, <1>5 DEF BookModels, TodoModels
<1> HIDE DEF B, T
<1>7. ASSUME NEW CONSTANT S
      PROVE  Piece(S)' <=> \/ \E i \in DOMAIN (checkbook') : S = B(i)
                           \/ \E w \in Workers : Removed(w) /\ S = RemovedModels(w)
                           \/ \E q \in Procs : \E i \in DOMAIN todo'[q] : S = T(q, i)
    BY <1>1, <1>3 DEF Piece, BookModels, RemovedModels, TodoModels, B, T
<1>8. ASSUME NEW CONSTANT S, Piece(S)
      PROVE  Piece(S)'
    <2>1. CASE \E i \in DOMAIN checkbook : S = BookModels(i)
        BY <1>5, <1>6, <1>7, <2>1
    <2>2. CASE \E w \in Workers : Removed(w) /\ S = RemovedModels(w)
        BY <1>7, <2>2
    <2>3. ASSUME NEW q \in Procs, NEW i \in DOMAIN todo[q], S = TodoModels(q, i)
          PROVE  Piece(S)'
        <3>1. CASE q # p
            BY <1>4, <1>6, <1>7, <2>3, <3>1
        <3>2. CASE q = p /\ i = 1
            BY <1>5, <1>6, <1>7, <2>3, <3>2
        <3>3. CASE q = p /\ i # 1
            <4>1. i - 1 \in 1..(n - 1) /\ (i - 1) + 1 = i
                BY <1>4, <3>3
            <4>2. T(p, i - 1) = TodoModels(p, i)
                BY <1>6, <4>1
            <4> QED
                BY <1>4, <1>7, <2>3, <3>3, <4>1, <4>2
        <3> QED
            BY <3>1, <3>2, <3>3
    <2> QED
        BY <1>8, <2>1, <2>2, <2>3 DEF Piece
<1>9. ASSUME NEW CONSTANT S, Piece(S)'
      PROVE  Piece(S)
    <2>1. CASE \E i \in DOMAIN (checkbook') : S = B(i)
        BY <1>4, <1>5, <1>6, <2>1 DEF Piece
    <2>2. CASE \E w \in Workers : Removed(w) /\ S = RemovedModels(w)
        BY <2>2 DEF Piece
    <2>3. ASSUME NEW q \in Procs, NEW i \in DOMAIN todo'[q], S = T(q, i)
          PROVE  Piece(S)
        <3>1. CASE q # p
            BY <1>4, <1>6, <2>3, <3>1 DEF Piece
        <3>2. CASE q = p
            <4>1. i \in 1..(n - 1) /\ i + 1 \in DOMAIN todo[p]
                BY <1>4, <3>2
            <4>2. T(p, i) = TodoModels(p, i + 1)
                BY <1>6, <4>1
            <4> QED
                BY <2>3, <3>2, <4>1, <4>2 DEF Piece
        <3> QED
            BY <3>1, <3>2
    <2> QED
        BY <1>7, <1>9, <2>1, <2>2, <2>3
<1> QED
    BY <1>2, <1>8, <1>9, OpenPieces, OpenPiecesNext

\* Solve hands out the cubes it was given.
LEMMA SolveResetKeepsOpen ==
    ASSUME LocalsType, PcType, Flow, SolveReset
    PROVE  Open' = Open
<1>1. /\ pc[Solver] = "boot"
      /\ todo' = [todo EXCEPT ![Solver] = InitialCubes]
      /\ pc' = [pc EXCEPT ![Solver] = "enqueue"]
      /\ UNCHANGED checkbook
    BY DEF SolveReset, Goto, managerVars
<1>2. /\ DOMAIN checkbook = {}
      /\ \A w \in Workers : pc[w] \in {"idle", "registered", "gone"}
    BY <1>1 DEF Flow, BootFlow
<1>3. /\ \A w \in Workers : ~Removed(w)'
      /\ pc'[Solver] # "boot"
    BY <1>1, <1>2, ProcsAssumption DEF Removed, PcType, Procs
<1>4. \A p \in Procs : todo'[p] = IF p = Solver THEN InitialCubes ELSE <<>>
    <2>1. \A w \in Workers : todo[w] = <<>>
        BY <1>2, ProcsAssumption DEF Flow, EnqueueFlow, EnqueuePcs, Procs
    <2> QED
        BY <1>1, <2>1 DEF LocalsType, Procs
<1>5. ASSUME NEW CONSTANT S
      PROVE  Piece(S)' <=> \E i \in DOMAIN InitialCubes : S = ModelsOf(InitialCubes[i])
    <2>1. Solver \in Procs
        BY DEF Procs
    <2>2. Piece(S)' <=> \E p \in Procs : \E i \in DOMAIN todo'[p] : S = ModelsOf(todo'[p][i])
        BY <1>1, <1>2, <1>3 DEF Piece, TodoModels, ModelsOf
    <2> QED
        BY <1>4, <2>1, <2>2
<1>6. ASSUME NEW CONSTANT S
      PROVE  S \in Open <=> S # {} /\ \E i \in DOMAIN InitialCubes : S = ModelsOf(InitialCubes[i])
    BY <1>1 DEF Open, LiveCubes
<1> QED
    BY <1>3, <1>5, <1>6, OpenPiecesNext

\* A cube that SubmitResult takes out of the checkbook stays what it is.
LEMMA RemoveKeepsOpen ==
    ASSUME PcType, LocalsType, Flow, EachTaskOnce, NEW w \in Workers, GetAndRemoveTask(w)
    PROVE  Open' = Open
<1> DEFINE id == task[w].id
<1>1. id \in DOMAIN checkbook
    BY DEF GetAndRemoveTask, EachTaskOnce, Holding, InBook
<1>2. /\ pc[w] = "submit"
      /\ pc' = [pc EXCEPT ![w] = "removed"]
      /\ checkbook' = [i \in DOMAIN checkbook \ {id} |-> checkbook[i]]
      /\ cube' = [cube EXCEPT ![w] = checkbook[id].cube]
      /\ UNCHANGED todo
    BY <1>1 DEF GetAndRemoveTask, Goto
<1> HIDE DEF id
<1>3. /\ \A v \in Workers : Removed(v)' <=> v = w \/ Removed(v)
      /\ ~Removed(w)
      /\ pc[Solver] # "boot" /\ pc'[Solver] # "boot"
    BY <1>2, ProcsAssumption DEF Removed, PcType, Procs, Flow, BootFlow
<1>4. /\ RemovedModels(w)' = BookModels(id)
      /\ \A v \in Workers : v # w => RemovedModels(v)' = RemovedModels(v)
      /\ DOMAIN (checkbook') = DOMAIN checkbook \ {id}
      /\ \A i \in DOMAIN checkbook : i # id => BookModels(i)' = BookModels(i)
      /\ \A p \in Procs : \A i \in DOMAIN todo[p] : TodoModels(p, i)' = TodoModels(p, i)
    BY <1>2 DEF RemovedModels, BookModels, TodoModels, LocalsType
<1>5. ASSUME NEW CONSTANT S
      PROVE  Piece(S)' <=> Piece(S)
    <2>1. Piece(S)' <=> \/ \E i \in DOMAIN (checkbook') : S = BookModels(i)'
                        \/ \E v \in Workers : Removed(v)' /\ S = RemovedModels(v)'
                        \/ \E p \in Procs : \E i \in DOMAIN todo[p] : S = TodoModels(p, i)'
        BY <1>2 DEF Piece
    <2> QED
        BY <1>1, <1>3, <1>4, <2>1 DEF Piece
<1> QED
    BY <1>3, <1>5, OpenPieces, OpenPiecesNext

\* S is a piece of some other than w's SubmitResult.
Rest(S, w) ==
    \/ \E id \in DOMAIN checkbook : S = BookModels(id)
    \/ \E v \in Workers : v # w /\ Removed(v) /\ S = RemovedModels(v)
    \/ \E p \in Procs : \E i \in DOMAIN todo[p] : S = TodoModels(p, i)

\* What a SubmitResult has in hand is nobody else's.
LEMMA PieceInHand ==
    ASSUME NothingTwice, NEW w \in Workers, Removed(w), NEW CONSTANT S
    PROVE  /\ Piece(S) <=> Rest(S, w) \/ S = RemovedModels(w)
           /\ Rest(S, w) /\ S = RemovedModels(w) => S = {}
<1>1. Piece(S) <=> Rest(S, w) \/ S = RemovedModels(w)
    BY DEF Piece, Rest
<1>2. Rest(S, w) => Disjoint(S, RemovedModels(w)) \/ Disjoint(RemovedModels(w), S)
    BY DEF Rest, NothingTwice
<1> QED
    BY <1>1, <1>2 DEF Disjoint

\* Counting or dropping a cube takes its piece away and no other.
LEMMA AccountClosesPiece ==
    ASSUME PcType, LocalsType, Flow, Conservation, NEW w \in Workers,
           AddCount(w) \/ AddZero(w)
    PROVE  /\ Open' = Open \ {RemovedModels(w)}
           /\ RemovedModels(w) # {} => RemovedModels(w) \in Open
           /\ RemovedModels(w) = ModelsOf(task[w].cube)
<1>1. /\ Removed(w)
      /\ pc' = [pc EXCEPT ![w] = "added"]
      /\ cube' = [cube EXCEPT ![w] = {}]
      /\ UNCHANGED <<checkbook, todo>>
    BY DEF AddCount, AddZero, Removed, Goto, managerVars
<1>2. RemovedModels(w) = ModelsOf(task[w].cube)
    BY <1>1 DEF RemovedModels, Flow, ResultFlow
<1>3. /\ \A v \in Workers : Removed(v)' <=> v # w /\ Removed(v)
      /\ pc[Solver] # "boot" /\ pc'[Solver] # "boot"
    BY <1>1, ProcsAssumption DEF Removed, PcType, Procs, Flow, BootFlow
<1>4. /\ \A p \in Procs : \A i \in DOMAIN todo[p] : TodoModels(p, i)' = TodoModels(p, i)
      /\ \A v \in Workers : v # w => RemovedModels(v)' = RemovedModels(v)
      /\ \A i \in DOMAIN checkbook : BookModels(i)' = BookModels(i)
    BY <1>1 DEF TodoModels, RemovedModels, BookModels, LocalsType
<1>5. ASSUME NEW CONSTANT S
      PROVE  Piece(S)' <=> Rest(S, w)
    <2>1. Piece(S)' <=> \/ \E i \in DOMAIN checkbook : S = BookModels(i)'
                        \/ \E v \in Workers : Removed(v)' /\ S = RemovedModels(v)'
                        \/ \E p \in Procs : \E i \in DOMAIN todo[p] : S = TodoModels(p, i)'
        BY <1>1 DEF Piece
    <2> QED
        BY <1>3, <1>4, <2>1 DEF Rest
<1>6. ASSUME NEW CONSTANT S
      PROVE  S \in Open' <=> S \in Open /\ S # RemovedModels(w)
    <2>1. NothingTwice
        BY DEF Conservation
    <2>2. S \in Open' <=> S # {} /\ Rest(S, w)
        BY <1>3, <1>5, OpenPiecesNext
    <2>3. S \in Open <=> S # {} /\ Piece(S)
        BY <1>3, OpenPieces
    <2> QED
        BY <1>1, <2>1, <2>2, <2>3, PieceInHand
<1>7. RemovedModels(w) # {} => RemovedModels(w) \in Open
    <2>1. cube[w] \in LiveCubes
        BY <1>1, <1>3 DEF LiveCubes
    <2> QED
        BY <2>1 DEF Open, RemovedModels
<1> QED
    BY <1>2, <1>6, <1>7

\* A split replaces the piece in hand by its two halves, those with a model.
LEMMA SplitHalvesPiece ==
    ASSUME PcType, LocalsType, Flow, Conservation, NEW w \in Workers, SplitTimedOut(w)
    PROVE  /\ RemovedModels(w) # {} => RemovedModels(w) \in Open
           /\ \E A \in SUBSET RemovedModels(w) :
                 Open' = ((Open \ {RemovedModels(w)}) \cup {A, RemovedModels(w) \ A}) \ {{}}
<1> DEFINE h == SplitCubeSmart(cube[w], Clauses)
<1>1. /\ Removed(w)
      /\ pc' = [pc EXCEPT ![w] = "enqueue"]
      /\ todo' = [todo EXCEPT ![w] = h]
      /\ cube' = [cube EXCEPT ![w] = {}]
      /\ UNCHANGED checkbook
    BY DEF SplitTimedOut, Removed, Goto, managerVars
<1>2. cube[w] \in CubeType /\ FreeVars(cube[w], Clauses) # {}
    BY DEF SplitTimedOut, Flow, ResultFlow, Removed, LocalsType
<1>3. /\ DOMAIN h = {1, 2}
      /\ RemovedModels(w) = ModelsOf(h[1]) \cup ModelsOf(h[2])
      /\ ModelsOf(h[1]) \cap ModelsOf(h[2]) = {}
    <2>1. /\ h \in Seq(CubeType) /\ Len(h) = 2
          /\ ModelsOf(cube[w]) = ModelsOf(h[1]) \cup ModelsOf(h[2])
          /\ ModelsOf(h[1]) \cap ModelsOf(h[2]) = {}
        BY <1>2, SplitHalves
    <2> HIDE DEF h
    <2>2. DOMAIN h = 1..2
        BY <2>1
    <2>3. 1..2 = {1, 2}
        OBVIOUS
    <2> QED
        BY <2>1, <2>2, <2>3 DEF RemovedModels
<1> HIDE DEF h
<1>4. /\ todo[w] = <<>> /\ todo'[w] = h
      /\ \A p \in Procs : p # w => todo'[p] = todo[p]
    BY <1>1 DEF Flow, EnqueueFlow, EnqueuePcs, Removed, LocalsType, Procs
<1>5. /\ \A v \in Workers : Removed(v)' <=> v # w /\ Removed(v)
      /\ pc[Solver] # "boot" /\ pc'[Solver] # "boot"
    BY <1>1, ProcsAssumption DEF Removed, PcType, Procs, Flow, BootFlow
<1>6. /\ TodoModels(w, 1)' = ModelsOf(h[1]) /\ TodoModels(w, 2)' = ModelsOf(h[2])
      /\ \A p \in Procs : p # w => \A i \in DOMAIN todo[p] : TodoModels(p, i)' = TodoModels(p, i)
      /\ \A v \in Workers : v # w => RemovedModels(v)' = RemovedModels(v)
      /\ \A i \in DOMAIN checkbook : BookModels(i)' = BookModels(i)
    BY <1>1, <1>4 DEF TodoModels, RemovedModels, BookModels, LocalsType
<1>7. ASSUME NEW CONSTANT S
      PROVE  Piece(S)' <=> Rest(S, w) \/ S = ModelsOf(h[1]) \/ S = ModelsOf(h[2])
    <2>1. Piece(S)' <=> \/ \E i \in DOMAIN checkbook : S = BookModels(i)'
                        \/ \E v \in Workers : Removed(v)' /\ S = RemovedModels(v)'
                        \/ \E p \in Procs : \E i \in DOMAIN todo'[p] : S = TodoModels(p, i)'
        BY <1>1 DEF Piece
    <2>2. w \in Procs /\ \A i : i \notin DOMAIN todo[w]
        BY <1>4 DEF Procs
    <2>3. (\E p \in Procs : \E i \in DOMAIN todo'[p] : S = TodoModels(p, i)')
              <=> \/ S = ModelsOf(h[1]) \/ S = ModelsOf(h[2])
                  \/ \E p \in Procs : \E i \in DOMAIN todo[p] : S = TodoModels(p, i)
        <3>1. ASSUME NEW p \in Procs, NEW i \in DOMAIN todo'[p], S = TodoModels(p, i)'
              PROVE  \/ S = ModelsOf(h[1]) \/ S = ModelsOf(h[2])
                     \/ \E q \in Procs : \E j \in DOMAIN todo[q] : S = TodoModels(q, j)
            BY <1>3, <1>4, <1>6, <3>1
        <3>2. ASSUME NEW p \in Procs, NEW i \in DOMAIN todo[p], S = TodoModels(p, i)
              PROVE  \E q \in Procs : \E j \in DOMAIN todo'[q] : S = TodoModels(q, j)'
            BY <1>4, <1>6, <2>2, <3>2
        <3>3. ASSUME S = ModelsOf(h[1]) \/ S = ModelsOf(h[2])
              PROVE  \E q \in Procs : \E j \in DOMAIN todo'[q] : S = TodoModels(q, j)'
            <4>1. 1 \in DOMAIN todo'[w] /\ 2 \in DOMAIN todo'[w]
                BY <1>3, <1>4
            <4> QED
                BY <1>6, <2>2, <3>3, <4>1
        <3> QED
            BY <3>1, <3>2, <3>3
    <2> QED
        BY <1>5, <1>6, <2>1, <2>3 DEF Rest
<1>8. RemovedModels(w) \ ModelsOf(h[1]) = ModelsOf(h[2])
    BY <1>3
<1>9. ASSUME NEW CONSTANT S
      PROVE  S \in Open' <=>
                 S \in ((Open \ {RemovedModels(w)})
                           \cup {ModelsOf(h[1]), RemovedModels(w) \ ModelsOf(h[1])}) \ {{}}
    <2>1. NothingTwice
        BY DEF Conservation
    <2>2. S \in Open' <=> S # {} /\ (Rest(S, w) \/ S = ModelsOf(h[1]) \/ S = ModelsOf(h[2]))
        BY <1>5, <1>7, OpenPiecesNext
    <2>3. S \in Open <=> S # {} /\ Piece(S)
        BY <1>5, OpenPieces
    <2>4. S # {} => (Rest(S, w) <=> S \in Open /\ S # RemovedModels(w))
        BY <1>1, <2>1, <2>3, PieceInHand
    <2> QED
        BY <1>8, <2>2, <2>4
<1>10. RemovedModels(w) # {} => RemovedModels(w) \in Open
    <2>1. cube[w] \in LiveCubes
        BY <1>1, <1>5 DEF LiveCubes
    <2> QED
        BY <2>1 DEF Open, RemovedModels
<1>11. ModelsOf(h[1]) \in SUBSET RemovedModels(w)
    BY <1>3
<1> QED
    BY <1>9, <1>10, <1>11

\* A step that leaves the pieces, the total and the log alone is a stutter.
LEMMA CounterStutters ==
    ASSUME Open' = Open, UNCHANGED <<totalCount, logged>>
    PROVE  UNCHANGED Counter!vars
BY DEF Counter!vars

\* At the start the initial cubes partition the models of the formula.
LEMMA InitCounter == Init => Counter!Init
<1> SUFFICES ASSUME Init PROVE Counter!Init
    OBVIOUS
<1>1. pc[Solver] = "boot" /\ totalCount = 0 /\ logged.count = -1
    BY DEF Init, NotLogged, Procs
<1>2. \A S : S \in Open <=> S # {} /\ \E i \in DOMAIN InitialCubes : S = ModelsOf(InitialCubes[i])
    BY <1>1 DEF Open, LiveCubes
<1>3. UNION Open = AllModels
    <2>1. ASSUME NEW a \in UNION Open PROVE a \in AllModels
        BY <1>2, GanakAnswer
    <2>2. ASSUME NEW a \in AllModels PROVE a \in UNION Open
        <3>1. PICK i \in DOMAIN InitialCubes : a \in ModelsOf(InitialCubes[i])
            BY InitialCubesAssumption
        <3>2. ModelsOf(InitialCubes[i]) \in Open
            BY <1>2, <3>1
        <3> QED
            BY <3>1, <3>2
    <2> QED
        BY <2>1, <2>2
<1>4. ASSUME NEW S \in Open, NEW T \in Open, S # T PROVE S \cap T = {}
    <2>1. PICK i \in DOMAIN InitialCubes : S = ModelsOf(InitialCubes[i])
        BY <1>2
    <2>2. PICK j \in DOMAIN InitialCubes : T = ModelsOf(InitialCubes[j])
        BY <1>2
    <2>3. i # j
        BY <1>4, <2>1, <2>2
    <2> QED
        BY <2>1, <2>2, <2>3, InitialCubesAssumption
<1>5. {} \notin Open
    BY DEF Open
<1> QED
    BY <1>1, <1>3, <1>4, <1>5 DEF Counter!Init, Counter!IsPartition

\* SubmitResult counts or drops the piece of its cube, or there is nothing
\* to count in it.
LEMMA AccountRefines ==
    ASSUME PcType, LocalsType, ServerType, Flow, Conservation, NEW w \in Workers,
           AddCount(w) \/ AddZero(w)
    PROVE  [Counter!Next]_(Counter!vars)
<1> DEFINE M == RemovedModels(w)
<1>1. /\ Open' = Open \ {M} /\ (M # {} => M \in Open)
      /\ M = ModelsOf(task[w].cube) /\ {} \notin Open
    BY AccountClosesPiece DEF Open
<1>2. /\ logged' = logged
      /\ \/ totalCount' = totalCount + Cardinality(M)
         \/ totalCount' = totalCount
    BY <1>1 DEF AddCount, AddZero, statVars
<1> HIDE DEF M
<1>3. CASE M = {}
    <2>1. Cardinality(M) = 0 /\ totalCount \in Nat
        BY <1>3, FS_EmptySet DEF ServerType
    <2>2. totalCount' = totalCount
        BY <1>2, <2>1
    <2>3. Open' = Open
        BY <1>1, <1>3
    <2> QED
        BY <1>2, <2>2, <2>3, CounterStutters
<1>4. CASE M # {}
    <2>1. CASE totalCount' = totalCount + Cardinality(M)
        <3>1. Counter!Count(M)
            BY <1>1, <1>2, <2>1 DEF Counter!Count, Cardinality, Counter!Cardinality
        <3> QED
            BY <1>1, <1>4, <3>1 DEF Counter!Next
    <2>2. CASE totalCount' = totalCount
        <3>1. Counter!Drop(M)
            BY <1>1, <1>2, <2>2 DEF Counter!Drop
        <3> QED
            BY <1>1, <1>4, <3>1 DEF Counter!Next
    <2> QED
        BY <1>2, <2>1, <2>2
<1> QED
    BY <1>3, <1>4

\* The halves of a cube that timed out are the halves of its piece.
LEMMA SplitRefines ==
    ASSUME PcType, LocalsType, Flow, Conservation, NEW w \in Workers, SplitTimedOut(w)
    PROVE  [Counter!Next]_(Counter!vars)
<1> DEFINE M == RemovedModels(w)
<1>1. M # {} => M \in Open
    BY SplitHalvesPiece
<1>2. PICK A \in SUBSET M : Open' = ((Open \ {M}) \cup {A, M \ A}) \ {{}}
    BY SplitHalvesPiece
<1>3. UNCHANGED <<totalCount, logged>> /\ {} \notin Open
    BY DEF SplitTimedOut, Open
<1> HIDE DEF M
<1>4. CASE M = {}
    <2>1. A = {} /\ M \ A = {}
        BY <1>2, <1>4
    <2>2. Open' = Open
        BY <1>2, <1>3, <1>4, <2>1
    <2> QED
        BY <1>3, <2>2, CounterStutters
<1>5. CASE M # {}
    <2>1. Counter!Halve(M, A)
        BY <1>2, <1>3 DEF Counter!Halve
    <2> QED
        BY <1>1, <1>2, <1>5, <2>1 DEF Counter!Next
<1> QED
    BY <1>4, <1>5

\* Every step of the master is a step of Counting, or invisible to it.
LEMMA NextCounter == IInv /\ LogOnce /\ [Next]_vars => [Counter!Next]_(Counter!vars)
<1> SUFFICES ASSUME IInv, LogOnce, [Next]_vars PROVE [Counter!Next]_(Counter!vars)
    OBVIOUS
<1>0. /\ ManagerType /\ ServerType /\ LocalsType /\ PcType
      /\ Flow /\ EachTaskOnce /\ Conservation
    BY DEF IInv, TypeOK
<1> USE ProcsAssumption DEF Procs
<1>a. ASSUME UNCHANGED <<checkbook, cube, todo>>,
             \A w \in Workers : Removed(w)' <=> Removed(w),
             pc'[Solver] = "boot" <=> pc[Solver] = "boot"
      PROVE  Open' = Open
    BY <1>a, OpenFrame
<1>1. ASSUME NEW p \in Procs, MakePayload(p) PROVE UNCHANGED Counter!vars
    <2>1. Open' = Open
        BY <1>0, <1>1, MakePayloadKeepsOpen
    <2> QED
        BY <1>1, <2>1, CounterStutters DEF MakePayload, statVars
<1>2. ASSUME NEW p \in Procs, ActivatePayload(p) \/ PushPayload(p)
      PROVE  UNCHANGED Counter!vars
    <2>1. \A w \in Workers : Removed(w)' <=> Removed(w)
        BY <1>0, <1>2 DEF ActivatePayload, PushPayload, Goto, Removed, PcType
    <2>2. pc'[Solver] = "boot" <=> pc[Solver] = "boot"
        BY <1>0, <1>2 DEF ActivatePayload, PushPayload, Goto, PcType
    <2>3. Open' = Open
        BY <1>a, <1>2, <2>1, <2>2 DEF ActivatePayload, PushPayload, localVars
    <2> QED
        BY <1>2, <2>3, CounterStutters DEF ActivatePayload, PushPayload, statVars
<1>3. ASSUME SolveReset PROVE UNCHANGED Counter!vars
    <2>1. Open' = Open
        BY <1>0, <1>3, SolveResetKeepsOpen
    <2> QED
        BY <1>3, <2>1, CounterStutters DEF SolveReset
<1>4. ASSUME SolveReceiveDone PROVE UNCHANGED Counter!vars
    <2>1. Open' = Open
        BY <1>0, <1>a, <1>4 DEF SolveReceiveDone, Goto, managerVars, localVars, Removed, PcType
    <2> QED
        BY <1>4, <2>1, CounterStutters DEF SolveReceiveDone, statVars
<1>5. ASSUME SolveLogResult PROVE Counter!Log
    <2>1. Open' = Open
        BY <1>0, <1>a, <1>5 DEF SolveLogResult, Goto, managerVars, localVars, Removed, PcType
    <2>2. logged.count = -1 /\ logged'.count = totalCount /\ totalCount' = totalCount
        BY <1>5 DEF SolveLogResult, LogOnce, statVars
    <2> QED
        BY <2>1, <2>2 DEF Counter!Log
<1>6. ASSUME NEW w \in Workers,
             \/ RegisterWorker(w) \/ GetTaskRefuse(w) \/ GetTaskAdmit(w) \/ GetTaskPop(w)
             \/ GetTaskTimeout(w) \/ AssignTask(w)
             \/ GanakCounts(w) \/ GanakTimesOut(w) \/ GanakFails(w)
             \/ CallLost(w) \/ WorkerLeaves(w) \/ WorkerJoins(w)
      PROVE  UNCHANGED Counter!vars
    <2>1. Open' = Open
        BY <1>0, <1>a, <1>6
        DEF RegisterWorker, GetTaskRefuse, GetTaskAdmit, GetTaskPop, GetTaskTimeout, AssignTask,
            GanakCounts, GanakTimesOut, GanakFails, Solved, CallLost, WorkerLeaves, WorkerJoins,
            Goto, managerVars, localVars, Removed, PcType
    <2> QED
        BY <1>6, <2>1, CounterStutters
        DEF RegisterWorker, GetTaskRefuse, GetTaskAdmit, GetTaskPop, GetTaskTimeout, AssignTask,
            GanakCounts, GanakTimesOut, GanakFails, Solved, CallLost, WorkerLeaves, WorkerJoins,
            statVars
<1>7. ASSUME NEW w \in Workers, RecordAssignment(w) PROVE UNCHANGED Counter!vars
    <2>1. /\ DOMAIN (checkbook') = DOMAIN checkbook
          /\ \A i \in DOMAIN checkbook : checkbook'[i].cube = checkbook[i].cube
        BY <1>0, <1>7 DEF RecordAssignment, ManagerType, Entries
    <2>2. \A v \in Workers : Removed(v)' <=> Removed(v)
        BY <1>0, <1>7 DEF RecordAssignment, Goto, Removed, PcType
    <2>3. pc'[Solver] = pc[Solver]
        BY <1>0, <1>7 DEF RecordAssignment, Goto, PcType
    <2>4. Open' = Open
        BY <1>7, <2>1, <2>2, <2>3, OpenFrame DEF RecordAssignment, localVars
    <2> QED
        BY <1>7, <2>4, CounterStutters DEF RecordAssignment, statVars
<1>8. ASSUME NEW w \in Workers, GetAndRemoveTask(w) PROVE UNCHANGED Counter!vars
    <2>1. Open' = Open
        BY <1>0, <1>8, RemoveKeepsOpen
    <2> QED
        BY <1>8, <2>1, CounterStutters DEF GetAndRemoveTask, statVars
<1>9. ASSUME NEW w \in Workers, SplitTimedOut(w) PROVE [Counter!Next]_(Counter!vars)
    BY <1>0, <1>9, SplitRefines
<1>10. ASSUME NEW w \in Workers, AddCount(w) \/ AddZero(w) PROVE [Counter!Next]_(Counter!vars)
    BY <1>0, <1>10, AccountRefines
<1>11. ASSUME NEW w \in Workers,
              \/ UpdateWorkerResult(w) \/ CountTimeout(w) \/ CompleteTask(w)
              \/ ReadActive(w) \/ ReadQueueAndSignal(w)
       PROVE  UNCHANGED Counter!vars
    <2>1. Open' = Open
        BY <1>0, <1>a, <1>11
        DEF UpdateWorkerResult, CountTimeout, CompleteTask, ReadActive, ReadQueueAndSignal, Goto,
            managerVars, localVars, Removed, PcType
    <2> QED
        BY <1>11, <2>1, CounterStutters
        DEF UpdateWorkerResult, CountTimeout, CompleteTask, ReadActive, ReadQueueAndSignal,
            statVars
<1>12. ASSUME UNCHANGED vars PROVE UNCHANGED Counter!vars
    <2>1. Open' = Open
        BY <1>a, <1>12 DEF vars, managerVars, localVars, Removed
    <2> QED
        BY <1>12, <2>1, CounterStutters DEF vars, statVars
<1> QED
    BY <1>1, <1>2, <1>3, <1>4, <1>5, <1>6, <1>7, <1>8, <1>9, <1>10, <1>11, <1>12, NextCases
    DEF Counter!Next

\* Solve logs, and returns, once.
LEMMA LogOnceHolds == Spec => []LogOnce
<1>1. Init => LogOnce
    BY DEF Init, LogOnce, NotLogged
<1>2. IInv /\ LogOnce /\ [Next]_vars => LogOnce'
    <2> SUFFICES ASSUME IInv, LogOnce, [Next]_vars PROVE LogOnce'
        OBVIOUS
    <2>0. PcType
        BY DEF IInv, TypeOK
    <2> USE ProcsAssumption DEF Procs
    <2>a. ASSUME logged' = logged, pc[Solver] = "returned" => pc'[Solver] = "returned"
          PROVE  LogOnce'
        BY <2>a DEF LogOnce
    <2>1. ASSUME NEW p \in Procs, MakePayload(p) \/ ActivatePayload(p) \/ PushPayload(p)
          PROVE  LogOnce'
        BY <2>0, <2>a, <2>1 DEF MakePayload, ActivatePayload, PushPayload, Goto, PcType
    <2>2. ASSUME SolveReset \/ SolveReceiveDone PROVE LogOnce'
        BY <2>0, <2>a, <2>2 DEF SolveReset, SolveReceiveDone, Goto, PcType
    <2>3. ASSUME SolveLogResult PROVE LogOnce'
        BY <2>0, <2>3 DEF SolveLogResult, Goto, LogOnce, PcType
    <2>4. ASSUME NEW w \in Workers,
                 \/ RegisterWorker(w) \/ GetTaskRefuse(w) \/ GetTaskAdmit(w) \/ GetTaskPop(w)
                 \/ GetTaskTimeout(w) \/ RecordAssignment(w) \/ AssignTask(w)
                 \/ GanakCounts(w) \/ GanakTimesOut(w) \/ GanakFails(w)
                 \/ CallLost(w) \/ WorkerLeaves(w) \/ WorkerJoins(w)
          PROVE  LogOnce'
        BY <2>0, <2>a, <2>4
        DEF RegisterWorker, GetTaskRefuse, GetTaskAdmit, GetTaskPop, GetTaskTimeout,
            RecordAssignment, AssignTask, GanakCounts, GanakTimesOut, GanakFails, Solved,
            CallLost, WorkerLeaves, WorkerJoins, Goto, PcType
    <2>5. ASSUME NEW w \in Workers,
                 \/ GetAndRemoveTask(w) \/ UpdateWorkerResult(w) \/ CountTimeout(w)
                 \/ SplitTimedOut(w) \/ AddCount(w) \/ AddZero(w) \/ CompleteTask(w)
                 \/ ReadActive(w) \/ ReadQueueAndSignal(w)
          PROVE  LogOnce'
        BY <2>0, <2>a, <2>5
        DEF GetAndRemoveTask, UpdateWorkerResult, CountTimeout, SplitTimedOut, AddCount, AddZero,
            CompleteTask, ReadActive, ReadQueueAndSignal, Goto, PcType
    <2>6. ASSUME UNCHANGED vars PROVE LogOnce'
        BY <2>a, <2>6 DEF vars
    <2> QED
        BY <2>1, <2>2, <2>3, <2>4, <2>5, <2>6, NextCases
<1> QED
    BY <1>1, <1>2, IInvHolds, PTL DEF Spec

(***************************************************************************)
(* The master implements Counting, for every formula and every partition   *)
(* into initial cubes, every set of workers, every interleaving, crash and *)
(* lost call: what it shows of its count is what a counter would show that *)
(* takes the pieces of a partition one at a time and logs once.            *)
(***************************************************************************)
THEOREM MasterImplementsCounting == Spec => ImplementsCounting
<1>1. Init => Counter!Init
    BY InitCounter
<1>2. IInv /\ LogOnce /\ [Next]_vars => [Counter!Next]_(Counter!vars)
    BY NextCounter
<1> QED
    BY <1>1, <1>2, IInvHolds, LogOnceHolds, PTL DEF Spec, ImplementsCounting, Counter!Spec

=============================================================================
