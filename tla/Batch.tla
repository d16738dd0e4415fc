------------------------------- MODULE Batch --------------------------------
(***************************************************************************)
(* Several CNF files solved in turn by one master (main.go) while the      *)
(* workers stay connected.  Solve replaces the task manager, the total and *)
(* the done channel of MasterServer and resets its counters; a handler     *)
(* works on the task manager and the channel it has read under mu, but on  *)
(* the total and the counters of the moment.  IDs count from 1 in every    *)
(* task manager, and a result carries nothing but its ID.                  *)
(*                                                                         *)
(* Master has one problem in full.  Here a cube is the set of its models   *)
(* and a split is any partition of it in two.  Left out, since Master has  *)
(* them: the worker tracker and its cap, lost calls, a ganak that fails,   *)
(* and a full queue; so the steps of makePayload and the push that follows *)
(* are one.                                                                *)
(***************************************************************************)
EXTENDS Integers, Sequences, FiniteSets

CONSTANTS
    Problems,     \* for each file, the initial cubes of its formula
    Workers       \* worker processes

Model == UNION {UNION {Problems[k][i] : i \in DOMAIN Problems[k]} : k \in DOMAIN Problems}

ModelsOf(k) == UNION {Problems[k][i] : i \in DOMAIN Problems[k]}

\* No model is in two cubes (InitialSplit has the cubes of a formula).
ASSUME BatchAssumption ==
    /\ Problems \in Seq(Seq(SUBSET Model))
    /\ IsFiniteSet(Model)
    /\ \A k \in DOMAIN Problems : Problems[k] # <<>>
    /\ \A k, l \in DOMAIN Problems : \A i \in DOMAIN Problems[k], j \in DOMAIN Problems[l] :
          <<k, i>> # <<l, j>> => Problems[k][i] \cap Problems[l][j] = {}
    /\ IsFiniteSet(Workers)

VARIABLES
    current,      \* the file whose state the fields of MasterServer point to
    \* the TaskManager of each file; activeTasks is the size of its book
    book, queue, nextID,
    \* the channel and the total made for each file
    done, total,
    \* the counters, shared by all files
    completedTasks, timedOutTasks, totalTasks,
    \* Solve: where it is, what EnqueueCubes has still to wrap, the log
    spc, stodo, rows,
    \* each worker and the handler that serves it: where it is, the file of
    \* the task manager its handler has read, the payload, the result, the
    \* cube found in the book, what EnqueueCubes has still to wrap, and the
    \* file of the total it is adding to
    pc, tm, task, timedOut, cube, todo, recv,
    early         \* history: a Solve has logged before its tasks were done

managerVars == <<book, queue, nextID>>
counterVars == <<completedTasks, timedOutTasks, totalTasks>>
solveVars == <<current, spc, stodo, rows, early>>
workVars == <<tm, task, timedOut, cube, todo, recv>>
vars == <<managerVars, done, total, counterVars, solveVars, pc, workVars>>

Files == DOMAIN Problems
NoTask == [file |-> 0, id |-> 0, cube |-> {}]

Init ==
    /\ current = 0
    /\ book = [k \in Files |-> [i \in {} |-> {}]]
    /\ queue = [k \in Files |-> <<>>]
    /\ nextID = [k \in Files |-> 0]
    /\ done = [k \in Files |-> 0]
    /\ total = [k \in Files |-> 0]
    /\ completedTasks = 0 /\ timedOutTasks = 0 /\ totalTasks = 0
    /\ spc = "next" /\ stodo = <<>> /\ rows = <<>>
    /\ pc = [w \in Workers |-> "idle"]
    /\ tm = [w \in Workers |-> 0]
    /\ task = [w \in Workers |-> NoTask]
    /\ timedOut = [w \in Workers |-> FALSE]
    /\ cube = [w \in Workers |-> {}]
    /\ todo = [w \in Workers |-> <<>>]
    /\ recv = [w \in Workers |-> 0]
    /\ early = FALSE

Goto(w, l) == pc' = [pc EXCEPT ![w] = l]

-----------------------------------------------------------------------------
(***************************************************************************)
(* One round of EnqueueCubes on the task manager of file k.                *)
(***************************************************************************)
AddTask(k, id, c) ==
    /\ nextID' = [nextID EXCEPT ![k] = id]
    /\ book' = [book EXCEPT ![k] = [i \in DOMAIN @ \cup {id} |->
                                       IF i = id THEN c ELSE @[i]]]
    /\ queue' = [queue EXCEPT ![k] = Append(@, [file |-> k, id |-> id, cube |-> c])]

\* Mutant: the ID is the size of the checkbook.
EnqueueReusingIDs(k, c) == AddTask(k, Cardinality(DOMAIN book[k]) + 1, c)

Enqueue(k, c) == AddTask(k, nextID[k] + 1, c)

-----------------------------------------------------------------------------
(***************************************************************************)
(* main's loop over the files, and Solve.                                  *)
(***************************************************************************)

\* Mutant: the total of the previous file is kept.
SolveResetKeepingTotal ==
    /\ spc = "next" /\ current < Len(Problems)
    /\ current' = current + 1
    /\ total' = [total EXCEPT ![current + 1] = IF current = 0 THEN 0 ELSE total[current]]
    /\ completedTasks' = 0 /\ timedOutTasks' = 0
    /\ totalTasks' = Len(Problems[current + 1])
    /\ stodo' = Problems[current + 1]
    /\ spc' = "enqueue"
    /\ UNCHANGED <<managerVars, done, rows, early, pc, workVars>>

\* The state of the file is new, so nobody has touched it yet.
SolveReset ==
    /\ spc = "next" /\ current < Len(Problems)
    /\ current' = current + 1
    /\ completedTasks' = 0 /\ timedOutTasks' = 0
    /\ totalTasks' = Len(Problems[current + 1])
    /\ stodo' = Problems[current + 1]
    /\ spc' = "enqueue"
    /\ UNCHANGED <<managerVars, done, total, rows, early, pc, workVars>>

SolveEnqueue ==
    /\ spc = "enqueue"
    /\ Enqueue(current, Head(stodo))
    /\ stodo' = Tail(stodo)
    /\ spc' = IF Len(stodo) = 1 THEN "wait" ELSE "enqueue"
    /\ UNCHANGED <<done, total, counterVars, current, rows, early, pc, workVars>>

SolveReceiveDone ==
    /\ spc = "wait" /\ done[current] = 1
    /\ done' = [done EXCEPT ![current] = 0]
    /\ spc' = "log"
    /\ UNCHANGED <<managerVars, total, counterVars, current, stodo, rows, early, pc, workVars>>

\* A handler has taken a result of file k out of the book and not yet done
\* with it all that its row depends on.
Unfinished(k) ==
    \/ DOMAIN book[k] # {}
    \/ \E w \in Workers :
          tm[w] = k /\ pc[w] \in {"removed", "split", "enqueue", "adding", "added"}

\* The total is read under countMu.
SolveLogResult ==
    /\ spc = "log"
    /\ \A w \in Workers : pc[w] # "adding"
    /\ rows' = Append(rows, [count |-> total[current], completed |-> completedTasks,
                             timedOut |-> timedOutTasks, total |-> totalTasks])
    /\ early' = (early \/ Unfinished(current))
    /\ spc' = "next"
    /\ UNCHANGED <<managerVars, done, total, counterVars, current, stodo, pc, workVars>>

-----------------------------------------------------------------------------
(***************************************************************************)
(* GetTask and ganak.                                                      *)
(***************************************************************************)
GetTask(w) ==
    /\ pc[w] = "idle" /\ current > 0
    /\ tm' = [tm EXCEPT ![w] = current]
    /\ Goto(w, "select")
    /\ UNCHANGED <<managerVars, done, total, counterVars, solveVars, task, timedOut, cube,
                   todo, recv>>

GetTaskPop(w) ==
    /\ pc[w] = "select" /\ queue[tm[w]] # <<>>
    /\ task' = [task EXCEPT ![w] = Head(queue[tm[w]])]
    /\ queue' = [queue EXCEPT ![tm[w]] = Tail(@)]
    /\ Goto(w, "solving")
    /\ UNCHANGED <<book, nextID, done, total, counterVars, solveVars, tm, timedOut, cube,
                   todo, recv>>

GetTaskTimeout(w) ==
    /\ pc[w] = "select" /\ queue[tm[w]] = <<>>
    /\ Goto(w, "idle")
    /\ UNCHANGED <<managerVars, done, total, counterVars, solveVars, workVars>>

\* A cube of one model is small enough to be counted in time.
Ganak(w) ==
    /\ pc[w] = "solving"
    /\ \E t \in BOOLEAN :
          /\ t => Cardinality(task[w].cube) > 1
          /\ timedOut' = [timedOut EXCEPT ![w] = t]
    /\ Goto(w, "submit")
    /\ UNCHANGED <<managerVars, done, total, counterVars, solveVars, tm, task, cube, todo, recv>>

-----------------------------------------------------------------------------
(***************************************************************************)
(* SubmitResult.                                                           *)
(***************************************************************************)
ReadManager(w) ==
    /\ pc[w] = "submit"
    /\ tm' = [tm EXCEPT ![w] = current]
    /\ Goto(w, "remove")
    /\ UNCHANGED <<managerVars, done, total, counterVars, solveVars, task, timedOut, cube,
                   todo, recv>>

\* The ID decides; a result for an unknown task is refused.
GetAndRemoveTask(w) ==
    /\ pc[w] = "remove"
    /\ LET k == tm[w]  id == task[w].id
       IN  IF id \in DOMAIN book[k]
           THEN /\ book' = [book EXCEPT ![k] = [i \in DOMAIN @ \ {id} |-> @[i]]]
                /\ cube' = [cube EXCEPT ![w] = book[k][id]]
                /\ Goto(w, "removed")
                /\ UNCHANGED task
           ELSE /\ task' = [task EXCEPT ![w] = NoTask]
                /\ Goto(w, "idle")
                /\ UNCHANGED <<book, cube>>
    /\ UNCHANGED <<queue, nextID, done, total, counterVars, solveVars, tm, timedOut, todo, recv>>

CountTimeout(w) ==
    /\ pc[w] = "removed" /\ timedOut[w]
    /\ timedOutTasks' = timedOutTasks + 1
    /\ Goto(w, "split")
    /\ UNCHANGED <<managerVars, done, total, completedTasks, totalTasks, solveVars, workVars>>

\* The cube of the book is split, not the one the worker had.
SplitTimedOut(w) ==
    /\ pc[w] = "split"
    /\ totalTasks' = totalTasks + 2
    /\ \E half \in SUBSET cube[w] :
          /\ Cardinality(cube[w]) > 1 => half \notin {{}, cube[w]}
          /\ todo' = [todo EXCEPT ![w] = <<half, cube[w] \ half>>]
    /\ cube' = [cube EXCEPT ![w] = {}]
    /\ task' = [task EXCEPT ![w] = NoTask]
    /\ Goto(w, "enqueue")
    /\ UNCHANGED <<managerVars, done, total, completedTasks, timedOutTasks, solveVars, tm,
                   timedOut, recv>>

EnqueueHalf(w) ==
    /\ pc[w] = "enqueue"
    /\ Enqueue(tm[w], Head(todo[w]))
    /\ todo' = [todo EXCEPT ![w] = Tail(@)]
    /\ Goto(w, IF Len(todo[w]) = 1 THEN "readActive" ELSE "enqueue")
    /\ UNCHANGED <<done, total, counterVars, solveVars, tm, task, timedOut, cube, recv>>

\* totalCount.Add under countMu, which does not guard the pointer: it is read
\* once for the receiver and once for the argument.
LoadTotal(w) ==
    /\ pc[w] = "removed" /\ ~timedOut[w]
    /\ \A v \in Workers : pc[v] # "adding"
    /\ recv' = [recv EXCEPT ![w] = current]
    /\ Goto(w, "adding")
    /\ UNCHANGED <<managerVars, done, total, counterVars, solveVars, tm, task, timedOut, cube,
                   todo>>

AddCount(w) ==
    /\ pc[w] = "adding"
    /\ \E arg \in {recv[w], current} :
          total' = [total EXCEPT ![recv[w]] = total[arg] + Cardinality(task[w].cube)]
    /\ recv' = [recv EXCEPT ![w] = 0]
    /\ cube' = [cube EXCEPT ![w] = {}]
    /\ task' = [task EXCEPT ![w] = NoTask]
    /\ Goto(w, "added")
    /\ UNCHANGED <<managerVars, done, counterVars, solveVars, tm, timedOut, todo>>

CompleteTask(w) ==
    /\ pc[w] = "added"
    /\ completedTasks' = completedTasks + 1
    /\ Goto(w, "readActive")
    /\ UNCHANGED <<managerVars, done, total, timedOutTasks, totalTasks, solveVars, workVars>>

\* Mutant: the task of the result is taken to be still active.
ReadActiveOneLeft(w) ==
    /\ pc[w] = "readActive"
    /\ Goto(w, IF Cardinality(DOMAIN book[tm[w]]) = 1 THEN "readQueue" ELSE "idle")
    /\ UNCHANGED <<managerVars, done, total, counterVars, solveVars, workVars>>

ReadActive(w) ==
    /\ pc[w] = "readActive"
    /\ Goto(w, IF DOMAIN book[tm[w]] = {} THEN "readQueue" ELSE "idle")
    /\ UNCHANGED <<managerVars, done, total, counterVars, solveVars, workVars>>

\* Mutant: the channel takes any number of signals.
ReadQueueAndPile(w) ==
    /\ pc[w] = "readQueue"
    /\ done' = [done EXCEPT ![tm[w]] = IF queue[tm[w]] = <<>> THEN @ + 1 ELSE @]
    /\ Goto(w, "idle")
    /\ UNCHANGED <<managerVars, total, counterVars, solveVars, workVars>>

ReadQueueAndSignal(w) ==
    /\ pc[w] = "readQueue"
    /\ done' = [done EXCEPT ![tm[w]] = IF queue[tm[w]] = <<>> THEN 1 ELSE @]
    /\ Goto(w, "idle")
    /\ UNCHANGED <<managerVars, total, counterVars, solveVars, workVars>>

-----------------------------------------------------------------------------
SolveStep == SolveReset \/ SolveEnqueue \/ SolveReceiveDone \/ SolveLogResult

WorkerStep(w) ==
    \/ GetTask(w) \/ GetTaskPop(w) \/ GetTaskTimeout(w) \/ Ganak(w)
    \/ ReadManager(w) \/ GetAndRemoveTask(w)
    \/ CountTimeout(w) \/ SplitTimedOut(w) \/ EnqueueHalf(w)
    \/ LoadTotal(w) \/ AddCount(w) \/ CompleteTask(w)
    \/ ReadActive(w) \/ ReadQueueAndSignal(w)

Next == SolveStep \/ \E w \in Workers : WorkerStep(w)

Spec == Init /\ [][Next]_vars

\* Goroutines are scheduled, and ganak ends or is killed.
Fairness == WF_vars(SolveStep) /\ \A w \in Workers : WF_vars(WorkerStep(w))

FairSpec == Spec /\ Fairness

-----------------------------------------------------------------------------
Pcs == {"idle", "select", "solving", "submit", "remove", "removed", "split", "enqueue",
        "adding", "added", "readActive", "readQueue"}

Payloads == [file : Files, id : Nat, cube : SUBSET Model] \cup {NoTask}

ManagerType ==
    /\ DOMAIN book = Files
    /\ queue \in [Files -> Seq(Payloads)]
    /\ nextID \in [Files -> Nat]
    /\ \A k \in Files : /\ DOMAIN book[k] \subseteq 1..nextID[k]
                        /\ \A i \in DOMAIN book[k] : book[k][i] \subseteq Model

ServerType ==
    /\ done \in [Files -> {0, 1}]
    /\ total \in [Files -> Nat]
    /\ completedTasks \in Nat /\ timedOutTasks \in Nat /\ totalTasks \in Nat

SolveType ==
    /\ current \in 0..Len(Problems)
    /\ spc \in {"next", "enqueue", "wait", "log"}
    /\ stodo \in Seq(SUBSET Model)
    /\ rows \in Seq([count : Nat, completed : Nat, timedOut : Nat, total : Nat])
    /\ early \in BOOLEAN

WorkType ==
    /\ pc \in [Workers -> Pcs]
    /\ tm \in [Workers -> 0..current]
    /\ task \in [Workers -> Payloads]
    /\ timedOut \in [Workers -> BOOLEAN]
    /\ cube \in [Workers -> SUBSET Model]
    /\ todo \in [Workers -> Seq(SUBSET Model)]
    /\ recv \in [Workers -> 0..current]

\* Type invariant.
TypeOK == ManagerType /\ ServerType /\ SolveType /\ WorkType

\* As long as no Solve has logged too early, files do not mix: the row of each
\* is its own model count, and its counters add up, although handlers of the
\* previous file may still be running, with its channel in their hands, when
\* the state is replaced.
RowsAreRight ==
    ~early =>
        \A k \in DOMAIN rows :
            /\ rows[k].count = Cardinality(ModelsOf(k))
            /\ rows[k].completed + rows[k].timedOut = rows[k].total

\* As long as no Solve has logged too early, the entry that a result takes out
\* of the book is the one of the very task the worker has solved, although
\* IDs start again with each file and SubmitResult looks up nothing else.
IDsNameOneTask ==
    ~early =>
        \A w \in Workers :
            pc[w] \in {"solving", "submit", "remove"} =>
                LET t == task[w]
                IN  /\ t.file = current
                    /\ t.id \in DOMAIN book[current]
                    /\ book[current][t.id] = t.cube

\* The batch comes to its end, or some Solve has logged too early.
EndsUnlessEarly == <>(early \/ Len(rows) = Len(Problems))

\* main.go: "Solve each file in turn", and then "All files done".  It does
\* not hold: after an early return a late result can take the task of another
\* file out of the book, and that task's own result is then refused before
\* the check for the end.
AllFilesDone == <>(Len(rows) = Len(Problems))

=============================================================================
