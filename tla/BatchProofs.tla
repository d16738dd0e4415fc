---------------------------- MODULE BatchProofs ----------------------------
(***************************************************************************)
(* Proofs about Batch, for any number of files, any cubes of their models  *)
(* and any set of workers: as long as no Solve has logged too early, the   *)
(* files do not mix.                                                       *)
(***************************************************************************)
EXTENDS Batch, CubesProofs, SequenceTheorems

\* The worker has a task, from the pop to the removal from the book.
Serving(w) == pc[w] \in {"solving", "submit", "remove"}

\* The handler has taken a task out of the book and its effects on the row
\* are not complete.
Handling(w) == pc[w] \in {"removed", "split", "enqueue", "adding", "added"}

\* Where Solve and the handlers are, whatever they have logged.
Flow ==
    /\ Len(rows) = IF spc = "next" THEN current ELSE current - 1
    /\ spc = "enqueue" <=> stodo # <<>>
    /\ \A k \in Files : k > current => total[k] = 0
    /\ \A w \in Workers :
          /\ pc[w] # "idle" => tm[w] > 0
          /\ pc[w] = "adding" => recv[w] > 0
          /\ pc[w] = "enqueue" <=> todo[w] # <<>>
          /\ Len(todo[w]) <= 2
          /\ Len(todo[w]) = 2 => todo[w][1] \cap todo[w][2] = {}

\* stodo is what is left of the cubes of the file.
Suffix ==
    stodo # <<>> =>
        /\ Len(stodo) <= Len(Problems[current])
        /\ \A j \in DOMAIN stodo :
              stodo[j] = Problems[current][Len(Problems[current]) - Len(stodo) + j]

\* What holds whether or not a Solve has logged too early.
Shape == TypeOK /\ Flow /\ Suffix

\* The book of file k has the payload.
InBook(k, t) == t.file = k /\ t.id \in DOMAIN book[k] /\ book[k][t.id] = t.cube

\* Only the current file has tasks, and none between two files.
OneBook == \A k \in Files : k # current \/ spc = "next" => DOMAIN book[k] = {}

\* What a handler that works on a task has read is still the current state.
OwnFile(w) ==
    /\ Serving(w) \/ Handling(w) => spc # "next"
    /\ pc[w] = "remove" \/ Handling(w) => tm[w] = current
    /\ pc[w] = "adding" => recv[w] = current
    /\ pc[w] \in {"removed", "adding"} => cube[w] = task[w].cube

OneFile == OneBook /\ \A w \in Workers : OwnFile(w)

\* A task of the current file is in one slot of the queue or in the hands of
\* one worker.
OnePlace ==
    /\ \A k \in Files : \A i \in DOMAIN queue[k] : InBook(k, queue[k][i])
    /\ \A k \in Files : \A i, j \in DOMAIN queue[k] :
          i # j => queue[k][i].id # queue[k][j].id
    /\ \A w \in Workers : Serving(w) => InBook(current, task[w])
    /\ \A w \in Workers : Serving(w) =>
          \A i \in DOMAIN queue[current] : queue[current][i].id # task[w].id
    /\ \A v, w \in Workers :
          Serving(v) /\ Serving(w) /\ v # w => task[v].id # task[w].id

\* What a handler has of the models of the task it has removed.
Hand(w) ==
    IF pc[w] \in {"removed", "split", "adding"} THEN cube[w]
    ELSE UNION {todo[w][i] : i \in DOMAIN todo[w]}

Hands == [w \in Workers |-> Hand(w)]

\* The cubes that Solve has still to enqueue, by their place in the file.
Unread == (Len(Problems[current]) - Len(stodo) + 1)..Len(Problems[current])

\* The models of the current file that are not in its total yet: in the book,
\* still to be enqueued, or with a handler.
BookModels == Cardinality(Tagged(DOMAIN book[current], book[current]))
UnreadModels == Cardinality(Tagged(Unread, Problems[current]))
HandModels == Cardinality(Tagged(Workers, Hands))

\* The results taken out of the book and not counted yet.
InFlight == {w \in Workers : pc[w] \in {"removed", "adding", "added"}}

\* The tasks of the current file that are neither completed nor timed out.
BookTasks == Cardinality(DOMAIN book[current])
InFlightTasks == Cardinality(InFlight)
HalfTasks == Cardinality(Slots(Workers, todo))
Outstanding == BookTasks + Len(stodo) + InFlightTasks + HalfTasks

Balance ==
    current > 0 =>
        /\ total[current] + BookModels + UnreadModels + HandModels
             = Cardinality(ModelsOf(current))
        /\ totalTasks = completedTasks + timedOutTasks + Outstanding

OnTime == OneFile /\ OnePlace /\ Balance

IInv == Shape /\ (~early => OnTime) /\ RowsAreRight

-----------------------------------------------------------------------------
\* The steps of the system, one action each.
LEMMA NextCases ==
    ASSUME [Next]_vars
    PROVE  \/ SolveReset \/ SolveEnqueue \/ SolveReceiveDone \/ SolveLogResult
           \/ \E w \in Workers : GetTask(w)
           \/ \E w \in Workers : GetTaskPop(w)
           \/ \E w \in Workers : GetTaskTimeout(w)
           \/ \E w \in Workers : Ganak(w)
           \/ \E w \in Workers : ReadManager(w)
           \/ \E w \in Workers : GetAndRemoveTask(w)
           \/ \E w \in Workers : CountTimeout(w)
           \/ \E w \in Workers : SplitTimedOut(w)
           \/ \E w \in Workers : EnqueueHalf(w)
           \/ \E w \in Workers : LoadTotal(w)
           \/ \E w \in Workers : AddCount(w)
           \/ \E w \in Workers : CompleteTask(w)
           \/ \E w \in Workers : ReadActive(w)
           \/ \E w \in Workers : ReadQueueAndSignal(w)
           \/ UNCHANGED vars
BY Zenon DEF Next, SolveStep, WorkerStep

\* The files are numbered from 1, and their cubes are finite sets of models.
LEMMA ProblemFacts ==
    /\ Len(Problems) \in Nat /\ Files = 1..Len(Problems)
    /\ \A k \in Files :
          /\ Problems[k] \in Seq(SUBSET Model) /\ Problems[k] # <<>>
          /\ Len(Problems[k]) \in Nat \ {0}
    /\ IsFiniteSet(Model)
    /\ \A S \in SUBSET Model : IsFiniteSet(S) /\ Cardinality(S) \in Nat
<1>1. \A S \in SUBSET Model : IsFiniteSet(S) /\ Cardinality(S) \in Nat
    BY BatchAssumption, FS_Subset, FS_CardinalityType
<1>2. Len(Problems) \in Nat /\ Files = 1..Len(Problems)
    BY BatchAssumption DEF Files
<1>3. ASSUME NEW k \in Files
      PROVE  /\ Problems[k] \in Seq(SUBSET Model) /\ Problems[k] # <<>>
             /\ Len(Problems[k]) \in Nat \ {0}
    <2>1. Problems[k] \in Seq(SUBSET Model) /\ Problems[k] # <<>>
        BY BatchAssumption DEF Files
    <2> QED
        BY <2>1, EmptySeq
<1> QED
    BY <1>1, <1>2, <1>3, BatchAssumption

\* The file of a handler that has read the task manager is one that Solve has
\* begun.
LEMMA FileFacts ==
    ASSUME SolveType, WorkType, Flow
    PROVE  /\ current \in Nat /\ (current > 0 => current \in Files)
           /\ spc # "next" => current \in Files
           /\ \A w \in Workers : pc[w] # "idle" => tm[w] \in Files /\ current \in Files
           /\ \A w \in Workers : pc[w] = "adding" => recv[w] \in Files
<1>1. Len(Problems) \in Nat /\ Files = 1..Len(Problems)
    BY ProblemFacts
<1>2. current \in 0..Len(Problems) /\ rows \in Seq([count : Nat, completed : Nat, timedOut : Nat, total : Nat])
    BY DEF SolveType
<1>3. current \in Nat /\ (current > 0 => current \in Files)
    BY <1>1, <1>2
<1>4. spc # "next" => current > 0
    <2>1. Len(rows) \in Nat
        BY <1>2
    <2> QED
        BY <1>3, <2>1 DEF Flow
<1>5. ASSUME NEW w \in Workers, pc[w] # "idle" PROVE tm[w] \in Files /\ current \in Files
    <2>1. tm[w] \in 0..current /\ tm[w] > 0
        BY <1>5 DEF WorkType, Flow
    <2> QED
        BY <1>1, <1>2, <2>1
<1>6. ASSUME NEW w \in Workers, pc[w] = "adding" PROVE recv[w] \in Files
    <2>1. recv[w] \in 0..current /\ recv[w] > 0
        BY <1>6 DEF WorkType, Flow
    <2> QED
        BY <1>1, <1>2, <2>1
<1> QED
    BY <1>3, <1>4, <1>5, <1>6

\* The fields of a payload.
LEMMA PayloadFacts ==
    /\ NoTask \in Payloads
    /\ \A t \in Payloads : t.cube \in SUBSET Model /\ t.id \in Nat
<1>1. \A t \in [file : Files, id : Nat, cube : SUBSET Model] :
         t.cube \in SUBSET Model /\ t.id \in Nat
    OBVIOUS
<1>2. NoTask.cube \in SUBSET Model /\ NoTask.id \in Nat
    BY DEF NoTask
<1> QED
    BY <1>1, <1>2, Zenon DEF Payloads

\* The head and the tail of a sequence that is not empty.
LEMMA HeadAndTail ==
    ASSUME NEW S, NEW s \in Seq(S), s # <<>>
    PROVE  /\ Head(s) \in S /\ Head(s) = s[1] /\ 1 \in DOMAIN s
           /\ Tail(s) \in Seq(S) /\ Len(s) \in Nat \ {0} /\ Len(Tail(s)) = Len(s) - 1
           /\ \A i \in DOMAIN Tail(s) : i + 1 \in DOMAIN s /\ Tail(s)[i] = s[i + 1]
           /\ Tail(s) = <<>> <=> Len(s) = 1
<1>1. Len(s) \in Nat \ {0}
    BY EmptySeq
<1>2. /\ Head(s) \in S /\ Tail(s) \in Seq(S) /\ Len(Tail(s)) = Len(s) - 1
      /\ \A i \in 1..Len(Tail(s)) : Tail(s)[i] = s[i + 1]
    BY HeadTailProperties
<1>3. Tail(s) = <<>> <=> Len(Tail(s)) = 0
    BY <1>2, EmptySeq
<1>4. DOMAIN s = 1..Len(s) /\ DOMAIN Tail(s) = 1..Len(Tail(s))
    BY <1>2
<1> QED
    BY <1>1, <1>2, <1>3, <1>4

-----------------------------------------------------------------------------
(***************************************************************************)
(* Types.                                                                  *)
(***************************************************************************)
\* One round of EnqueueCubes.
LEMMA AddTaskType ==
    ASSUME ManagerType, NEW k \in Files, NEW c \in SUBSET Model, Enqueue(k, c)
    PROVE  /\ ManagerType'
           /\ nextID[k] \in Nat
           /\ nextID[k] + 1 \notin DOMAIN book[k]
           /\ DOMAIN book'[k] = DOMAIN book[k] \cup {nextID[k] + 1}
           /\ book'[k][nextID[k] + 1] = c
           /\ \A i \in DOMAIN book[k] : book'[k][i] = book[k][i]
           /\ queue'[k] = Append(queue[k], [file |-> k, id |-> nextID[k] + 1, cube |-> c])
           /\ \A j \in Files : j # k => book'[j] = book[j] /\ queue'[j] = queue[j]
<1> DEFINE id == nextID[k] + 1
           t == [file |-> k, id |-> id, cube |-> c]
<1>1. /\ id \in Nat /\ nextID[k] \in Nat
      /\ nextID' = [nextID EXCEPT ![k] = id]
      /\ book' = [book EXCEPT ![k] = [i \in DOMAIN book[k] \cup {id} |->
                                         IF i = id THEN c ELSE book[k][i]]]
      /\ queue' = [queue EXCEPT ![k] = Append(queue[k], t)]
    BY DEF Enqueue, AddTask, ManagerType
<1>2. t \in Payloads
    BY <1>1 DEF Payloads
<1>3. id \notin DOMAIN book[k]
    BY <1>1 DEF ManagerType
<1> HIDE DEF t
<1>4. /\ DOMAIN book' = Files
      /\ DOMAIN book'[k] = DOMAIN book[k] \cup {id}
      /\ book'[k][id] = c
      /\ \A i \in DOMAIN book[k] : book'[k][i] = book[k][i]
      /\ \A j \in Files : j # k => book'[j] = book[j]
    BY <1>1, <1>3 DEF ManagerType
<1>5. /\ queue' \in [Files -> Seq(Payloads)]
      /\ nextID' \in [Files -> Nat] /\ nextID'[k] = id
      /\ \A j \in Files : j # k => nextID'[j] = nextID[j]
    BY <1>1, <1>2 DEF ManagerType
<1>6. ASSUME NEW j \in Files
      PROVE  /\ DOMAIN book'[j] \subseteq 1..nextID'[j]
             /\ \A i \in DOMAIN book'[j] : book'[j][i] \subseteq Model
    <2>1. CASE j = k
        BY <1>1, <1>4, <1>5, <2>1 DEF ManagerType
    <2>2. CASE j # k
        BY <1>4, <1>5, <2>2 DEF ManagerType
    <2> QED
        BY <2>1, <2>2
<1>7. ManagerType'
    BY <1>4, <1>5, <1>6 DEF ManagerType
<1>8. /\ queue'[k] = Append(queue[k], t)
      /\ \A j \in Files : j # k => queue'[j] = queue[j]
    BY <1>1 DEF ManagerType
<1> QED
    BY <1>1, <1>3, <1>4, <1>7, <1>8 DEF t

\* The task managers of all files.
LEMMA ManagerTypeStep == TypeOK /\ Flow /\ [Next]_vars => ManagerType'
<1> SUFFICES ASSUME TypeOK, Flow, [Next]_vars PROVE ManagerType'
    OBVIOUS
<1>0. ManagerType /\ WorkType /\ SolveType
    BY DEF TypeOK
<1>1. ASSUME SolveEnqueue PROVE ManagerType'
    <2>1. /\ Enqueue(current, Head(stodo)) /\ stodo # <<>> /\ spc = "enqueue"
        BY <1>1 DEF SolveEnqueue, Flow
    <2>2. Head(stodo) \in SUBSET Model
        BY <1>0, <2>1, HeadAndTail DEF SolveType
    <2>3. current \in Files
        BY <1>0, <2>1, FileFacts
    <2> QED
        BY <1>0, <2>1, <2>2, <2>3, AddTaskType
<1>2. ASSUME NEW w \in Workers, EnqueueHalf(w) PROVE ManagerType'
    <2>1. Enqueue(tm[w], Head(todo[w])) /\ todo[w] # <<>> /\ pc[w] = "enqueue"
        BY <1>2 DEF EnqueueHalf, Flow
    <2>2. Head(todo[w]) \in SUBSET Model
        BY <1>0, <2>1, HeadAndTail DEF WorkType
    <2>3. tm[w] \in Files
        BY <1>0, <2>1, FileFacts
    <2> QED
        BY <1>0, <2>1, <2>2, <2>3, AddTaskType
<1>3. ASSUME NEW w \in Workers, GetTaskPop(w) PROVE ManagerType'
    <2>1. tm[w] \in Files
        BY <1>0, <1>3, FileFacts DEF GetTaskPop
    <2>2. Tail(queue[tm[w]]) \in Seq(Payloads)
        BY <1>0, <1>3, <2>1, HeadAndTail DEF GetTaskPop, ManagerType
    <2> QED
        BY <1>0, <1>3, <2>1, <2>2 DEF GetTaskPop, ManagerType
<1>4. ASSUME NEW w \in Workers, GetAndRemoveTask(w) PROVE ManagerType'
    <2>1. tm[w] \in Files /\ UNCHANGED <<queue, nextID>>
        BY <1>0, <1>4, FileFacts DEF GetAndRemoveTask
    <2>2. CASE task[w].id \in DOMAIN book[tm[w]]
        <3>1. book' = [book EXCEPT ![tm[w]] = [i \in DOMAIN book[tm[w]] \ {task[w].id} |->
                                                 book[tm[w]][i]]]
            BY <1>4, <2>2 DEF GetAndRemoveTask
        <3>2. /\ DOMAIN book' = Files
              /\ DOMAIN book'[tm[w]] = DOMAIN book[tm[w]] \ {task[w].id}
              /\ \A i \in DOMAIN book'[tm[w]] : book'[tm[w]][i] = book[tm[w]][i]
              /\ \A j \in Files : j # tm[w] => book'[j] = book[j]
            BY <1>0, <2>1, <3>1 DEF ManagerType
        <3> QED
            BY <1>0, <2>1, <3>2 DEF ManagerType
    <2>3. CASE task[w].id \notin DOMAIN book[tm[w]]
        BY <1>0, <1>4, <2>1, <2>3 DEF GetAndRemoveTask, ManagerType
    <2> QED
        BY <2>2, <2>3
<1>5. ASSUME UNCHANGED managerVars PROVE ManagerType'
    BY <1>0, <1>5 DEF managerVars, ManagerType
<1> QED
    BY <1>1, <1>2, <1>3, <1>4, <1>5, NextCases
    DEF SolveReset, SolveReceiveDone, SolveLogResult, GetTask, GetTaskTimeout, Ganak,
        ReadManager, CountTimeout, SplitTimedOut, LoadTotal, AddCount, CompleteTask,
        ReadActive, ReadQueueAndSignal, vars

\* The channels, the totals and the counters.
LEMMA ServerTypeStep == TypeOK /\ Flow /\ [Next]_vars => ServerType'
<1> SUFFICES ASSUME TypeOK, Flow, [Next]_vars PROVE ServerType'
    OBVIOUS
<1>0. ServerType /\ WorkType /\ SolveType
    BY DEF TypeOK
<1>1. ASSUME SolveReset PROVE ServerType'
    <2>1. Len(Problems[current + 1]) \in Nat
        BY <1>0, <1>1, ProblemFacts DEF SolveReset, SolveType
    <2> QED
        BY <1>0, <1>1, <2>1 DEF SolveReset, ServerType
<1>2. ASSUME SolveReceiveDone PROVE ServerType'
    BY <1>0, <1>2 DEF SolveReceiveDone, ServerType, counterVars
<1>3. ASSUME NEW w \in Workers, CountTimeout(w) \/ SplitTimedOut(w) \/ CompleteTask(w)
      PROVE  ServerType'
    BY <1>0, <1>3 DEF CountTimeout, SplitTimedOut, CompleteTask, ServerType
<1>4. ASSUME NEW w \in Workers, AddCount(w) PROVE ServerType'
    <2>1. PICK arg \in {recv[w], current} :
             total' = [total EXCEPT ![recv[w]] = total[arg] + Cardinality(task[w].cube)]
        BY <1>4 DEF AddCount
    <2>2. recv[w] \in Files /\ current \in Files
        BY <1>0, <1>4, FileFacts DEF AddCount
    <2>3. task[w].cube \in SUBSET Model
        BY <1>0, PayloadFacts DEF WorkType
    <2>4. Cardinality(task[w].cube) \in Nat
        BY <2>3, ProblemFacts
    <2>5. total' \in [Files -> Nat]
        BY <1>0, <2>1, <2>2, <2>4 DEF ServerType
    <2> QED
        BY <1>0, <1>4, <2>5 DEF AddCount, ServerType, counterVars
<1>5. ASSUME NEW w \in Workers, ReadQueueAndSignal(w) PROVE ServerType'
    BY <1>0, <1>5 DEF ReadQueueAndSignal, ServerType, counterVars
<1>6. ASSUME UNCHANGED <<done, total, counterVars>> PROVE ServerType'
    BY <1>0, <1>6 DEF counterVars, ServerType
<1> QED
    BY <1>1, <1>2, <1>3, <1>4, <1>5, <1>6, NextCases
    DEF SolveEnqueue, SolveLogResult, GetTask, GetTaskPop, GetTaskTimeout, Ganak,
        ReadManager, GetAndRemoveTask, EnqueueHalf, LoadTotal, ReadActive, vars

\* Solve, its log and the loop over the files.
LEMMA SolveTypeStep == TypeOK /\ Flow /\ [Next]_vars => SolveType'
<1> SUFFICES ASSUME TypeOK, Flow, [Next]_vars PROVE SolveType'
    OBVIOUS
<1>0. ServerType /\ WorkType /\ SolveType
    BY DEF TypeOK
<1>1. ASSUME SolveReset PROVE SolveType'
    <2>1. current' \in 0..Len(Problems) /\ current + 1 \in Files
        BY <1>0, <1>1, ProblemFacts DEF SolveReset, SolveType
    <2>2. Problems[current + 1] \in Seq(SUBSET Model)
        BY <2>1, ProblemFacts
    <2> QED
        BY <1>0, <1>1, <2>1, <2>2 DEF SolveReset, SolveType
<1>2. ASSUME SolveEnqueue PROVE SolveType'
    <2>1. stodo # <<>>
        BY <1>2 DEF SolveEnqueue, Flow
    <2>2. Tail(stodo) \in Seq(SUBSET Model)
        BY <1>0, <2>1, HeadAndTail DEF SolveType
    <2> QED
        BY <1>0, <1>2, <2>2 DEF SolveEnqueue, SolveType
<1>3. ASSUME SolveReceiveDone PROVE SolveType'
    BY <1>0, <1>3 DEF SolveReceiveDone, SolveType
<1>4. ASSUME SolveLogResult PROVE SolveType'
    <2> DEFINE Row == [count : Nat, completed : Nat, timedOut : Nat, total : Nat]
               row == [count |-> total[current], completed |-> completedTasks,
                       timedOut |-> timedOutTasks, total |-> totalTasks]
    <2>1. current \in Files
        BY <1>0, <1>4, FileFacts DEF SolveLogResult
    <2>2. row \in Row
        BY <1>0, <2>1 DEF ServerType
    <2>3. rows \in Seq(Row) /\ rows' = Append(rows, row)
        BY <1>0, <1>4 DEF SolveType, SolveLogResult
    <2> HIDE DEF row
    <2>4. rows' \in Seq(Row)
        BY <2>2, <2>3
    <2>5. early' \in BOOLEAN
        BY <1>4 DEF SolveLogResult
    <2> QED
        BY <1>0, <1>4, <2>4, <2>5 DEF SolveLogResult, SolveType
<1>5. ASSUME UNCHANGED solveVars PROVE SolveType'
    BY <1>0, <1>5 DEF solveVars, SolveType
<1> QED
    BY <1>1, <1>2, <1>3, <1>4, <1>5, NextCases
    DEF GetTask, GetTaskPop, GetTaskTimeout, Ganak, ReadManager, GetAndRemoveTask,
        CountTimeout, SplitTimedOut, EnqueueHalf, LoadTotal, AddCount, CompleteTask,
        ReadActive, ReadQueueAndSignal, vars

\* The workers and their handlers.
LEMMA WorkTypeStep == TypeOK /\ Flow /\ [Next]_vars => WorkType'
<1> SUFFICES ASSUME TypeOK, Flow, [Next]_vars PROVE WorkType'
    OBVIOUS
<1>0. ManagerType /\ WorkType /\ SolveType /\ current \in Nat
    BY FileFacts DEF TypeOK
<1>a. ASSUME NEW w \in Workers, NEW l \in Pcs, Goto(w, l) PROVE pc' \in [Workers -> Pcs]
    BY <1>0, <1>a DEF Goto, WorkType
<1>1. ASSUME SolveReset PROVE WorkType'
    <2>1. 0..current \subseteq 0..current'
        BY <1>0, <1>1 DEF SolveReset
    <2> QED
        BY <1>0, <1>1, <2>1 DEF SolveReset, WorkType, workVars
<1>2. ASSUME NEW w \in Workers, GetTask(w) \/ ReadManager(w) \/ LoadTotal(w) PROVE WorkType'
    <2>1. pc' \in [Workers -> Pcs] /\ current' = current
        BY <1>2, <1>a DEF GetTask, ReadManager, LoadTotal, Pcs, solveVars
    <2>2. current \in 0..current
        BY <1>0
    <2>3. tm' \in [Workers -> 0..current] /\ recv' \in [Workers -> 0..current]
        BY <1>0, <1>2, <2>2 DEF GetTask, ReadManager, LoadTotal, WorkType
    <2>4. UNCHANGED <<task, timedOut, cube, todo>>
        BY <1>2 DEF GetTask, ReadManager, LoadTotal
    <2> QED
        BY <1>0, <2>1, <2>3, <2>4 DEF WorkType
<1>3. ASSUME NEW w \in Workers, GetTaskPop(w) PROVE WorkType'
    <2>1. pc' \in [Workers -> Pcs] /\ current' = current
        BY <1>3, <1>a DEF GetTaskPop, Pcs, solveVars
    <2>2. tm[w] \in Files
        BY <1>0, <1>3, FileFacts DEF GetTaskPop
    <2>3. queue[tm[w]] \in Seq(Payloads) /\ queue[tm[w]] # <<>>
        BY <1>0, <1>3, <2>2 DEF GetTaskPop, ManagerType
    <2>4. Head(queue[tm[w]]) \in Payloads
        BY <2>3, HeadAndTail
    <2> QED
        BY <1>0, <1>3, <2>1, <2>4 DEF GetTaskPop, WorkType
<1>4. ASSUME NEW w \in Workers, GetTaskTimeout(w) \/ CountTimeout(w) \/ CompleteTask(w)
                                \/ ReadActive(w) \/ ReadQueueAndSignal(w)
      PROVE  WorkType'
    <2>1. pc' \in [Workers -> Pcs] /\ current' = current /\ UNCHANGED workVars
        BY <1>4, <1>a DEF GetTaskTimeout, CountTimeout, CompleteTask, ReadActive,
                          ReadQueueAndSignal, Pcs, solveVars
    <2> QED
        BY <1>0, <2>1 DEF WorkType, workVars
<1>5. ASSUME NEW w \in Workers, Ganak(w) PROVE WorkType'
    <2>1. pc' \in [Workers -> Pcs] /\ current' = current
        BY <1>5, <1>a DEF Ganak, Pcs, solveVars
    <2>2. timedOut' \in [Workers -> BOOLEAN]
        BY <1>0, <1>5 DEF Ganak, WorkType
    <2> QED
        BY <1>0, <1>5, <2>1, <2>2 DEF Ganak, WorkType
<1>6. ASSUME NEW w \in Workers, GetAndRemoveTask(w) PROVE WorkType'
    <2>1. /\ current' = current /\ UNCHANGED <<tm, timedOut, todo, recv>> /\ tm[w] \in Files
        BY <1>0, <1>6, FileFacts DEF GetAndRemoveTask, solveVars
    <2>2. CASE task[w].id \in DOMAIN book[tm[w]]
        <3>1. pc' \in [Workers -> Pcs]
            BY <1>6, <1>a, <2>2 DEF GetAndRemoveTask, Pcs
        <3>2. book[tm[w]][task[w].id] \in SUBSET Model
            BY <1>0, <2>1, <2>2 DEF ManagerType
        <3> QED
            BY <1>0, <1>6, <2>1, <2>2, <3>1, <3>2 DEF GetAndRemoveTask, WorkType
    <2>3. CASE task[w].id \notin DOMAIN book[tm[w]]
        <3>1. pc' \in [Workers -> Pcs]
            BY <1>6, <1>a, <2>3 DEF GetAndRemoveTask, Pcs
        <3>2. task' = [task EXCEPT ![w] = NoTask] /\ cube' = cube
            BY <1>6, <2>3 DEF GetAndRemoveTask
        <3>3. task' \in [Workers -> Payloads]
            BY <1>0, <3>2, PayloadFacts, Zenon DEF WorkType
        <3> QED
            BY <1>0, <2>1, <3>1, <3>2, <3>3 DEF WorkType
    <2> QED
        BY <2>2, <2>3
<1>7. ASSUME NEW w \in Workers, SplitTimedOut(w) PROVE WorkType'
    <2>1. pc' \in [Workers -> Pcs] /\ current' = current
        BY <1>7, <1>a DEF SplitTimedOut, Pcs, solveVars
    <2>2. PICK half \in SUBSET cube[w] : todo' = [todo EXCEPT ![w] = <<half, cube[w] \ half>>]
        BY <1>7 DEF SplitTimedOut
    <2>3. <<half, cube[w] \ half>> \in Seq(SUBSET Model)
        BY <1>0, <2>2 DEF WorkType
    <2>4. todo' \in [Workers -> Seq(SUBSET Model)]
        BY <1>0, <2>2, <2>3 DEF WorkType
    <2> QED
        BY <1>0, <1>7, <2>1, <2>4, PayloadFacts DEF SplitTimedOut, WorkType
<1>8. ASSUME NEW w \in Workers, EnqueueHalf(w) PROVE WorkType'
    <2>1. pc' \in [Workers -> Pcs] /\ current' = current
        BY <1>8, <1>a DEF EnqueueHalf, Pcs, solveVars
    <2>2. todo[w] # <<>> /\ todo[w] \in Seq(SUBSET Model)
        BY <1>0, <1>8 DEF EnqueueHalf, Flow, WorkType
    <2>3. Tail(todo[w]) \in Seq(SUBSET Model)
        BY <2>2, HeadAndTail
    <2>4. todo' \in [Workers -> Seq(SUBSET Model)]
        BY <1>0, <1>8, <2>3 DEF EnqueueHalf, WorkType
    <2> QED
        BY <1>0, <1>8, <2>1, <2>4 DEF EnqueueHalf, WorkType
<1>9. ASSUME NEW w \in Workers, AddCount(w) PROVE WorkType'
    <2>1. pc' \in [Workers -> Pcs] /\ current' = current
        BY <1>9, <1>a DEF AddCount, Pcs, solveVars
    <2>2. /\ task' = [task EXCEPT ![w] = NoTask] /\ recv' = [recv EXCEPT ![w] = 0]
          /\ cube' = [cube EXCEPT ![w] = {}] /\ UNCHANGED <<tm, timedOut, todo>>
        BY <1>9 DEF AddCount
    <2>3. NoTask \in Payloads /\ 0 \in 0..current
        BY <1>0, PayloadFacts
    <2> QED
        BY <1>0, <2>1, <2>2, <2>3 DEF WorkType
<1>10. ASSUME UNCHANGED <<current, pc, workVars>> PROVE WorkType'
    BY <1>0, <1>10 DEF WorkType, workVars
<1> QED
    BY <1>1, <1>2, <1>3, <1>4, <1>5, <1>6, <1>7, <1>8, <1>9, <1>10, NextCases
    DEF SolveEnqueue, SolveReceiveDone, SolveLogResult, vars, solveVars

\* What SplitTimedOut hands to EnqueueCubes: two sets of models that have
\* nothing in common, and together are the cube.
LEMMA SplitFacts ==
    ASSUME WorkType, NEW w \in Workers, SplitTimedOut(w)
    PROVE  \E h \in SUBSET cube[w] :
              /\ todo' = [todo EXCEPT ![w] = <<h, cube[w] \ h>>]
              /\ todo'[w] = <<h, cube[w] \ h>> /\ Len(todo'[w]) = 2
              /\ todo'[w][1] = h /\ todo'[w][2] = cube[w] \ h /\ todo'[w] # <<>>
              /\ DOMAIN todo'[w] = {1, 2}
              /\ \A v \in Workers : v # w => todo'[v] = todo[v]
<1>1. PICK h \in SUBSET cube[w] : todo' = [todo EXCEPT ![w] = <<h, cube[w] \ h>>]
    BY DEF SplitTimedOut
<1>2. todo'[w] = <<h, cube[w] \ h>> /\ \A v \in Workers : v # w => todo'[v] = todo[v]
    BY <1>1 DEF WorkType
<1> DEFINE s == <<h, cube[w] \ h>>
<1>3. Len(s) = 2 /\ s[1] = h /\ s[2] = cube[w] \ h /\ s # <<>> /\ DOMAIN s = {1, 2}
    OBVIOUS
<1> QED
    BY <1>1, <1>2, <1>3

\* What EnqueueHalf leaves: the rest of todo.
LEMMA HalfFacts ==
    ASSUME WorkType, Flow, NEW w \in Workers, EnqueueHalf(w)
    PROVE  /\ todo[w] # <<>> /\ todo[w] \in Seq(SUBSET Model) /\ Len(todo[w]) \in 1..2
           /\ Head(todo[w]) \in SUBSET Model /\ Head(todo[w]) = todo[w][1]
           /\ todo' = [todo EXCEPT ![w] = Tail(todo[w])]
           /\ todo'[w] = Tail(todo[w]) /\ todo'[w] \in Seq(SUBSET Model)
           /\ Len(todo'[w]) = Len(todo[w]) - 1
           /\ Len(todo[w]) = 1 => todo'[w] = <<>> /\ DOMAIN todo[w] = {1}
           /\ Len(todo[w]) = 2 => /\ todo'[w] # <<>> /\ DOMAIN todo[w] = {1, 2}
                                  /\ DOMAIN todo'[w] = {1} /\ todo'[w][1] = todo[w][2]
           /\ \A v \in Workers : v # w => todo'[v] = todo[v]
<1>1. /\ todo[w] # <<>> /\ todo[w] \in Seq(SUBSET Model) /\ Len(todo[w]) <= 2
      /\ todo' = [todo EXCEPT ![w] = Tail(todo[w])]
    BY DEF EnqueueHalf, Flow, WorkType
<1>2. /\ Head(todo[w]) \in SUBSET Model /\ Head(todo[w]) = todo[w][1]
      /\ Tail(todo[w]) \in Seq(SUBSET Model) /\ Len(todo[w]) \in Nat \ {0}
      /\ Len(Tail(todo[w])) = Len(todo[w]) - 1
      /\ \A i \in DOMAIN Tail(todo[w]) : Tail(todo[w])[i] = todo[w][i + 1]
      /\ Tail(todo[w]) = <<>> <=> Len(todo[w]) = 1
    BY <1>1, HeadAndTail
<1>3. todo'[w] = Tail(todo[w]) /\ \A v \in Workers : v # w => todo'[v] = todo[v]
    BY <1>1 DEF WorkType
<1>4. DOMAIN todo[w] = 1..Len(todo[w]) /\ DOMAIN Tail(todo[w]) = 1..Len(Tail(todo[w]))
    BY <1>1, <1>2
<1>5. Len(todo[w]) = 1 => DOMAIN todo[w] = {1}
    BY <1>4
<1>6. ASSUME Len(todo[w]) = 2
      PROVE  /\ DOMAIN todo[w] = {1, 2} /\ DOMAIN Tail(todo[w]) = {1}
             /\ Tail(todo[w])[1] = todo[w][2]
    <2>1. DOMAIN todo[w] = {1, 2} /\ DOMAIN Tail(todo[w]) = {1}
        BY <1>2, <1>4, <1>6
    <2>2. 1 \in DOMAIN Tail(todo[w]) /\ 1 + 1 = 2
        BY <2>1
    <2> QED
        BY <1>2, <2>1, <2>2
<1>7. Len(todo[w]) \in 1..2
    <2> DEFINE n == Len(todo[w])
    <2>1. n \in Nat /\ n # 0 /\ n <= 2
        BY <1>1, <1>2
    <2> HIDE DEF n
    <2>2. n \in 1..2
        BY <2>1
    <2> QED
        BY <2>2 DEF n
<1>8. Len(todo[w]) = 1 => Tail(todo[w]) = <<>>
    BY <1>2
<1>9. Len(todo[w]) = 2 => Tail(todo[w]) # <<>>
    BY <1>2
<1>10. /\ todo'[w] \in Seq(SUBSET Model) /\ Len(todo'[w]) = Len(todo[w]) - 1
       /\ Len(todo[w]) = 1 => todo'[w] = <<>> /\ DOMAIN todo[w] = {1}
    BY <1>2, <1>3, <1>5, <1>8, Zenon
<1>11. Len(todo[w]) = 2 => /\ todo'[w] # <<>> /\ DOMAIN todo[w] = {1, 2}
                           /\ DOMAIN todo'[w] = {1} /\ todo'[w][1] = todo[w][2]
    BY <1>3, <1>6, <1>9, Zenon
<1> QED
    BY <1>1, <1>2, <1>3, <1>7, <1>10, <1>11, Zenon

\* Where Solve is.
LEMMA SolveFlowStep ==
    TypeOK /\ Flow /\ [Next]_vars =>
        /\ Len(rows') = IF spc' = "next" THEN current' ELSE current' - 1
        /\ spc' = "enqueue" <=> stodo' # <<>>
        /\ \A k \in Files : k > current' => total'[k] = 0
<1> SUFFICES ASSUME TypeOK, Flow, [Next]_vars
             PROVE  /\ Len(rows') = IF spc' = "next" THEN current' ELSE current' - 1
                    /\ spc' = "enqueue" <=> stodo' # <<>>
                    /\ \A k \in Files : k > current' => total'[k] = 0
    OBVIOUS
<1>0. /\ ServerType /\ WorkType /\ SolveType /\ current \in Nat
      /\ Len(rows) = IF spc = "next" THEN current ELSE current - 1
      /\ spc = "enqueue" <=> stodo # <<>>
      /\ \A k \in Files : k > current => total[k] = 0
      /\ \A k \in Files : k \in Nat
    BY FileFacts, ProblemFacts DEF TypeOK, Flow
<1>1. CASE SolveReset
    <2>1. current + 1 \in Files
        BY <1>0, <1>1, ProblemFacts DEF SolveReset, SolveType
    <2>2. Problems[current + 1] # <<>>
        BY <2>1, ProblemFacts
    <2> QED
        BY <1>0, <1>1, <2>2 DEF SolveReset
<1>2. CASE SolveEnqueue
    <2>1. stodo # <<>> /\ stodo \in Seq(SUBSET Model)
        BY <1>0, <1>2 DEF SolveEnqueue, SolveType
    <2>2. Tail(stodo) = <<>> <=> Len(stodo) = 1
        BY <2>1, HeadAndTail
    <2> QED
        BY <1>0, <1>2, <2>2 DEF SolveEnqueue
<1>3. CASE SolveReceiveDone
    BY <1>0, <1>3 DEF SolveReceiveDone
<1>4. CASE SolveLogResult
    <2>1. Len(rows') = Len(rows) + 1
        BY <1>0, <1>4 DEF SolveLogResult, SolveType
    <2> QED
        BY <1>0, <1>4, <2>1 DEF SolveLogResult
<1>5. ASSUME NEW w \in Workers, AddCount(w)
      PROVE  /\ UNCHANGED solveVars
             /\ \A k \in Files : k > current' => total'[k] = 0
    <2>1. UNCHANGED solveVars /\ UNCHANGED current
        BY <1>5 DEF AddCount, solveVars
    <2>2. ASSUME NEW k \in Files, k > current PROVE total'[k] = total[k]
        <3>1. recv[w] \in 0..current
            BY <1>0 DEF WorkType
        <3>2. k # recv[w]
            BY <1>0, <2>2, <3>1
        <3> QED
            BY <1>0, <1>5, <3>2 DEF AddCount, ServerType
    <2> QED
        BY <1>0, <2>1, <2>2
<1>6. CASE \/ \E w \in Workers : GetTask(w) \/ GetTaskPop(w) \/ GetTaskTimeout(w) \/ Ganak(w)
           \/ \E w \in Workers : ReadManager(w) \/ GetAndRemoveTask(w) \/ CountTimeout(w)
           \/ \E w \in Workers : SplitTimedOut(w) \/ EnqueueHalf(w) \/ LoadTotal(w)
           \/ \E w \in Workers : CompleteTask(w) \/ ReadActive(w) \/ ReadQueueAndSignal(w)
           \/ UNCHANGED vars
    <2>1. UNCHANGED <<total, solveVars>>
        BY <1>6
        DEF GetTask, GetTaskPop, GetTaskTimeout, Ganak, ReadManager, GetAndRemoveTask,
            CountTimeout, SplitTimedOut, EnqueueHalf, LoadTotal, CompleteTask,
            ReadActive, ReadQueueAndSignal, vars
    <2> QED
        BY <1>0, <2>1 DEF solveVars
<1> QED
    BY <1>0, <1>1, <1>2, <1>3, <1>4, <1>5, <1>6, NextCases DEF solveVars

\* Where the handlers are.
WorkFlow(w) ==
    /\ pc[w] # "idle" => tm[w] > 0
    /\ pc[w] = "adding" => recv[w] > 0
    /\ pc[w] = "enqueue" <=> todo[w] # <<>>
    /\ Len(todo[w]) <= 2
    /\ Len(todo[w]) = 2 => todo[w][1] \cap todo[w][2] = {}

LEMMA WorkFlowStep == TypeOK /\ Flow /\ [Next]_vars => \A w \in Workers : WorkFlow(w)'
<1> SUFFICES ASSUME TypeOK, Flow, [Next]_vars, NEW v \in Workers PROVE WorkFlow(v)'
    OBVIOUS
<1>0. WorkType /\ SolveType /\ WorkFlow(v) /\ \A w \in Workers : pc[w] # "idle" => current > 0
    <2>1. WorkType /\ SolveType
        BY DEF TypeOK
    <2>2. \A w \in Workers : pc[w] # "idle" => current > 0
        BY <2>1, FileFacts, ProblemFacts
    <2> QED
        BY <2>1, <2>2 DEF Flow, WorkFlow
\* A step of another worker.
<1>a. ASSUME NEW w \in Workers, v # w, NEW l, Goto(w, l), tm'[v] = tm[v], recv'[v] = recv[v],
             todo'[v] = todo[v]
      PROVE  WorkFlow(v)'
    <2>1. pc'[v] = pc[v]
        BY <1>0, <1>a DEF Goto, WorkType
    <2> QED
        BY <1>0, <1>a, <2>1 DEF WorkFlow
<1>b. ASSUME NEW w \in Workers, NEW l, Goto(w, l) PROVE pc'[w] = l
    BY <1>0, <1>b DEF Goto, WorkType
<1>1. ASSUME NEW w \in Workers, GetTask(w) \/ ReadManager(w) PROVE WorkFlow(v)'
    <2>1. /\ current > 0
          /\ tm' = [tm EXCEPT ![w] = current] /\ UNCHANGED <<recv, todo>>
          /\ pc[w] \in {"idle", "submit"} /\ (Goto(w, "select") \/ Goto(w, "remove"))
        BY <1>0, <1>1 DEF GetTask, ReadManager
    <2>2. CASE v # w
        <3>1. tm'[v] = tm[v]
            BY <1>0, <2>1, <2>2 DEF WorkType
        <3> QED
            BY <1>a, <2>1, <2>2, <3>1
    <2>3. CASE v = w
        <3>1. tm'[v] = current /\ pc'[v] \in {"select", "remove"}
            BY <1>0, <1>b, <2>1, <2>3 DEF WorkType
        <3> QED
            BY <1>0, <2>1, <2>3, <3>1 DEF WorkFlow
    <2> QED
        BY <2>2, <2>3
<1>2. ASSUME NEW w \in Workers,
             \/ GetTaskPop(w) \/ GetTaskTimeout(w) \/ Ganak(w) \/ GetAndRemoveTask(w)
             \/ CountTimeout(w) \/ CompleteTask(w) \/ ReadActive(w) \/ ReadQueueAndSignal(w)
      PROVE  WorkFlow(v)'
    <2>1. UNCHANGED <<tm, recv, todo>> /\ pc[w] \notin {"idle", "enqueue", "adding"}
        BY <1>2 DEF GetTaskPop, GetTaskTimeout, Ganak, GetAndRemoveTask, CountTimeout,
                    CompleteTask, ReadActive, ReadQueueAndSignal, workVars
    <2>2. \E l \in Pcs \ {"enqueue", "adding"} : Goto(w, l)
        BY <1>2 DEF GetTaskPop, GetTaskTimeout, Ganak, GetAndRemoveTask, CountTimeout,
                    CompleteTask, ReadActive, ReadQueueAndSignal, Pcs
    <2>3. PICK l \in Pcs \ {"enqueue", "adding"} : Goto(w, l)
        BY <2>2
    <2>4. CASE v # w
        BY <1>a, <2>1, <2>3, <2>4
    <2>5. CASE v = w
        <3>1. pc'[v] = l
            BY <1>b, <2>3, <2>5
        <3> QED
            BY <1>0, <2>1, <2>5, <3>1 DEF WorkFlow
    <2> QED
        BY <2>4, <2>5
<1>3. ASSUME NEW w \in Workers, SplitTimedOut(w) PROVE WorkFlow(v)'
    <2>1. /\ UNCHANGED <<tm, recv>> /\ pc[w] = "split" /\ Goto(w, "enqueue")
        BY <1>3 DEF SplitTimedOut
    <2>2. PICK h \in SUBSET cube[w] :
              /\ Len(todo'[w]) = 2
              /\ todo'[w][1] = h /\ todo'[w][2] = cube[w] \ h /\ todo'[w] # <<>>
              /\ \A u \in Workers : u # w => todo'[u] = todo[u]
        BY <1>0, <1>3, SplitFacts
    <2>3. CASE v # w
        BY <1>a, <2>1, <2>2, <2>3
    <2>4. CASE v = w
        <3>1. pc'[v] = "enqueue" /\ todo'[v][1] \cap todo'[v][2] = {}
            BY <1>b, <2>1, <2>2, <2>4
        <3>2. /\ tm'[v] = tm[v] /\ recv'[v] = recv[v] /\ pc[v] = "split"
              /\ Len(todo'[v]) = 2 /\ todo'[v] # <<>>
            BY <2>1, <2>2, <2>4
        <3>3. tm'[v] > 0
            BY <1>0, <3>2 DEF WorkFlow
        <3> QED
            BY <3>1, <3>2, <3>3 DEF WorkFlow
    <2> QED
        BY <2>3, <2>4
<1>4. ASSUME NEW w \in Workers, EnqueueHalf(w) PROVE WorkFlow(v)'
    <2>1. /\ UNCHANGED <<tm, recv>> /\ pc[w] = "enqueue"
          /\ Goto(w, IF Len(todo[w]) = 1 THEN "readActive" ELSE "enqueue")
        BY <1>4 DEF EnqueueHalf
    <2>2. /\ Len(todo[w]) \in 1..2 /\ Len(todo'[w]) = Len(todo[w]) - 1
          /\ Len(todo[w]) = 1 => todo'[w] = <<>>
          /\ Len(todo[w]) = 2 => todo'[w] # <<>>
          /\ \A u \in Workers : u # w => todo'[u] = todo[u]
        BY <1>0, <1>4, HalfFacts
    <2>3. CASE v # w
        BY <1>a, <2>1, <2>2, <2>3
    <2>4. CASE v = w
        <3>1. pc'[v] = IF Len(todo[v]) = 1 THEN "readActive" ELSE "enqueue"
            BY <1>b, <2>1, <2>4
        <3>2. tm'[v] = tm[v] /\ recv'[v] = recv[v] /\ pc[v] # "idle" /\ pc[v] # "adding"
            BY <2>1, <2>4
        <3>3. CASE Len(todo[v]) = 1
            <4>1. pc'[v] = "readActive" /\ todo'[v] = <<>> /\ Len(todo'[v]) = 0
                BY <2>2, <2>4, <3>1, <3>3
            <4> QED
                BY <1>0, <3>2, <4>1 DEF WorkFlow
        <3>4. CASE Len(todo[v]) = 2
            <4>1. pc'[v] = "enqueue" /\ todo'[v] # <<>> /\ Len(todo'[v]) = 1
                BY <2>2, <2>4, <3>1, <3>4
            <4> QED
                BY <1>0, <3>2, <4>1 DEF WorkFlow
        <3> QED
            BY <2>2, <2>4, <3>3, <3>4
    <2> QED
        BY <2>3, <2>4
<1>5. ASSUME NEW w \in Workers, LoadTotal(w) \/ AddCount(w) PROVE WorkFlow(v)'
    <2>1. /\ UNCHANGED <<tm, todo>> /\ pc[w] \in {"removed", "adding"} /\ current > 0
          /\ \/ Goto(w, "adding") /\ recv' = [recv EXCEPT ![w] = current]
             \/ Goto(w, "added") /\ recv' = [recv EXCEPT ![w] = 0]
        BY <1>0, <1>5 DEF LoadTotal, AddCount
    <2>2. CASE v # w
        <3>1. recv'[v] = recv[v]
            BY <1>0, <2>1, <2>2 DEF WorkType
        <3> QED
            BY <1>a, <2>1, <2>2, <3>1
    <2>3. CASE v = w
        <3>1. \/ pc'[v] = "adding" /\ recv'[v] = current
              \/ pc'[v] = "added"
            BY <1>0, <1>b, <2>1, <2>3 DEF WorkType
        <3> QED
            BY <1>0, <2>1, <2>3, <3>1 DEF WorkFlow
    <2> QED
        BY <2>2, <2>3
<1>6. ASSUME UNCHANGED <<pc, workVars>> PROVE WorkFlow(v)'
    BY <1>0, <1>6 DEF WorkFlow, workVars
<1> QED
    BY <1>1, <1>2, <1>3, <1>4, <1>5, <1>6, NextCases
    DEF SolveReset, SolveEnqueue, SolveReceiveDone, SolveLogResult, vars

LEMMA FlowStep == TypeOK /\ Flow /\ [Next]_vars => Flow'
BY SolveFlowStep, WorkFlowStep DEF Flow, WorkFlow

\* Solve enqueues the cubes of the file in their order.
LEMMA SuffixStep == TypeOK /\ Flow /\ Suffix /\ [Next]_vars => Suffix'
<1> SUFFICES ASSUME TypeOK, Flow, Suffix, [Next]_vars PROVE Suffix'
    OBVIOUS
<1>0. SolveType /\ WorkType /\ current \in Nat
    BY FileFacts DEF TypeOK
<1>1. CASE SolveReset
    <2>1. current + 1 \in Files /\ current' = current + 1 /\ stodo' = Problems[current + 1]
        BY <1>0, <1>1, ProblemFacts DEF SolveReset, SolveType
    <2>2. Problems[current + 1] \in Seq(SUBSET Model)
        BY <2>1, ProblemFacts
    <2>3. Len(stodo') \in Nat /\ DOMAIN stodo' = 1..Len(stodo')
        BY <2>1, <2>2
    <2>4. \A j \in DOMAIN stodo' : Len(stodo') - Len(stodo') + j = j
        BY <2>3
    <2> QED
        BY <2>1, <2>3, <2>4 DEF Suffix
<1>2. CASE SolveEnqueue
    <2>1. /\ stodo # <<>> /\ stodo \in Seq(SUBSET Model) /\ current \in Files
          /\ stodo' = Tail(stodo) /\ current' = current
        BY <1>0, <1>2, FileFacts DEF SolveEnqueue, SolveType, Flow
    <2>2. /\ Len(stodo) \in Nat \ {0} /\ Len(Tail(stodo)) = Len(stodo) - 1
          /\ \A i \in DOMAIN Tail(stodo) : i + 1 \in DOMAIN stodo /\ Tail(stodo)[i] = stodo[i + 1]
          /\ Tail(stodo) \in Seq(SUBSET Model)
        BY <2>1, HeadAndTail
    <2>3. Len(Problems[current]) \in Nat
        BY <2>1, ProblemFacts
    <2>4. /\ Len(stodo) <= Len(Problems[current])
          /\ \A j \in DOMAIN stodo :
                stodo[j] = Problems[current][Len(Problems[current]) - Len(stodo) + j]
        BY <2>1 DEF Suffix
    <2>5. ASSUME NEW i \in DOMAIN Tail(stodo)
          PROVE  Tail(stodo)[i] = Problems[current][Len(Problems[current]) - Len(Tail(stodo)) + i]
        <3>1. i \in Nat
            BY <2>2
        <3>2. Len(Problems[current]) - Len(stodo) + (i + 1)
                 = Len(Problems[current]) - Len(Tail(stodo)) + i
            BY <2>2, <2>3, <3>1
        <3> QED
            BY <2>2, <2>4, <3>2
    <2> QED
        BY <2>1, <2>2, <2>3, <2>4, <2>5 DEF Suffix
<1>3. CASE UNCHANGED <<current, stodo>>
    BY <1>3 DEF Suffix
<1> QED
    BY <1>1, <1>2, <1>3, NextCases
    DEF SolveReceiveDone, SolveLogResult, GetTask, GetTaskPop, GetTaskTimeout, Ganak,
        ReadManager, GetAndRemoveTask, CountTimeout, SplitTimedOut, EnqueueHalf, LoadTotal,
        AddCount, CompleteTask, ReadActive, ReadQueueAndSignal, vars, solveVars

-----------------------------------------------------------------------------
LEMMA InitShape == Init => Shape
<1> SUFFICES ASSUME Init PROVE Shape
    OBVIOUS
<1>1. ManagerType
    BY DEF Init, ManagerType
<1>2. ServerType
    BY DEF Init, ServerType
<1>3. SolveType
    <2>1. 0 \in 0..Len(Problems)
        BY ProblemFacts
    <2>2. /\ <<>> \in Seq(SUBSET Model)
          /\ <<>> \in Seq([count : Nat, completed : Nat, timedOut : Nat, total : Nat])
        BY EmptySeq
    <2>3. current = 0 /\ spc = "next" /\ stodo = <<>> /\ rows = <<>> /\ early = FALSE
        BY DEF Init
    <2> QED
        BY <2>1, <2>2, <2>3 DEF SolveType
<1>4. WorkType
    <2>1. NoTask \in Payloads
        BY PayloadFacts
    <2> QED
        BY <2>1 DEF Init, WorkType, Pcs
<1>5. Flow /\ Suffix
    BY DEF Init, Flow, Suffix
<1> QED
    BY <1>1, <1>2, <1>3, <1>4, <1>5 DEF Shape, TypeOK

LEMMA ShapeStep == Shape /\ [Next]_vars => Shape'
BY ManagerTypeStep, ServerTypeStep, SolveTypeStep, WorkTypeStep, FlowStep, SuffixStep
DEF Shape, TypeOK

\* The type invariant of the batch, whatever Solve and the handlers of the
\* files do: in particular a handler never adds to, or enqueues into, the
\* state of a file that Solve has not begun.
THEOREM TypeCorrect == Spec => []TypeOK
<1>1. Spec => []Shape
    BY InitShape, ShapeStep, PTL DEF Spec
<1>2. Shape => TypeOK
    BY DEF Shape
<1> QED
    BY <1>1, <1>2, PTL

-----------------------------------------------------------------------------
(***************************************************************************)
(* Only the current file has tasks.                                        *)
(***************************************************************************)
\* The step of one worker leaves the others where they are.
LEMMA GotoFacts ==
    ASSUME WorkType, NEW w \in Workers, NEW l, Goto(w, l)
    PROVE  pc'[w] = l /\ \A v \in Workers : v # w => pc'[v] = pc[v]
BY DEF Goto, WorkType

\* A task that is popped is one of the current file.
LEMMA PopFacts ==
    ASSUME Shape, OneFile, OnePlace, NEW w \in Workers, GetTaskPop(w)
    PROVE  /\ tm[w] = current /\ current \in Files /\ spc # "next"
           /\ queue[current] # <<>> /\ queue[current] \in Seq(Payloads)
           /\ task'[w] = queue[current][1]
           /\ InBook(current, queue[current][1])
           /\ queue'[current] = Tail(queue[current])
           /\ \A k \in Files : k # current => queue'[k] = queue[k]
           /\ \A v \in Workers : v # w => task'[v] = task[v]
           /\ UNCHANGED <<book, current, spc>>
<1> DEFINE k == tm[w]
<1>0. ManagerType /\ WorkType /\ SolveType /\ Flow
    BY DEF Shape, TypeOK
<1>1. k \in Files /\ pc[w] = "select" /\ queue[k] # <<>>
    BY <1>0, FileFacts DEF GetTaskPop
<1>2. queue[k] \in Seq(Payloads)
    BY <1>0, <1>1 DEF ManagerType
<1>3. 1 \in DOMAIN queue[k] /\ Head(queue[k]) = queue[k][1]
    BY <1>1, <1>2, HeadAndTail
<1>4. InBook(k, queue[k][1])
    BY <1>1, <1>3 DEF OnePlace
<1>5. DOMAIN book[k] # {}
    BY <1>4 DEF InBook
<1>6. k = current /\ spc # "next"
    BY <1>1, <1>5 DEF OneFile, OneBook
<1>7. /\ task' = [task EXCEPT ![w] = Head(queue[k])]
      /\ queue' = [queue EXCEPT ![k] = Tail(queue[k])]
      /\ UNCHANGED <<book, current, spc>>
    BY DEF GetTaskPop, solveVars
<1>8. task'[w] = Head(queue[k]) /\ \A v \in Workers : v # w => task'[v] = task[v]
    BY <1>0, <1>7, Zenon DEF WorkType
<1>9. queue'[k] = Tail(queue[k]) /\ \A j \in Files : j # k => queue'[j] = queue[j]
    BY <1>0, <1>1, <1>7, Zenon DEF ManagerType
<1> HIDE DEF k
<1> QED
    BY <1>1, <1>2, <1>3, <1>4, <1>6, <1>7, <1>8, <1>9 DEF k

\* A result finds its task in the book of the current file.
LEMMA RemoveFacts ==
    ASSUME Shape, OneFile, OnePlace, NEW w \in Workers, GetAndRemoveTask(w)
    PROVE  /\ tm[w] = current /\ current \in Files /\ spc # "next"
           /\ InBook(current, task[w])
           /\ DOMAIN book'[current] = DOMAIN book[current] \ {task[w].id}
           /\ \A i \in DOMAIN book'[current] : book'[current][i] = book[current][i]
           /\ \A k \in Files : k # current => book'[k] = book[k]
           /\ cube'[w] = task[w].cube
           /\ \A v \in Workers : v # w => cube'[v] = cube[v]
           /\ Goto(w, "removed")
           /\ UNCHANGED <<queue, task, tm, recv, current, spc>>
<1>0. ManagerType /\ WorkType /\ SolveType /\ Flow
    BY DEF Shape, TypeOK
<1>1. pc[w] = "remove" /\ Serving(w)
    BY DEF GetAndRemoveTask, Serving
<1>2. current \in Files
    BY <1>0, <1>1, FileFacts
<1>3. tm[w] = current /\ spc # "next"
    BY <1>1 DEF OneFile, OwnFile
<1>4. InBook(current, task[w])
    BY <1>1 DEF OnePlace
<1>5. task[w].id \in DOMAIN book[tm[w]] /\ book[current][task[w].id] = task[w].cube
    BY <1>3, <1>4 DEF InBook
<1>6. /\ book' = [book EXCEPT ![current] = [i \in DOMAIN book[current] \ {task[w].id} |->
                                               book[current][i]]]
      /\ cube' = [cube EXCEPT ![w] = task[w].cube]
      /\ Goto(w, "removed")
      /\ UNCHANGED <<queue, task, tm, recv, current, spc>>
    BY <1>3, <1>5 DEF GetAndRemoveTask, solveVars
<1>7. /\ DOMAIN book'[current] = DOMAIN book[current] \ {task[w].id}
      /\ \A i \in DOMAIN book'[current] : book'[current][i] = book[current][i]
      /\ \A k \in Files : k # current => book'[k] = book[k]
    BY <1>0, <1>2, <1>6 DEF ManagerType
<1>8. cube'[w] = task[w].cube /\ \A v \in Workers : v # w => cube'[v] = cube[v]
    BY <1>0, <1>6, Zenon DEF WorkType
<1> QED
    BY <1>2, <1>3, <1>4, <1>6, <1>7, <1>8

\* A half is enqueued into the current file.
LEMMA HalfFile ==
    ASSUME Shape, OneFile, NEW w \in Workers, EnqueueHalf(w)
    PROVE  /\ tm[w] = current /\ current \in Files /\ spc # "next"
           /\ Enqueue(current, todo[w][1]) /\ todo[w][1] \in SUBSET Model
           /\ UNCHANGED <<current, spc, task, tm, cube, recv>>
<1>0. WorkType /\ SolveType /\ Flow
    BY DEF Shape, TypeOK
<1>1. Handling(w) /\ pc[w] # "idle"
    BY DEF EnqueueHalf, Handling
<1>2. tm[w] = current /\ spc # "next" /\ current \in Files
    BY <1>0, <1>1, FileFacts DEF OneFile, OwnFile
<1>3. Head(todo[w]) \in SUBSET Model /\ Head(todo[w]) = todo[w][1]
    BY <1>0, HalfFacts
<1> QED
    BY <1>2, <1>3 DEF EnqueueHalf, solveVars

\* When Solve logs on time, nothing of the file is left.
LEMMA LogFacts ==
    ASSUME OneFile, OnePlace, SolveLogResult, ~early'
    PROVE  /\ DOMAIN book[current] = {}
           /\ \A w \in Workers : ~Serving(w) /\ ~Handling(w)
<1>1. ~Unfinished(current)
    BY DEF SolveLogResult
<1>2. DOMAIN book[current] = {}
    BY <1>1 DEF Unfinished
<1>3. ASSUME NEW w \in Workers PROVE ~Serving(w) /\ ~Handling(w)
    <2>1. ~Serving(w)
        BY <1>2 DEF OnePlace, InBook
    <2>2. ~Handling(w)
        BY <1>1 DEF Unfinished, OneFile, OwnFile, Handling
    <2> QED
        BY <2>1, <2>2
<1> QED
    BY <1>2, <1>3

\* The books.
LEMMA OneBookStep ==
    ASSUME Shape, OneFile, OnePlace, [Next]_vars, ~early'
    PROVE  OneBook'
<1>0. ManagerType /\ SolveType /\ WorkType /\ Flow
    BY DEF Shape, TypeOK
<1>1. CASE SolveReset
    BY <1>1 DEF SolveReset, managerVars, OneFile, OneBook
<1>2. CASE SolveEnqueue
    <2>1. /\ spc = "enqueue" /\ stodo # <<>> /\ spc' # "next" /\ current' = current
          /\ Enqueue(current, Head(stodo))
        BY <1>0, <1>2 DEF SolveEnqueue, Flow
    <2>2. current \in Files /\ Head(stodo) \in SUBSET Model
        BY <1>0, <2>1, FileFacts, HeadAndTail DEF SolveType
    <2>3. \A k \in Files : k # current => book'[k] = book[k]
        BY <1>0, <2>1, <2>2, AddTaskType
    <2> QED
        BY <2>1, <2>3 DEF OneFile, OneBook
<1>3. CASE SolveReceiveDone
    BY <1>3 DEF SolveReceiveDone, managerVars, OneFile, OneBook
<1>4. CASE SolveLogResult
    <2>1. DOMAIN book[current] = {}
        BY <1>4, LogFacts
    <2>2. UNCHANGED <<book, current>>
        BY <1>4 DEF SolveLogResult, managerVars
    <2> QED
        BY <2>1, <2>2 DEF OneFile, OneBook
<1>5. ASSUME NEW w \in Workers, EnqueueHalf(w) PROVE OneBook'
    <2>1. /\ current \in Files /\ spc # "next" /\ UNCHANGED <<current, spc>>
          /\ Enqueue(current, todo[w][1]) /\ todo[w][1] \in SUBSET Model
        BY <1>5, HalfFile
    <2>2. \A k \in Files : k # current => book'[k] = book[k]
        BY <1>0, <2>1, AddTaskType
    <2> QED
        BY <2>1, <2>2 DEF OneFile, OneBook
<1>6. ASSUME NEW w \in Workers, GetAndRemoveTask(w) PROVE OneBook'
    <2>1. /\ spc # "next" /\ UNCHANGED <<current, spc>>
          /\ \A k \in Files : k # current => book'[k] = book[k]
        BY <1>6, RemoveFacts
    <2> QED
        BY <2>1 DEF OneFile, OneBook
<1>7. CASE UNCHANGED <<book, current, spc>>
    BY <1>7 DEF OneFile, OneBook
<1> QED
    BY <1>1, <1>2, <1>3, <1>4, <1>5, <1>6, <1>7, NextCases
    DEF GetTask, GetTaskPop, GetTaskTimeout, Ganak, ReadManager, CountTimeout,
        SplitTimedOut, LoadTotal, AddCount, CompleteTask, ReadActive, ReadQueueAndSignal,
        vars, solveVars, managerVars

\* What the handlers have read.
LEMMA OwnFileStep ==
    ASSUME Shape, OneFile, OnePlace, [Next]_vars, ~early', NEW v \in Workers
    PROVE  OwnFile(v)'
<1>0. WorkType /\ SolveType /\ Flow /\ OwnFile(v)
    BY DEF Shape, TypeOK, OneFile
\* A step of another worker, or of Solve within a file.
<1>a. ASSUME pc'[v] = pc[v], tm'[v] = tm[v], recv'[v] = recv[v], cube'[v] = cube[v],
             task'[v] = task[v], current' = current, spc # "next" => spc' # "next"
      PROVE  OwnFile(v)'
    BY <1>0, <1>a DEF OwnFile, Serving, Handling
<1>b. ASSUME NEW w \in Workers, NEW l, Goto(w, l)
      PROVE  pc'[w] = l /\ (v # w => pc'[v] = pc[v])
    BY <1>0, <1>b, GotoFacts
<1>1. CASE SolveReset
    <2>1. ~Serving(v) /\ ~Handling(v) /\ pc' = pc
        BY <1>0, <1>1 DEF SolveReset, OwnFile
    <2> QED
        BY <2>1 DEF OwnFile, Serving, Handling
<1>2. CASE SolveEnqueue \/ SolveReceiveDone
    BY <1>2, <1>a DEF SolveEnqueue, SolveReceiveDone, workVars
<1>3. CASE SolveLogResult
    <2>1. ~Serving(v) /\ ~Handling(v) /\ pc' = pc
        BY <1>3, LogFacts DEF SolveLogResult
    <2> QED
        BY <2>1 DEF OwnFile, Serving, Handling
<1>4. ASSUME NEW w \in Workers, GetTask(w) \/ ReadManager(w) PROVE OwnFile(v)'
    <2>1. /\ tm' = [tm EXCEPT ![w] = current] /\ UNCHANGED <<recv, cube, task, current, spc>>
          /\ \/ Goto(w, "select")
             \/ Goto(w, "remove") /\ pc[w] = "submit"
        BY <1>4 DEF GetTask, ReadManager, solveVars
    <2>2. CASE v # w
        <3>1. tm'[v] = tm[v]
            BY <1>0, <2>1, <2>2 DEF WorkType
        <3> QED
            BY <1>a, <1>b, <2>1, <2>2, <3>1
    <2>3. CASE v = w
        <3>1. tm'[v] = current
            BY <1>0, <2>1, <2>3 DEF WorkType
        <3>2. pc'[v] = "select" \/ (pc'[v] = "remove" /\ pc[v] = "submit")
            BY <1>b, <2>1, <2>3
        <3> QED
            BY <1>0, <2>1, <3>1, <3>2 DEF OwnFile, Serving, Handling
    <2> QED
        BY <2>2, <2>3
<1>5. ASSUME NEW w \in Workers, GetTaskPop(w) PROVE OwnFile(v)'
    <2>1. /\ spc # "next" /\ UNCHANGED <<current, spc>>
          /\ \A u \in Workers : u # w => task'[u] = task[u]
        BY <1>5, PopFacts
    <2>2. UNCHANGED <<tm, cube, recv>> /\ Goto(w, "solving")
        BY <1>5 DEF GetTaskPop
    <2>3. CASE v # w
        BY <1>a, <1>b, <2>1, <2>2, <2>3
    <2>4. CASE v = w
        <3>1. pc'[v] = "solving"
            BY <1>b, <2>2, <2>4
        <3> QED
            BY <2>1, <3>1 DEF OwnFile, Serving, Handling
    <2> QED
        BY <2>3, <2>4
<1>6. ASSUME NEW w \in Workers, GetAndRemoveTask(w) PROVE OwnFile(v)'
    <2>1. /\ tm[w] = current /\ spc # "next" /\ cube'[w] = task[w].cube
          /\ \A u \in Workers : u # w => cube'[u] = cube[u]
          /\ Goto(w, "removed")
          /\ UNCHANGED <<task, tm, recv, current, spc>>
        BY <1>6, RemoveFacts
    <2>2. CASE v # w
        BY <1>a, <1>b, <2>1, <2>2
    <2>3. CASE v = w
        <3>1. pc'[v] = "removed"
            BY <1>b, <2>1, <2>3
        <3> QED
            BY <2>1, <2>3, <3>1 DEF OwnFile, Serving, Handling
    <2> QED
        BY <2>2, <2>3
<1>7. ASSUME NEW w \in Workers, SplitTimedOut(w) \/ AddCount(w) PROVE OwnFile(v)'
    <2>1. /\ cube' = [cube EXCEPT ![w] = {}] /\ task' = [task EXCEPT ![w] = NoTask]
          /\ UNCHANGED <<tm, current, spc>> /\ Handling(w)
          /\ Goto(w, "enqueue") \/ Goto(w, "added")
          /\ \A u \in Workers : u # w => recv'[u] = recv[u]
        BY <1>0, <1>7 DEF SplitTimedOut, AddCount, solveVars, Handling, WorkType
    <2>2. CASE v # w
        <3>1. cube'[v] = cube[v] /\ task'[v] = task[v]
            BY <1>0, <2>1, <2>2, Zenon DEF WorkType
        <3> QED
            BY <1>a, <1>b, <2>1, <2>2, <3>1
    <2>3. CASE v = w
        <3>1. pc'[v] \in {"enqueue", "added"} /\ Handling(v)
            BY <1>b, <2>1, <2>3
        <3> QED
            BY <1>0, <2>1, <3>1 DEF OwnFile, Serving, Handling
    <2> QED
        BY <2>2, <2>3
<1>8. ASSUME NEW w \in Workers, LoadTotal(w) PROVE OwnFile(v)'
    <2>1. /\ recv' = [recv EXCEPT ![w] = current] /\ Goto(w, "adding") /\ pc[w] = "removed"
          /\ UNCHANGED <<tm, task, cube, current, spc>>
        BY <1>8 DEF LoadTotal, solveVars
    <2>2. CASE v # w
        <3>1. recv'[v] = recv[v]
            BY <1>0, <2>1, <2>2 DEF WorkType
        <3> QED
            BY <1>a, <1>b, <2>1, <2>2, <3>1
    <2>3. CASE v = w
        <3>1. pc'[v] = "adding" /\ pc[v] = "removed" /\ recv'[v] = current
            BY <1>0, <1>b, <2>1, <2>3 DEF WorkType
        <3> QED
            BY <1>0, <2>1, <3>1 DEF OwnFile, Serving, Handling
    <2> QED
        BY <2>2, <2>3
\* A step that only moves on, in the same part of the handler.
<1>9. ASSUME NEW w \in Workers, NEW l, Goto(w, l), UNCHANGED <<current, spc, tm, task, cube, recv>>,
             \/ l \in {"idle", "select", "readActive", "readQueue"}
             \/ l = "submit" /\ pc[w] = "solving"
             \/ l = "split" /\ pc[w] = "removed"
             \/ l = "enqueue" /\ pc[w] = "enqueue"
      PROVE  OwnFile(v)'
    <2>1. CASE v # w
        BY <1>9, <1>a, <1>b, <2>1
    <2>2. CASE v = w
        <3>1. pc'[v] = l
            BY <1>9, <1>b, <2>2
        <3> QED
            BY <1>0, <1>9, <2>2, <3>1 DEF OwnFile, Serving, Handling
    <2> QED
        BY <2>1, <2>2
<1>10. ASSUME NEW w \in Workers,
              \/ GetTaskTimeout(w) \/ Ganak(w) \/ CountTimeout(w)
              \/ CompleteTask(w) \/ ReadActive(w) \/ ReadQueueAndSignal(w)
       PROVE  OwnFile(v)'
    <2>1. UNCHANGED <<current, spc, tm, task, cube, recv>>
        BY <1>10 DEF GetTaskTimeout, Ganak, CountTimeout, CompleteTask, ReadActive,
                     ReadQueueAndSignal, workVars, solveVars
    <2>2. \/ \E l \in {"idle", "readActive", "readQueue"} : Goto(w, l)
          \/ Goto(w, "submit") /\ pc[w] = "solving"
          \/ Goto(w, "split") /\ pc[w] = "removed"
        BY <1>10 DEF GetTaskTimeout, Ganak, CountTimeout, CompleteTask, ReadActive,
                     ReadQueueAndSignal
    <2> QED
        BY <1>9, <2>1, <2>2
<1>11. ASSUME NEW w \in Workers, EnqueueHalf(w) PROVE OwnFile(v)'
    <2>1. UNCHANGED <<current, spc, task, tm, cube, recv>>
        BY <1>11, HalfFile
    <2>2. /\ pc[w] = "enqueue"
          /\ Goto(w, "readActive") \/ Goto(w, "enqueue")
        BY <1>11 DEF EnqueueHalf
    <2> QED
        BY <1>9, <2>1, <2>2
<1>12. CASE UNCHANGED vars
    BY <1>12, <1>a DEF vars, workVars, solveVars
<1> QED
    BY <1>1, <1>2, <1>3, <1>4, <1>5, <1>6, <1>7, <1>8, <1>10, <1>11, <1>12, NextCases

LEMMA OneFileStep ==
    ASSUME Shape, OneFile, OnePlace, [Next]_vars, ~early'
    PROVE  OneFile'
<1>1. OneBook'
    BY OneBookStep
<1>2. \A w \in Workers : OwnFile(w)'
    BY OwnFileStep
<1> QED
    BY <1>1, <1>2 DEF OneFile

-----------------------------------------------------------------------------
(***************************************************************************)
(* A task is in one place.                                                 *)
(***************************************************************************)
\* A step that touches neither the queues nor the books, nor the task of a
\* worker that has one.
LEMMA OnePlaceKept ==
    ASSUME OnePlace, UNCHANGED <<book, queue, current>>,
           \A v \in Workers : Serving(v)' => Serving(v) /\ task'[v] = task[v]
    PROVE  OnePlace'
<1>1. \A k \in Files : \A i \in DOMAIN queue'[k] : InBook(k, queue[k][i])'
    BY DEF OnePlace, InBook
<1>2. \A k \in Files : \A i, j \in DOMAIN queue'[k] : i # j => queue'[k][i].id # queue'[k][j].id
    BY DEF OnePlace
<1>3. \A w \in Workers : Serving(w)' => InBook(current, task[w])'
    BY DEF OnePlace, InBook
<1>4. \A w \in Workers : Serving(w)' =>
         \A i \in DOMAIN queue'[current'] : queue'[current'][i].id # task'[w].id
    BY DEF OnePlace
<1>5. \A v, w \in Workers :
         Serving(v)' /\ Serving(w)' /\ v # w => task'[v].id # task'[w].id
    BY DEF OnePlace
<1> QED
    BY <1>1, <1>2, <1>3, <1>4, <1>5 DEF OnePlace

\* A new task has a new ID.
LEMMA OnePlaceEnqueue ==
    ASSUME ManagerType, OnePlace, current \in Files, UNCHANGED current,
           NEW c \in SUBSET Model, Enqueue(current, c),
           \A v \in Workers : Serving(v)' => Serving(v) /\ task'[v] = task[v]
    PROVE  OnePlace'
<1> DEFINE id == nextID[current] + 1
           t == [file |-> current, id |-> id, cube |-> c]
           q == queue[current]
<1>1. /\ id \notin DOMAIN book[current]
      /\ DOMAIN book'[current] = DOMAIN book[current] \cup {id}
      /\ book'[current][id] = c
      /\ \A i \in DOMAIN book[current] : book'[current][i] = book[current][i]
      /\ queue'[current] = Append(q, t)
      /\ \A j \in Files : j # current => book'[j] = book[j] /\ queue'[j] = queue[j]
    BY AddTaskType
<1>2. q \in Seq(Payloads)
    BY DEF ManagerType
<1>3. t.file = current /\ t.id = id /\ t.cube = c
    OBVIOUS
<1> HIDE DEF id, t, q
<1>4. /\ DOMAIN queue'[current] = DOMAIN q \cup {Len(q) + 1} /\ Len(q) + 1 \notin DOMAIN q
      /\ \A i \in DOMAIN q : queue'[current][i] = q[i]
      /\ queue'[current][Len(q) + 1] = t
    <2>1. Append(q, t) \in Seq(Payloads \cup {t}) /\ Len(q) \in Nat
        BY <1>2
    <2>2. /\ Len(Append(q, t)) = Len(q) + 1
          /\ \A i \in 1..Len(q) : Append(q, t)[i] = q[i]
          /\ Append(q, t)[Len(q) + 1] = t
        BY <1>2
    <2>3. DOMAIN q = 1..Len(q) /\ DOMAIN Append(q, t) = 1..(Len(q) + 1)
        BY <1>2, <2>1, <2>2
    <2> QED
        BY <1>1, <2>1, <2>2, <2>3
<1>5. \A i \in DOMAIN q : /\ q[i].file = current /\ q[i].id \in DOMAIN book[current]
                          /\ book[current][q[i].id] = q[i].cube
    BY DEF OnePlace, InBook, q
<1>6. ASSUME NEW k \in Files, NEW i \in DOMAIN queue'[k] PROVE InBook(k, queue[k][i])'
    <2>1. CASE k # current
        BY <1>1, <1>6, <2>1 DEF OnePlace, InBook
    <2>2. CASE k = current /\ i \in DOMAIN q
        BY <1>1, <1>4, <1>5, <2>2 DEF InBook
    <2>3. CASE k = current /\ i = Len(q) + 1
        BY <1>1, <1>3, <1>4, <2>3 DEF InBook
    <2> QED
        BY <1>4, <1>6, <2>1, <2>2, <2>3
<1>7. ASSUME NEW k \in Files, NEW i \in DOMAIN queue'[k], NEW j \in DOMAIN queue'[k], i # j
      PROVE  queue'[k][i].id # queue'[k][j].id
    <2>1. CASE k # current
        BY <1>1, <1>7, <2>1 DEF OnePlace
    <2>2. CASE k = current /\ i \in DOMAIN q /\ j \in DOMAIN q
        BY <1>4, <1>7, <2>2 DEF OnePlace, q
    <2>3. CASE k = current /\ i \in DOMAIN q /\ j = Len(q) + 1
        BY <1>1, <1>3, <1>4, <1>5, <2>3
    <2>4. CASE k = current /\ i = Len(q) + 1 /\ j \in DOMAIN q
        BY <1>1, <1>3, <1>4, <1>5, <2>4
    <2> QED
        BY <1>4, <1>7, <2>1, <2>2, <2>3, <2>4
<1>8. ASSUME NEW w \in Workers, Serving(w)' PROVE InBook(current, task[w])'
    BY <1>1, <1>8 DEF OnePlace, InBook
<1>9. ASSUME NEW w \in Workers, Serving(w)', NEW i \in DOMAIN queue'[current]
      PROVE  queue'[current][i].id # task'[w].id
    <2>1. CASE i \in DOMAIN q
        BY <1>4, <1>9, <2>1 DEF OnePlace, q
    <2>2. CASE i = Len(q) + 1
        BY <1>1, <1>3, <1>4, <1>9, <2>2 DEF OnePlace, InBook
    <2> QED
        BY <1>4, <1>9, <2>1, <2>2
<1>10. \A v, w \in Workers :
         Serving(v)' /\ Serving(w)' /\ v # w => task'[v].id # task'[w].id
    BY DEF OnePlace
<1> QED
    BY <1>6, <1>7, <1>8, <1>9, <1>10 DEF OnePlace

\* A task that is popped goes from the queue into the hands of the worker.
LEMMA OnePlacePop ==
    ASSUME Shape, OneFile, OnePlace, NEW w \in Workers, GetTaskPop(w)
    PROVE  OnePlace'
<1> DEFINE q == queue[current]
<1>1. /\ current \in Files /\ q # <<>> /\ q \in Seq(Payloads)
      /\ task'[w] = q[1] /\ InBook(current, q[1])
      /\ queue'[current] = Tail(q)
      /\ \A k \in Files : k # current => queue'[k] = queue[k]
      /\ \A v \in Workers : v # w => task'[v] = task[v]
      /\ UNCHANGED <<book, current>>
    BY PopFacts
<1>2. \A v \in Workers : v # w => (Serving(v)' <=> Serving(v))
    <2>1. WorkType
        BY DEF Shape, TypeOK
    <2> QED
        BY <2>1, GotoFacts DEF GetTaskPop, Serving
<1>3. /\ 1 \in DOMAIN q
      /\ \A i \in DOMAIN Tail(q) : i + 1 \in DOMAIN q /\ Tail(q)[i] = q[i + 1]
      /\ Tail(q) \in Seq(Payloads)
    BY <1>1, HeadAndTail
<1>4. \A i \in DOMAIN Tail(q) : i \in Nat \ {0}
    BY <1>3
<1>5. /\ \A i \in DOMAIN q : InBook(current, q[i])
      /\ \A i, j \in DOMAIN q : i # j => q[i].id # q[j].id
      /\ \A v \in Workers : Serving(v) => \A i \in DOMAIN q : q[i].id # task[v].id
    BY <1>1 DEF OnePlace
<1> HIDE DEF q
<1>6. ASSUME NEW k \in Files, NEW i \in DOMAIN queue'[k] PROVE InBook(k, queue[k][i])'
    <2>1. CASE k # current
        BY <1>1, <1>6, <2>1 DEF OnePlace, InBook
    <2>2. CASE k = current
        <3>1. InBook(current, q[i + 1]) /\ queue'[k][i] = q[i + 1]
            BY <1>1, <1>3, <1>5, <1>6, <2>2
        <3> QED
            BY <1>1, <2>2, <3>1 DEF InBook
    <2> QED
        BY <2>1, <2>2
<1>7. ASSUME NEW k \in Files, NEW i \in DOMAIN queue'[k], NEW j \in DOMAIN queue'[k], i # j
      PROVE  queue'[k][i].id # queue'[k][j].id
    <2>1. CASE k # current
        BY <1>1, <1>7, <2>1 DEF OnePlace
    <2>2. CASE k = current
        <3>1. /\ i + 1 \in DOMAIN q /\ queue'[k][i] = q[i + 1]
              /\ j + 1 \in DOMAIN q /\ queue'[k][j] = q[j + 1]
            BY <1>1, <1>3, <1>7, <2>2
        <3>2. i + 1 # j + 1
            BY <1>1, <1>4, <1>7, <2>2
        <3> QED
            BY <1>5, <3>1, <3>2
    <2> QED
        BY <2>1, <2>2
<1>8. ASSUME NEW v \in Workers, Serving(v)' PROVE InBook(current, task[v])'
    BY <1>1, <1>2, <1>8 DEF OnePlace, InBook
<1>9. ASSUME NEW v \in Workers, Serving(v)', NEW i \in DOMAIN queue'[current]
      PROVE  queue'[current][i].id # task'[v].id
    <2>1. i + 1 \in DOMAIN q /\ queue'[current][i] = q[i + 1]
        BY <1>1, <1>3, <1>9
    <2>2. CASE v # w
        BY <1>1, <1>2, <1>5, <1>9, <2>1, <2>2
    <2>3. CASE v = w
        <3>1. i + 1 # 1
            BY <1>1, <1>4, <1>9
        <3> QED
            BY <1>1, <1>3, <1>5, <2>1, <2>3, <3>1
    <2> QED
        BY <2>2, <2>3
<1>10. ASSUME NEW u \in Workers, NEW v \in Workers, Serving(u)', Serving(v)', u # v
       PROVE  task'[u].id # task'[v].id
    <2>1. CASE u # w /\ v # w
        BY <1>1, <1>2, <1>10, <2>1 DEF OnePlace
    <2>2. CASE u = w
        <3>1. Serving(v) /\ task'[v] = task[v]
            BY <1>1, <1>2, <1>10, <2>2
        <3> QED
            BY <1>1, <1>3, <1>5, <2>2, <3>1
    <2>3. CASE v = w
        <3>1. Serving(u) /\ task'[u] = task[u]
            BY <1>1, <1>2, <1>10, <2>3
        <3> QED
            BY <1>1, <1>3, <1>5, <2>3, <3>1
    <2> QED
        BY <2>1, <2>2, <2>3
<1> QED
    BY <1>1, <1>6, <1>7, <1>8, <1>9, <1>10 DEF OnePlace

\* A task that is removed was in the hands of that worker and nowhere else.
LEMMA OnePlaceRemove ==
    ASSUME Shape, OneFile, OnePlace, NEW w \in Workers, GetAndRemoveTask(w)
    PROVE  OnePlace'
<1>1. /\ current \in Files /\ InBook(current, task[w])
      /\ DOMAIN book'[current] = DOMAIN book[current] \ {task[w].id}
      /\ \A i \in DOMAIN book'[current] : book'[current][i] = book[current][i]
      /\ \A k \in Files : k # current => book'[k] = book[k]
      /\ Goto(w, "removed") /\ UNCHANGED <<queue, task, current>>
    BY RemoveFacts
<1>2. Serving(w) /\ ~Serving(w)' /\ \A v \in Workers : v # w => (Serving(v)' <=> Serving(v))
    <2>1. WorkType
        BY DEF Shape, TypeOK
    <2> QED
        BY <1>1, <2>1, GotoFacts DEF GetAndRemoveTask, Serving
<1>3. \A t : InBook(current, t) /\ t.id # task[w].id =>
         t.file = current /\ t.id \in DOMAIN book'[current] /\ book'[current][t.id] = t.cube
    BY <1>1 DEF InBook
<1>4. ASSUME NEW k \in Files, NEW i \in DOMAIN queue'[k] PROVE InBook(k, queue[k][i])'
    <2>1. CASE k # current
        BY <1>1, <1>4, <2>1 DEF OnePlace, InBook
    <2>2. CASE k = current
        <3>1. InBook(current, queue[current][i]) /\ queue[current][i].id # task[w].id
            BY <1>1, <1>2, <1>4, <2>2 DEF OnePlace
        <3> QED
            BY <1>1, <1>3, <2>2, <3>1 DEF InBook
    <2> QED
        BY <2>1, <2>2
<1>5. ASSUME NEW v \in Workers, Serving(v)' PROVE InBook(current, task[v])'
    <2>1. Serving(v) /\ v # w
        BY <1>2, <1>5
    <2>2. InBook(current, task[v]) /\ task[v].id # task[w].id
        BY <1>2, <2>1 DEF OnePlace
    <2> QED
        BY <1>1, <1>3, <2>2 DEF InBook
<1>6. ASSUME NEW v \in Workers, Serving(v)' PROVE Serving(v)
    BY <1>2, <1>6
<1>7. \A k \in Files : \A i, j \in DOMAIN queue'[k] : i # j => queue'[k][i].id # queue'[k][j].id
    BY <1>1 DEF OnePlace
<1>8. \A v \in Workers : Serving(v)' =>
         \A i \in DOMAIN queue'[current'] : queue'[current'][i].id # task'[v].id
    BY <1>1, <1>6 DEF OnePlace
<1>9. \A u, v \in Workers :
         Serving(u)' /\ Serving(v)' /\ u # v => task'[u].id # task'[v].id
    BY <1>1, <1>6 DEF OnePlace
<1> QED
    BY <1>4, <1>5, <1>7, <1>8, <1>9 DEF OnePlace

LEMMA OnePlaceStep ==
    ASSUME Shape, OneFile, OnePlace, [Next]_vars
    PROVE  OnePlace'
<1>0. ManagerType /\ WorkType /\ SolveType /\ Flow
    BY DEF Shape, TypeOK
<1>1. CASE SolveReset
    <2>1. UNCHANGED <<book, queue, task, pc>> /\ \A w \in Workers : ~Serving(w)
        BY <1>1 DEF SolveReset, OneFile, OwnFile, managerVars, workVars
    <2>2. \A w \in Workers : ~Serving(w)'
        BY <2>1 DEF Serving
    <2>3. \A k \in Files : \A i \in DOMAIN queue'[k] : InBook(k, queue[k][i])'
        BY <2>1 DEF OnePlace, InBook
    <2>4. \A k \in Files : \A i, j \in DOMAIN queue'[k] :
             i # j => queue'[k][i].id # queue'[k][j].id
        BY <2>1 DEF OnePlace
    <2> QED
        BY <2>2, <2>3, <2>4 DEF OnePlace
<1>2. CASE SolveEnqueue
    <2>1. /\ spc = "enqueue" /\ stodo # <<>> /\ UNCHANGED <<current, pc, task>>
          /\ Enqueue(current, Head(stodo))
        BY <1>0, <1>2 DEF SolveEnqueue, Flow, workVars
    <2>2. current \in Files /\ Head(stodo) \in SUBSET Model
        BY <1>0, <2>1, FileFacts, HeadAndTail DEF SolveType
    <2>3. \A v \in Workers : Serving(v)' => Serving(v) /\ task'[v] = task[v]
        BY <2>1 DEF Serving
    <2> QED
        BY <1>0, <2>1, <2>2, <2>3, OnePlaceEnqueue
<1>3. ASSUME NEW w \in Workers, EnqueueHalf(w) PROVE OnePlace'
    <2>1. /\ current \in Files /\ UNCHANGED <<current, task>>
          /\ Enqueue(current, todo[w][1]) /\ todo[w][1] \in SUBSET Model
        BY <1>3, HalfFile
    <2>2. \A v \in Workers : Serving(v)' => Serving(v) /\ task'[v] = task[v]
        BY <1>0, <1>3, <2>1, GotoFacts DEF EnqueueHalf, Serving
    <2> QED
        BY <1>0, <2>1, <2>2, OnePlaceEnqueue
<1>4. ASSUME NEW w \in Workers, GetTaskPop(w) PROVE OnePlace'
    BY <1>4, OnePlacePop
<1>5. ASSUME NEW w \in Workers, GetAndRemoveTask(w) PROVE OnePlace'
    BY <1>5, OnePlaceRemove
<1>6. ASSUME NEW w \in Workers, NEW l, Goto(w, l), UNCHANGED <<book, queue, current>>,
             \A v \in Workers : v # w => task'[v] = task[v],
             \/ l \notin {"solving", "submit", "remove"}
             \/ Serving(w) /\ task'[w] = task[w]
      PROVE  OnePlace'
    <2>1. pc'[w] = l /\ \A v \in Workers : v # w => pc'[v] = pc[v]
        BY <1>0, <1>6, GotoFacts
    <2>2. \A v \in Workers : Serving(v)' => Serving(v) /\ task'[v] = task[v]
        BY <1>6, <2>1 DEF Serving
    <2> QED
        BY <1>6, <2>2, OnePlaceKept
<1>7. ASSUME NEW w \in Workers, SplitTimedOut(w) \/ AddCount(w) PROVE OnePlace'
    <2>1. /\ UNCHANGED <<book, queue, current>> /\ task' = [task EXCEPT ![w] = NoTask]
          /\ Goto(w, "enqueue") \/ Goto(w, "added")
        BY <1>7 DEF SplitTimedOut, AddCount, managerVars, solveVars
    <2>2. \A v \in Workers : v # w => task'[v] = task[v]
        BY <1>0, <2>1, Zenon DEF WorkType
    <2> QED
        BY <1>6, <2>1, <2>2
<1>8. ASSUME NEW w \in Workers,
             \/ GetTask(w) \/ GetTaskTimeout(w) \/ Ganak(w) \/ ReadManager(w)
             \/ CountTimeout(w) \/ LoadTotal(w) \/ CompleteTask(w) \/ ReadActive(w)
             \/ ReadQueueAndSignal(w)
      PROVE  OnePlace'
    <2>1. UNCHANGED <<book, queue, current, task>>
        BY <1>8 DEF GetTask, GetTaskTimeout, Ganak, ReadManager, CountTimeout, LoadTotal,
                    CompleteTask, ReadActive, ReadQueueAndSignal, managerVars, solveVars,
                    workVars
    <2>2. \E l \in Pcs : Goto(w, l) /\ (l \notin {"solving", "submit", "remove"} \/ Serving(w))
        BY <1>8 DEF GetTask, GetTaskTimeout, Ganak, ReadManager, CountTimeout, LoadTotal,
                    CompleteTask, ReadActive, ReadQueueAndSignal, Serving, Pcs
    <2> QED
        BY <1>6, <2>1, <2>2
<1>9. CASE SolveReceiveDone \/ SolveLogResult \/ UNCHANGED vars
    <2>1. UNCHANGED <<book, queue, current, task, pc>>
        BY <1>9 DEF SolveReceiveDone, SolveLogResult, vars, managerVars, solveVars, workVars
    <2>2. \A v \in Workers : Serving(v)' => Serving(v) /\ task'[v] = task[v]
        BY <2>1 DEF Serving
    <2> QED
        BY <2>1, <2>2, OnePlaceKept
<1> QED
    BY <1>1, <1>2, <1>3, <1>4, <1>5, <1>7, <1>8, <1>9, NextCases

\* Only SolveLogResult finds out that it is too early, and it stays so.
LEMMA EarlyStays == [Next]_vars /\ early => early'
BY NextCases
DEF SolveReset, SolveEnqueue, SolveReceiveDone, SolveLogResult, GetTask, GetTaskPop,
    GetTaskTimeout, Ganak, ReadManager, GetAndRemoveTask, CountTimeout, SplitTimedOut,
    EnqueueHalf, LoadTotal, AddCount, CompleteTask, ReadActive, ReadQueueAndSignal,
    vars, solveVars

LEMMA InitOnTime == Init => OneFile /\ OnePlace
BY DEF Init, OneFile, OneBook, OwnFile, OnePlace, Serving, Handling

\* Until a Solve logs too early, the entry that a result takes out of the book
\* is the one of the very task its worker has solved, for any files and any
\* number of workers: GetAndRemoveTask looks up an ID alone, and the IDs of
\* all files start at 1.
THEOREM ResultsMeetTheirTask == Spec => []IDsNameOneTask
<1> DEFINE Inv == Shape /\ (~early => OneFile /\ OnePlace)
<1>1. Init => Inv
    BY InitShape, InitOnTime
<1>2. Inv /\ [Next]_vars => Inv'
    <2> SUFFICES ASSUME Inv, [Next]_vars PROVE Inv'
        OBVIOUS
    <2>1. Shape'
        BY ShapeStep
    <2>2. ASSUME ~early' PROVE OneFile' /\ OnePlace'
        <3>1. OneFile /\ OnePlace
            BY <2>2, EarlyStays
        <3> QED
            BY <2>2, <3>1, OneFileStep, OnePlaceStep
    <2> QED
        BY <2>1, <2>2
<1>3. Inv => IDsNameOneTask
    BY DEF IDsNameOneTask, OnePlace, Serving, InBook
<1> QED
    BY <1>1, <1>2, <1>3, PTL DEF Spec

-----------------------------------------------------------------------------
(***************************************************************************)
(* Every model is counted once, and every task.                            *)
(***************************************************************************)
\* What a handler has of a task are models.
LEMMA HandFacts ==
    ASSUME WorkType, Flow, NEW w \in Workers
    PROVE  /\ Hand(w) \in SUBSET Model /\ IsFiniteSet(Hand(w)) /\ Cardinality(Hand(w)) \in Nat
           /\ pc[w] \notin {"removed", "split", "adding", "enqueue"} =>
                 Hand(w) = {} /\ Cardinality(Hand(w)) = 0
           /\ Hands[w] = Hand(w)
<1>1. cube[w] \in SUBSET Model /\ todo[w] \in Seq(SUBSET Model)
    BY DEF WorkType
<1>2. \A i \in DOMAIN todo[w] : todo[w][i] \in SUBSET Model
    BY <1>1
<1>3. Hand(w) \in SUBSET Model
    BY <1>1, <1>2 DEF Hand
<1>4. ASSUME pc[w] \notin {"removed", "split", "adding", "enqueue"} PROVE Hand(w) = {}
    <2>1. todo[w] = <<>>
        BY <1>4 DEF Flow
    <2>2. DOMAIN todo[w] = {}
        BY <2>1
    <2> QED
        BY <1>4, <2>2 DEF Hand
<1>5. Cardinality({}) = 0
    BY FS_EmptySet
<1>6. Hands[w] = Hand(w)
    BY DEF Hands
<1> QED
    BY <1>3, <1>4, <1>5, <1>6, ProblemFacts

\* Everything that Balance counts is finite.
LEMMA BalanceFinite ==
    ASSUME Shape, current \in Files
    PROVE  /\ IsFiniteSet(DOMAIN book[current]) /\ BookTasks \in Nat
           /\ FiniteFamily(DOMAIN book[current], book[current]) /\ BookModels \in Nat
           /\ IsFiniteSet(Unread) /\ Unread \subseteq DOMAIN Problems[current]
           /\ FiniteFamily(Unread, Problems[current]) /\ UnreadModels \in Nat
           /\ FiniteFamily(Workers, Hands) /\ HandModels \in Nat
           /\ IsFiniteSet(InFlight) /\ InFlightTasks \in Nat
           /\ SeqFamily(Workers, todo) /\ HalfTasks \in Nat
           /\ Len(stodo) \in Nat
<1>0. ManagerType /\ SolveType /\ WorkType /\ Flow /\ Suffix
    BY DEF Shape, TypeOK
<1>1. IsFiniteSet(DOMAIN book[current]) /\ BookTasks \in Nat
    <2>1. DOMAIN book[current] \subseteq 1..nextID[current] /\ nextID[current] \in Nat
        BY <1>0 DEF ManagerType
    <2>2. IsFiniteSet(1..nextID[current])
        BY <2>1, FS_Interval
    <2> QED
        BY <2>1, <2>2, FS_Subset, FS_CardinalityType DEF BookTasks
<1>2. FiniteFamily(DOMAIN book[current], book[current])
    BY <1>0, ProblemFacts DEF ManagerType, FiniteFamily
<1>3. BookModels \in Nat
    BY <1>1, <1>2, TaggedFinite DEF BookModels
<1>4. /\ Problems[current] \in Seq(SUBSET Model)
      /\ Len(Problems[current]) \in Nat /\ Len(stodo) \in Nat
    BY <1>0, ProblemFacts DEF SolveType
<1>5. IsFiniteSet(Unread)
    <2> DEFINE m == Len(Problems[current])
               n == Len(stodo)
    <2>1. m - n + 1 \in Int /\ m \in Int
        BY <1>4
    <2> HIDE DEF m, n
    <2>2. IsFiniteSet((m - n + 1)..m)
        BY <2>1, FS_Interval
    <2> QED
        BY <2>2 DEF Unread, m, n
<1>6. Unread \subseteq DOMAIN Problems[current]
    <2> DEFINE m == Len(Problems[current])
               n == Len(stodo)
    <2>1. m \in Nat /\ n \in Nat /\ n <= m
        <3>1. CASE stodo = <<>>
            BY <1>4, <3>1
        <3>2. CASE stodo # <<>>
            BY <1>0, <1>4, <3>2 DEF Suffix
        <3> QED
            BY <3>1, <3>2
    <2>2. DOMAIN Problems[current] = 1..m
        BY <1>4
    <2> HIDE DEF m, n
    <2>3. (m - n + 1)..m \subseteq 1..m
        BY <2>1
    <2> QED
        BY <2>2, <2>3 DEF Unread, m, n
<1>7. FiniteFamily(Unread, Problems[current])
    <2>1. \A i \in DOMAIN Problems[current] : Problems[current][i] \in SUBSET Model
        BY <1>4
    <2> QED
        BY <1>6, <2>1, ProblemFacts DEF FiniteFamily
<1>8. UnreadModels \in Nat
    BY <1>5, <1>7, TaggedFinite DEF UnreadModels
<1>9. FiniteFamily(Workers, Hands)
    BY <1>0, HandFacts DEF FiniteFamily
<1>10. IsFiniteSet(Workers)
    BY BatchAssumption
<1>11. HandModels \in Nat
    BY <1>9, <1>10, TaggedFinite DEF HandModels
<1>12. IsFiniteSet(InFlight) /\ InFlightTasks \in Nat
    BY <1>10, FS_Subset, FS_CardinalityType DEF InFlight, InFlightTasks
<1>13. SeqFamily(Workers, todo)
    <2>1. ASSUME NEW w \in Workers
          PROVE  Len(todo[w]) \in Nat /\ DOMAIN todo[w] = 1..Len(todo[w])
        <3>1. todo[w] \in Seq(SUBSET Model)
            BY <1>0 DEF WorkType
        <3> QED
            BY <3>1
    <2> QED
        BY <2>1 DEF SeqFamily
<1>14. HalfTasks \in Nat
    BY <1>10, <1>13, SlotsFinite DEF HalfTasks
<1> QED
    BY <1>1, <1>2, <1>3, <1>4, <1>5, <1>6, <1>7, <1>8, <1>9, <1>11, <1>12, <1>13, <1>14

\* A task more in the book.
LEMMA BookAdds ==
    ASSUME Shape, current \in Files, UNCHANGED current, NEW c \in SUBSET Model,
           Enqueue(current, c)
    PROVE  BookModels' = BookModels + Cardinality(c) /\ BookTasks' = BookTasks + 1
<1> DEFINE id == nextID[current] + 1
           P == DOMAIN book[current]
           f == book[current]
           g == book'[current]
<1>1. id \notin P /\ DOMAIN g = P \cup {id} /\ g[id] = c /\ \A i \in P : g[i] = f[i]
    BY AddTaskType DEF Shape, TypeOK
<1>2. IsFiniteSet(P) /\ FiniteFamily(P, f)
    BY BalanceFinite
<1>3. IsFiniteSet(c)
    BY ProblemFacts
<1> HIDE DEF id, P, f, g
<1>4. Cardinality(Tagged(P \cup {id}, g)) = Cardinality(Tagged(P, f)) + Cardinality(g[id])
    BY <1>1, <1>2, <1>3, TaggedAdd
<1>5. Cardinality(P \cup {id}) = Cardinality(P) + 1
    BY <1>1, <1>2, FS_AddElement
<1> QED
    BY <1>1, <1>4, <1>5 DEF BookModels, BookTasks, P, f, g

\* A task less.
LEMMA BookRemoves ==
    ASSUME Shape, OneFile, OnePlace, NEW w \in Workers, GetAndRemoveTask(w)
    PROVE  /\ BookModels' = BookModels - Cardinality(task[w].cube)
           /\ BookTasks' = BookTasks - 1
<1> DEFINE id == task[w].id
           P == DOMAIN book[current]
           f == book[current]
           g == book'[current]
<1>1. /\ current \in Files /\ UNCHANGED current
      /\ InBook(current, task[w])
      /\ DOMAIN g = P \ {id} /\ \A i \in DOMAIN g : g[i] = f[i]
    BY RemoveFacts
<1>2. id \in P /\ f[id] = task[w].cube
    BY <1>1 DEF InBook
<1>3. IsFiniteSet(P) /\ FiniteFamily(P, f)
    BY <1>1, BalanceFinite
<1> HIDE DEF id, P, f, g
<1>4. Cardinality(Tagged(P \ {id}, g)) = Cardinality(Tagged(P, f)) - Cardinality(f[id])
    BY <1>1, <1>2, <1>3, TaggedRemove
<1>5. Cardinality(P \ {id}) = Cardinality(P) - 1
    BY <1>2, <1>3, FS_RemoveElement
<1> QED
    BY <1>1, <1>2, <1>4, <1>5 DEF BookModels, BookTasks, P, f, g

\* One handler changes what it has.
LEMMA HandMoves ==
    ASSUME Shape, WorkType', Flow', current \in Files, NEW w \in Workers,
           \A v \in Workers : v # w => pc'[v] = pc[v] /\ cube'[v] = cube[v] /\ todo'[v] = todo[v]
    PROVE  HandModels' = HandModels - Cardinality(Hand(w)) + Cardinality(Hand(w)')
<1>1. IsFiniteSet(Workers) /\ FiniteFamily(Workers, Hands)
    BY BatchAssumption, BalanceFinite
<1>2. Hands[w] = Hand(w) /\ \A v \in Workers : Hands[v] = Hand(v)
    BY DEF Hands
<1>3. Hands'[w] = Hand(w)' /\ \A v \in Workers : Hands'[v] = Hand(v)'
    BY DEF Hands
<1>4. \A v \in Workers : v # w => Hand(v)' = Hand(v)
    BY DEF Hand
<1>5. IsFiniteSet(Hand(w)')
    <2>1. Hand(w)' \in SUBSET Model
        <3>1. cube'[w] \in SUBSET Model /\ todo'[w] \in Seq(SUBSET Model)
            BY DEF WorkType
        <3>2. \A i \in DOMAIN todo'[w] : todo'[w][i] \in SUBSET Model
            BY <3>1
        <3> QED
            BY <3>1, <3>2 DEF Hand
    <2> QED
        BY <2>1, ProblemFacts
<1> DEFINE f == Hands
           g == Hands'
<1>6. /\ FiniteFamily(Workers, f) /\ IsFiniteSet(g[w])
      /\ \A v \in Workers \ {w} : g[v] = f[v]
    BY <1>1, <1>2, <1>3, <1>4, <1>5
<1> HIDE DEF f, g
<1>7. Cardinality(Tagged(Workers, g))
        = Cardinality(Tagged(Workers, f)) - Cardinality(f[w]) + Cardinality(g[w])
    BY <1>1, <1>6, TaggedReplace
<1> QED
    BY <1>2, <1>3, <1>7 DEF HandModels, f, g

\* A result begins to be in flight, or ends to be.
LEMMA InFlightMoves ==
    ASSUME Shape, current \in Files, NEW w \in Workers, NEW l, Goto(w, l)
    PROVE  InFlightTasks' = InFlightTasks
             - (IF w \in InFlight THEN 1 ELSE 0)
             + (IF l \in {"removed", "adding", "added"} THEN 1 ELSE 0)
<1>1. pc'[w] = l /\ \A v \in Workers : v # w => pc'[v] = pc[v]
    BY GotoFacts DEF Shape, TypeOK
<1>2. IsFiniteSet(InFlight) /\ InFlightTasks \in Nat
    BY BalanceFinite
<1>3. Cardinality(InFlight \cup {w}) = Cardinality(InFlight) + (IF w \in InFlight THEN 0 ELSE 1)
    <2>1. w \notin InFlight => Cardinality(InFlight \cup {w}) = Cardinality(InFlight) + 1
        BY <1>2, FS_AddElement
    <2>2. w \in InFlight => InFlight \cup {w} = InFlight
        OBVIOUS
    <2> QED
        BY <1>2, <2>1, <2>2 DEF InFlightTasks
<1>4. Cardinality(InFlight \ {w}) = Cardinality(InFlight) - (IF w \in InFlight THEN 1 ELSE 0)
    <2>1. w \in InFlight => Cardinality(InFlight \ {w}) = Cardinality(InFlight) - 1
        BY <1>2, FS_RemoveElement
    <2>2. w \notin InFlight => InFlight \ {w} = InFlight
        OBVIOUS
    <2> QED
        BY <1>2, <2>1, <2>2 DEF InFlightTasks
<1>5. CASE l \in {"removed", "adding", "added"}
    <2>1. InFlight' = InFlight \cup {w}
        BY <1>1, <1>5 DEF InFlight
    <2> QED
        BY <1>2, <1>3, <1>5, <2>1 DEF InFlightTasks
<1>6. CASE l \notin {"removed", "adding", "added"}
    <2>1. InFlight' = InFlight \ {w}
        BY <1>1, <1>6 DEF InFlight
    <2> QED
        BY <1>2, <1>4, <1>6, <2>1 DEF InFlightTasks
<1> QED
    BY <1>5, <1>6

\* 1 where a result is in flight.
Flight(l) == IF l \in {"removed", "adding", "added"} THEN 1 ELSE 0

\* The step of a worker keeps the balance when what it takes from one side it
\* gives to the other.
LEMMA WorkerBalance ==
    ASSUME Shape, Shape', Balance, current \in Files, UNCHANGED <<current, stodo>>,
           NEW w \in Workers, NEW l, Goto(w, l),
           \A v \in Workers : v # w => cube'[v] = cube[v] /\ todo'[v] = todo[v],
           NEW m \in Int, BookModels' = BookModels + m,
           NEW n \in Int, BookTasks' = BookTasks + n,
           total'[current] + m + Cardinality(Hand(w)') = total[current] + Cardinality(Hand(w)),
           totalTasks' - completedTasks' - timedOutTasks' - n - Flight(l) - Len(todo'[w])
              = totalTasks - completedTasks - timedOutTasks - Flight(pc[w]) - Len(todo[w])
    PROVE  Balance'
<1>0. /\ ServerType /\ WorkType /\ Flow /\ SolveType
      /\ ServerType' /\ WorkType' /\ Flow'
    BY DEF Shape, TypeOK
<1>1. pc'[w] = l /\ \A v \in Workers : v # w => pc'[v] = pc[v]
    BY <1>0, GotoFacts
<1>2. HandModels' = HandModels - Cardinality(Hand(w)) + Cardinality(Hand(w)')
    BY <1>0, <1>1, HandMoves
<1>3. InFlightTasks' = InFlightTasks - Flight(pc[w]) + Flight(l)
    <2>1. w \in InFlight <=> pc[w] \in {"removed", "adding", "added"}
        BY DEF InFlight
    <2> QED
        BY <2>1, InFlightMoves DEF Flight
<1>4. UnreadModels' = UnreadModels
    BY DEF UnreadModels, Unread
<1>5. /\ SeqFamily(Workers, todo) /\ Len(todo[w]) \in Nat
      /\ SeqFamily(Workers, todo') /\ Len(todo'[w]) \in Nat
    <2>1. SeqFamily(Workers, todo)
        BY BalanceFinite
    <2>2. ASSUME NEW v \in Workers
          PROVE  Len(todo'[v]) \in Nat /\ DOMAIN todo'[v] = 1..Len(todo'[v])
        <3>1. todo'[v] \in Seq(SUBSET Model)
            BY <1>0 DEF WorkType
        <3> QED
            BY <3>1
    <2> QED
        BY <2>1, <2>2 DEF SeqFamily
<1>6. HalfTasks' = HalfTasks - Len(todo[w]) + Len(todo'[w])
    <2> DEFINE f == todo
               g == todo'
    <2>1. /\ IsFiniteSet(Workers) /\ SeqFamily(Workers, f) /\ SeqFamily(Workers, g)
          /\ \A v \in Workers : v # w => g[v] = f[v]
        BY <1>5, BatchAssumption
    <2> HIDE DEF f, g
    <2>2. Cardinality(Slots(Workers, g)) = Cardinality(Slots(Workers, f)) - Len(f[w]) + Len(g[w])
        BY <2>1, SlotsReplace
    <2> QED
        BY <2>2 DEF HalfTasks, f, g
<1>7. /\ Cardinality(Hand(w)) \in Nat /\ Flight(pc[w]) \in Nat /\ Flight(l) \in Nat
      /\ Cardinality(Hand(w)') \in Nat
    <2>1. Cardinality(Hand(w)) \in Nat
        BY <1>0, HandFacts
    <2>2. Hand(w)' \in SUBSET Model
        <3>1. cube'[w] \in SUBSET Model /\ todo'[w] \in Seq(SUBSET Model)
            BY <1>0 DEF WorkType
        <3>2. \A i \in DOMAIN todo'[w] : todo'[w][i] \in SUBSET Model
            BY <3>1
        <3> QED
            BY <3>1, <3>2 DEF Hand
    <2> QED
        BY <2>1, <2>2, ProblemFacts DEF Flight
<1>8. /\ total[current] \in Nat /\ total'[current] \in Nat
      /\ totalTasks \in Nat /\ completedTasks \in Nat /\ timedOutTasks \in Nat
      /\ totalTasks' \in Nat /\ completedTasks' \in Nat /\ timedOutTasks' \in Nat
    BY <1>0 DEF ServerType
<1>9. /\ BookModels \in Nat /\ UnreadModels \in Nat /\ HandModels \in Nat
      /\ BookTasks \in Nat /\ InFlightTasks \in Nat /\ HalfTasks \in Nat /\ Len(stodo) \in Nat
    BY BalanceFinite
<1>10. current > 0
    BY ProblemFacts
<1>11. total'[current] + BookModels' + UnreadModels' + HandModels' = Cardinality(ModelsOf(current))
    <2>1. total[current] + BookModels + UnreadModels + HandModels
             = Cardinality(ModelsOf(current))
        BY <1>10 DEF Balance
    <2>2. total'[current] + (BookModels + m) + UnreadModels
             + (HandModels - Cardinality(Hand(w)) + Cardinality(Hand(w)'))
             = total[current] + BookModels + UnreadModels + HandModels
        <3> DEFINE t == total[current]
                   t1 == total'[current]
                   h == Cardinality(Hand(w))
                   h1 == Cardinality(Hand(w)')
        <3>1. t1 + m + h1 = t + h
            OBVIOUS
        <3>2. t \in Nat /\ t1 \in Nat /\ h \in Nat /\ h1 \in Nat
            BY <1>7, <1>8
        <3> HIDE DEF t, t1, h, h1
        <3>3. t1 + (BookModels + m) + UnreadModels + (HandModels - h + h1)
                 = t + BookModels + UnreadModels + HandModels
            BY <1>9, <3>1, <3>2
        <3> QED
            BY <3>3 DEF t, t1, h, h1
    <2> QED
        BY <1>2, <1>4, <2>1, <2>2
<1>12. totalTasks' = completedTasks' + timedOutTasks' + Outstanding'
    <2> DEFINE r == Len(todo[w])
               r1 == Len(todo'[w])
               f == Flight(pc[w])
               f1 == Flight(l)
               s == Len(stodo)
               x == totalTasks - completedTasks - timedOutTasks
               x1 == totalTasks' - completedTasks' - timedOutTasks'
    <2>1. x1 - n - f1 - r1 = x - f - r
        OBVIOUS
    <2>2. r \in Nat /\ r1 \in Nat /\ f \in Nat /\ f1 \in Nat /\ s \in Nat
        BY <1>5, <1>7, <1>9
    <2>3. /\ Outstanding = BookTasks + s + InFlightTasks + HalfTasks
          /\ Outstanding' = (BookTasks + n) + s + (InFlightTasks - f + f1) + (HalfTasks - r + r1)
        BY <1>3, <1>6 DEF Outstanding
    <2>4. x \in Int /\ x1 \in Int
        <3>1. /\ totalTasks \in Int /\ completedTasks \in Int /\ timedOutTasks \in Int
              /\ totalTasks' \in Int /\ completedTasks' \in Int /\ timedOutTasks' \in Int
            BY <1>8
        <3>2. totalTasks - completedTasks - timedOutTasks \in Int
            BY <3>1
        <3>3. totalTasks' - completedTasks' - timedOutTasks' \in Int
            BY <3>1
        <3> QED
            BY <3>2, <3>3
    <2>5. totalTasks = completedTasks + timedOutTasks + Outstanding
        BY <1>10 DEF Balance
    <2>6. Outstanding \in Int
        <3> HIDE DEF r, r1, f, f1, s, x, x1
        <3> QED
            BY <1>9, <2>2, <2>3
    <2>7. x = Outstanding
        BY <1>8, <2>5, <2>6
    <2>8. x1 = Outstanding' /\ Outstanding' \in Int
        <3> HIDE DEF r, r1, f, f1, s, x, x1
        <3> QED
            BY <1>9, <2>1, <2>2, <2>3, <2>4, <2>7
    <2> QED
        <3> DEFINE a == totalTasks'
                   b == completedTasks'
                   c == timedOutTasks'
                   o == Outstanding'
        <3>1. a \in Nat /\ b \in Nat /\ c \in Nat /\ o \in Int /\ a - b - c = o
            BY <1>8, <2>8
        <3> HIDE DEF a, b, c, o
        <3>2. a = b + c + o
            BY <3>1
        <3> QED
            BY <3>2 DEF a, b, c, o
<1>13. ModelsOf(current)' = ModelsOf(current)
    BY DEF ModelsOf
<1> QED
    BY <1>11, <1>12, <1>13 DEF Balance

\* The same, when the book does not change.
LEMMA QuietBalance ==
    ASSUME Shape, Shape', Balance, current \in Files, UNCHANGED <<book, current, stodo>>,
           NEW w \in Workers, NEW l, Goto(w, l),
           \A v \in Workers : v # w => cube'[v] = cube[v] /\ todo'[v] = todo[v],
           total'[current] + Cardinality(Hand(w)') = total[current] + Cardinality(Hand(w)),
           totalTasks' - completedTasks' - timedOutTasks' - Flight(l) - Len(todo'[w])
              = totalTasks - completedTasks - timedOutTasks - Flight(pc[w]) - Len(todo[w])
    PROVE  Balance'
<1>0. ServerType /\ ServerType'
    BY DEF Shape, TypeOK
<1>1. BookModels' = BookModels /\ BookTasks' = BookTasks
    BY DEF BookModels, BookTasks
<1>2. BookModels' = BookModels + 0 /\ BookTasks' = BookTasks + 0 /\ 0 \in Int
    BY <1>1, BalanceFinite
<1>3. total'[current] + 0 = total'[current]
    BY <1>0 DEF ServerType
<1>4. totalTasks' - completedTasks' - timedOutTasks' - 0 = totalTasks' - completedTasks' - timedOutTasks'
    <2> DEFINE a == totalTasks'
               b == completedTasks'
               c == timedOutTasks'
    <2>1. a \in Nat /\ b \in Nat /\ c \in Nat
        BY <1>0 DEF ServerType
    <2> HIDE DEF a, b, c
    <2>2. a - b - c - 0 = a - b - c
        BY <2>1
    <2> QED
        BY <2>2 DEF a, b, c
<1>5. total'[current] + 0 + Cardinality(Hand(w)') = total[current] + Cardinality(Hand(w))
    BY <1>3, Zenon
<1>6. totalTasks' - completedTasks' - timedOutTasks' - 0 - Flight(l) - Len(todo'[w])
         = totalTasks - completedTasks - timedOutTasks - Flight(pc[w]) - Len(todo[w])
    BY <1>4, Zenon
<1> QED
    BY <1>2, <1>5, <1>6, WorkerBalance

\* The steps of the workers that change neither the books nor what has to be
\* counted.
LEMMA IdleBalance ==
    ASSUME Shape, Shape', Balance, NEW w \in Workers,
           \/ GetTask(w) \/ GetTaskPop(w) \/ GetTaskTimeout(w) \/ Ganak(w) \/ ReadManager(w)
           \/ LoadTotal(w) \/ ReadActive(w) \/ ReadQueueAndSignal(w)
    PROVE  Balance'
<1>0. WorkType /\ SolveType /\ Flow
    BY DEF Shape, TypeOK
<1>1. /\ UNCHANGED <<book, total, completedTasks, timedOutTasks, totalTasks>>
      /\ UNCHANGED <<current, stodo, cube, todo>>
    BY DEF GetTask, GetTaskPop, GetTaskTimeout, Ganak, ReadManager, LoadTotal, ReadActive,
           ReadQueueAndSignal, managerVars, counterVars, solveVars, workVars
<1>2. \E l \in Pcs : /\ Goto(w, l)
                     /\ \/ /\ l \notin {"removed", "split", "adding", "added"}
                           /\ pc[w] \notin {"removed", "split", "adding", "added"}
                        \/ l = "adding" /\ pc[w] = "removed"
    BY DEF GetTask, GetTaskPop, GetTaskTimeout, Ganak, ReadManager, LoadTotal, ReadActive,
           ReadQueueAndSignal, Pcs
<1>3. PICK l \in Pcs : /\ Goto(w, l)
                       /\ \/ /\ l \notin {"removed", "split", "adding", "added"}
                             /\ pc[w] \notin {"removed", "split", "adding", "added"}
                          \/ l = "adding" /\ pc[w] = "removed"
    BY <1>2
<1>4. current \in Files
    <2>1. pc[w] # "idle" \/ current > 0
        BY DEF GetTask, GetTaskPop, GetTaskTimeout, Ganak, ReadManager, LoadTotal,
               ReadActive, ReadQueueAndSignal
    <2> QED
        BY <1>0, <2>1, FileFacts
<1>5. pc'[w] = l
    BY <1>0, <1>3, GotoFacts
<1>6. Hand(w)' = Hand(w)
    BY <1>1, <1>3, <1>5 DEF Hand
<1>7. Flight(l) = Flight(pc[w])
    BY <1>3 DEF Flight
<1> QED
    BY <1>1, <1>3, <1>4, <1>6, <1>7, QuietBalance

\* A result counted as timed out or completed is not in flight any more.
LEMMA CountBalance ==
    ASSUME Shape, Shape', Balance, NEW w \in Workers, CountTimeout(w) \/ CompleteTask(w)
    PROVE  Balance'
<1>0. WorkType /\ SolveType /\ Flow /\ ServerType
    BY DEF Shape, TypeOK
<1>1. /\ UNCHANGED <<book, total, totalTasks, current, stodo, cube, todo>>
      /\ \/ /\ pc[w] = "removed" /\ Goto(w, "split")
            /\ completedTasks' = completedTasks /\ timedOutTasks' = timedOutTasks + 1
         \/ /\ pc[w] = "added" /\ Goto(w, "readActive")
            /\ completedTasks' = completedTasks + 1 /\ timedOutTasks' = timedOutTasks
    BY DEF CountTimeout, CompleteTask, managerVars, solveVars, workVars
<1>2. PICK l : /\ Goto(w, l)
               /\ \/ pc[w] = "removed" /\ l = "split"
                  \/ pc[w] = "added" /\ l = "readActive"
    BY <1>1
<1>3. current \in Files
    BY <1>0, <1>1, FileFacts
<1>4. pc'[w] = l
    BY <1>0, <1>2, GotoFacts
<1>5. Hand(w)' = Hand(w)
    BY <1>1, <1>2, <1>4 DEF Hand
<1>6. Flight(l) = 0 /\ Flight(pc[w]) = 1
    BY <1>2 DEF Flight
<1>7. totalTasks' - completedTasks' - timedOutTasks' - Flight(l) - Len(todo'[w])
         = totalTasks - completedTasks - timedOutTasks - Flight(pc[w]) - Len(todo[w])
    <2> DEFINE a == totalTasks
               b == completedTasks
               c == timedOutTasks
               b1 == completedTasks'
               c1 == timedOutTasks'
               r == Len(todo[w])
    <2>1. /\ a \in Nat /\ b \in Nat /\ c \in Nat /\ r \in Nat
          /\ (b1 = b /\ c1 = c + 1) \/ (b1 = b + 1 /\ c1 = c)
        <3>1. SeqFamily(Workers, todo)
            BY <1>3, BalanceFinite
        <3> QED
            BY <1>0, <1>1, <3>1 DEF ServerType, SeqFamily
    <2> HIDE DEF a, b, c, b1, c1, r
    <2>2. a - b1 - c1 - 0 - r = a - b - c - 1 - r
        BY <2>1
    <2> QED
        BY <1>1, <1>6, <2>2 DEF a, b, c, b1, c1, r
<1> QED
    BY <1>1, <1>2, <1>3, <1>5, <1>7, QuietBalance

\* A removed task is in the hands of its handler.
LEMMA RemoveBalance ==
    ASSUME Shape, Shape', OneFile, OnePlace, Balance, NEW w \in Workers, GetAndRemoveTask(w)
    PROVE  Balance'
<1>0. WorkType /\ SolveType /\ Flow /\ ServerType
    BY DEF Shape, TypeOK
<1>1. /\ current \in Files /\ cube'[w] = task[w].cube
      /\ \A v \in Workers : v # w => cube'[v] = cube[v]
      /\ Goto(w, "removed") /\ UNCHANGED current
    BY RemoveFacts
<1>2. /\ UNCHANGED <<total, completedTasks, timedOutTasks, totalTasks, stodo, todo>>
      /\ pc[w] = "remove"
    BY DEF GetAndRemoveTask, counterVars, solveVars
<1>3. /\ BookModels' = BookModels - Cardinality(task[w].cube)
      /\ BookTasks' = BookTasks - 1
    BY BookRemoves
<1>4. Hand(w)' = task[w].cube
    <2>1. pc'[w] = "removed"
        BY <1>0, <1>1, GotoFacts
    <2> QED
        BY <1>1, <2>1 DEF Hand
<1>5. Cardinality(Hand(w)) = 0
    BY <1>0, <1>2, HandFacts
<1>6. Flight("removed") = 1 /\ Flight(pc[w]) = 0
    BY <1>2 DEF Flight
<1> DEFINE c == Cardinality(task[w].cube)
           m == 0 - c
           n == 0 - 1
<1>7. c \in Nat /\ Cardinality(Hand(w)') = c
    <2>1. task[w].cube \in SUBSET Model
        BY <1>0, PayloadFacts DEF WorkType
    <2> QED
        BY <1>4, <2>1, ProblemFacts
<1>8. m \in Int /\ BookModels' = BookModels + m /\ n \in Int /\ BookTasks' = BookTasks + n
    <2>1. BookModels \in Nat /\ BookTasks \in Nat
        BY <1>1, BalanceFinite
    <2> HIDE DEF c
    <2> QED
        BY <1>3, <1>7, <2>1 DEF c
<1>9. total'[current] + m + Cardinality(Hand(w)') = total[current] + Cardinality(Hand(w))
    <2>1. total[current] \in Nat /\ total'[current] = total[current]
        BY <1>0, <1>1, <1>2 DEF ServerType
    <2> DEFINE t == total[current]
    <2> HIDE DEF c, t
    <2>2. t + (0 - c) + c = t + 0
        BY <1>7, <2>1 DEF t
    <2> QED
        BY <1>5, <1>7, <2>1, <2>2 DEF t
<1>10. totalTasks' - completedTasks' - timedOutTasks' - n - Flight("removed") - Len(todo'[w])
          = totalTasks - completedTasks - timedOutTasks - Flight(pc[w]) - Len(todo[w])
    <2> DEFINE x == totalTasks - completedTasks - timedOutTasks
               r == Len(todo[w])
    <2>1. x \in Int /\ r \in Nat
        <3>1. SeqFamily(Workers, todo)
            BY <1>1, BalanceFinite
        <3> QED
            BY <1>0, <3>1 DEF ServerType, SeqFamily
    <2> HIDE DEF x, r
    <2>2. x - (0 - 1) - 1 - r = x - 0 - r
        BY <2>1
    <2> QED
        BY <1>2, <1>6, <2>2 DEF x, r
<1> HIDE DEF m, n
<1> QED
    BY <1>1, <1>2, <1>8, <1>9, <1>10, WorkerBalance

\* The halves of a cube are its models.
LEMMA SplitBalance ==
    ASSUME Shape, Shape', Balance, NEW w \in Workers, SplitTimedOut(w)
    PROVE  Balance'
<1>0. WorkType /\ SolveType /\ Flow /\ ServerType
    BY DEF Shape, TypeOK
<1>1. /\ UNCHANGED <<book, total, completedTasks, timedOutTasks, current, stodo>>
      /\ totalTasks' = totalTasks + 2 /\ Goto(w, "enqueue") /\ pc[w] = "split"
      /\ cube' = [cube EXCEPT ![w] = {}]
    BY DEF SplitTimedOut, managerVars, solveVars
<1>2. PICK h \in SUBSET cube[w] :
          /\ todo'[w] = <<h, cube[w] \ h>> /\ Len(todo'[w]) = 2
          /\ todo'[w][1] = h /\ todo'[w][2] = cube[w] \ h
          /\ DOMAIN todo'[w] = {1, 2}
          /\ \A v \in Workers : v # w => todo'[v] = todo[v]
    BY <1>0, SplitFacts
<1>3. current \in Files /\ \A v \in Workers : v # w => cube'[v] = cube[v]
    BY <1>0, <1>1, FileFacts DEF WorkType
<1>4. pc'[w] = "enqueue"
    BY <1>0, <1>1, GotoFacts
<1>5. Hand(w)' = Hand(w)
    <2>1. Hand(w) = cube[w]
        BY <1>1 DEF Hand
    <2>2. Hand(w)' = UNION {todo'[w][i] : i \in {1, 2}}
        BY <1>2, <1>4 DEF Hand
    <2>3. UNION {todo'[w][i] : i \in {1, 2}} = todo'[w][1] \cup todo'[w][2]
        OBVIOUS
    <2> QED
        BY <1>2, <2>1, <2>2, <2>3
<1>6. Flight("enqueue") = 0 /\ Flight(pc[w]) = 0
    BY <1>1 DEF Flight
<1>7. todo[w] = <<>> /\ Len(todo[w]) = 0
    BY <1>0, <1>1 DEF Flow
<1>8. totalTasks' - completedTasks' - timedOutTasks' - Flight("enqueue") - Len(todo'[w])
         = totalTasks - completedTasks - timedOutTasks - Flight(pc[w]) - Len(todo[w])
    <2> DEFINE a == totalTasks
               b == completedTasks
               c == timedOutTasks
    <2>1. a \in Nat /\ b \in Nat /\ c \in Nat
        BY <1>0 DEF ServerType
    <2> HIDE DEF a, b, c
    <2>2. (a + 2) - b - c - 0 - 2 = a - b - c - 0 - 0
        BY <2>1
    <2> QED
        BY <1>1, <1>2, <1>6, <1>7, <2>2 DEF a, b, c
<1> QED
    BY <1>1, <1>2, <1>3, <1>5, <1>8, QuietBalance

\* A half that is enqueued goes from the handler into the book.
LEMMA HalfBalance ==
    ASSUME Shape, Shape', OneFile, Balance, NEW w \in Workers, EnqueueHalf(w)
    PROVE  Balance'
<1>0. WorkType /\ SolveType /\ Flow /\ ServerType
    BY DEF Shape, TypeOK
<1> DEFINE h == todo[w][1]
           l == IF Len(todo[w]) = 1 THEN "readActive" ELSE "enqueue"
<1>1. /\ current \in Files /\ Enqueue(current, h) /\ h \in SUBSET Model
      /\ UNCHANGED <<current, cube>>
    BY HalfFile
<1>2. /\ UNCHANGED <<total, completedTasks, timedOutTasks, totalTasks, stodo>>
      /\ pc[w] = "enqueue" /\ Goto(w, l)
    BY DEF EnqueueHalf, counterVars, solveVars
<1>3. /\ Len(todo[w]) \in 1..2 /\ Len(todo'[w]) = Len(todo[w]) - 1
      /\ Len(todo[w]) = 1 => todo'[w] = <<>> /\ DOMAIN todo[w] = {1}
      /\ Len(todo[w]) = 2 => /\ DOMAIN todo[w] = {1, 2}
                             /\ DOMAIN todo'[w] = {1} /\ todo'[w][1] = todo[w][2]
      /\ \A v \in Workers : v # w => todo'[v] = todo[v]
    BY <1>0, HalfFacts
<1>4. BookModels' = BookModels + Cardinality(h) /\ BookTasks' = BookTasks + 1
    BY <1>1, BookAdds
<1>5. pc'[w] = l /\ l \in {"readActive", "enqueue"}
    BY <1>0, <1>2, GotoFacts
<1>6. Hand(w) = UNION {todo[w][i] : i \in DOMAIN todo[w]}
    BY <1>2 DEF Hand
<1>7. Hand(w)' = UNION {todo'[w][i] : i \in DOMAIN todo'[w]}
    BY <1>5 DEF Hand
<1>8. Hand(w) = h \cup Hand(w)' /\ h \cap Hand(w)' = {}
    <2>1. CASE Len(todo[w]) = 1
        <3>1. DOMAIN todo'[w] = {} /\ DOMAIN todo[w] = {1}
            BY <1>3, <2>1
        <3>2. Hand(w)' = {} /\ Hand(w) = h
            BY <1>6, <1>7, <3>1
        <3> QED
            BY <3>2
    <2>2. CASE Len(todo[w]) = 2
        <3>1. /\ DOMAIN todo'[w] = {1} /\ DOMAIN todo[w] = {1, 2}
              /\ todo'[w][1] = todo[w][2] /\ h \cap todo[w][2] = {}
            BY <1>0, <1>3, <2>2 DEF Flow
        <3>2. Hand(w)' = todo[w][2]
            BY <1>7, <3>1
        <3>3. Hand(w) = h \cup todo[w][2]
            BY <1>6, <3>1
        <3> QED
            BY <3>1, <3>2, <3>3
    <2> QED
        BY <1>3, <2>1, <2>2
<1> DEFINE g == Hand(w)'
<1>9. /\ Cardinality(h) \in Nat /\ Cardinality(g) \in Nat
      /\ Cardinality(Hand(w)) = Cardinality(h) + Cardinality(g)
    <2>1. Hand(w) \in SUBSET Model
        BY <1>0, HandFacts
    <2>2. g \in SUBSET Model /\ Hand(w) = h \cup g /\ h \cap g = {}
        BY <1>8, <2>1
    <2> HIDE DEF h, g
    <2>3. IsFiniteSet(h) /\ IsFiniteSet(g) /\ Cardinality(h) \in Nat /\ Cardinality(g) \in Nat
        BY <1>1, <2>2, ProblemFacts
    <2>4. Cardinality(h \cup g) = Cardinality(h) + Cardinality(g) - Cardinality(h \cap g)
        BY <2>3, FS_Union
    <2>5. Cardinality(h \cap g) = 0
        BY <2>2, FS_EmptySet
    <2> QED
        BY <2>2, <2>3, <2>4, <2>5
<1> DEFINE m == Cardinality(h)
<1>10. total'[current] + m + Cardinality(Hand(w)') = total[current] + Cardinality(Hand(w))
    <2> DEFINE t == total[current]
               k == Cardinality(g)
    <2>1. t \in Nat /\ total'[current] = t
        BY <1>0, <1>1, <1>2 DEF ServerType
    <2>2. m \in Nat /\ k \in Nat /\ Cardinality(Hand(w)) = m + k
        BY <1>9
    <2> HIDE DEF t, k, m
    <2>3. t + m + k = t + (m + k)
        BY <2>1, <2>2
    <2> QED
        BY <2>1, <2>2, <2>3 DEF t, k
<1>11. Flight(l) = 0 /\ Flight(pc[w]) = 0
    BY <1>2, <1>5 DEF Flight
<1>12. totalTasks' - completedTasks' - timedOutTasks' - 1 - Flight(l) - Len(todo'[w])
          = totalTasks - completedTasks - timedOutTasks - Flight(pc[w]) - Len(todo[w])
    <2> DEFINE x == totalTasks - completedTasks - timedOutTasks
               r == Len(todo[w])
    <2>1. x \in Int /\ r \in Nat
        BY <1>0, <1>3 DEF ServerType
    <2>2. Len(todo'[w]) = r - 1
        BY <1>3
    <2> HIDE DEF x, r, l
    <2>3. x - 1 - 0 - (r - 1) = x - 0 - r
        BY <2>1
    <2> QED
        BY <1>2, <1>11, <2>2, <2>3 DEF x, r
<1>13. m \in Int /\ 1 \in Int
    BY <1>9
<1>14. BookModels' = BookModels + m
    BY <1>4
<1> HIDE DEF h, l, g, m
<1> QED
    BY <1>1, <1>2, <1>3, <1>4, <1>10, <1>12, <1>13, <1>14, WorkerBalance

\* What is added to the total is what the handler had, and the total is the
\* one of its file.
LEMMA AddBalance ==
    ASSUME Shape, Shape', OneFile, Balance, NEW w \in Workers, AddCount(w)
    PROVE  Balance'
<1>0. WorkType /\ SolveType /\ Flow /\ ServerType
    BY DEF Shape, TypeOK
<1>1. /\ UNCHANGED <<book, completedTasks, timedOutTasks, totalTasks, current, stodo, todo>>
      /\ pc[w] = "adding" /\ Goto(w, "added") /\ cube' = [cube EXCEPT ![w] = {}]
    BY DEF AddCount, managerVars, counterVars, solveVars
<1>2. current \in Files /\ recv[w] = current /\ cube[w] = task[w].cube
    BY <1>0, <1>1, FileFacts DEF OneFile, OwnFile
<1>3. total' = [total EXCEPT ![current] = total[current] + Cardinality(cube[w])]
    BY <1>2 DEF AddCount
<1>4. total'[current] = total[current] + Cardinality(cube[w]) /\ total[current] \in Nat
    BY <1>0, <1>2, <1>3 DEF ServerType
<1>5. pc'[w] = "added"
    BY <1>0, <1>1, GotoFacts
<1>6. Hand(w) = cube[w]
    BY <1>1 DEF Hand
<1>7. todo[w] = <<>> /\ DOMAIN todo[w] = {}
    BY <1>0, <1>1 DEF Flow
<1>8. Hand(w)' = {}
    BY <1>1, <1>5, <1>7 DEF Hand
<1>9. Cardinality(Hand(w)') = 0 /\ Cardinality(Hand(w)) \in Nat
    BY <1>0, <1>8, FS_EmptySet, HandFacts
<1>10. total'[current] + Cardinality(Hand(w)') = total[current] + Cardinality(Hand(w))
    <2> DEFINE t == total[current]
               h == Cardinality(Hand(w))
    <2>1. t \in Nat /\ h \in Nat /\ total'[current] = t + h
        BY <1>4, <1>6, <1>9
    <2> HIDE DEF t, h
    <2>2. (t + h) + 0 = t + h
        BY <2>1
    <2> QED
        BY <1>9, <2>1, <2>2 DEF t, h
<1>11. Flight("added") = Flight(pc[w])
    BY <1>1 DEF Flight
<1>12. \A v \in Workers : v # w => cube'[v] = cube[v]
    BY <1>0, <1>1 DEF WorkType
<1> QED
    BY <1>1, <1>2, <1>10, <1>11, <1>12, QuietBalance

\* Solve has nothing to do with the handlers.
LEMMA HandsStay ==
    ASSUME UNCHANGED <<pc, cube, todo>>
    PROVE  HandModels' = HandModels /\ InFlightTasks' = InFlightTasks /\ HalfTasks' = HalfTasks
<1>1. Hands' = Hands
    BY DEF Hands, Hand
<1> QED
    BY <1>1 DEF HandModels, InFlightTasks, InFlight, HalfTasks

\* Between two files nobody has anything of a task.
LEMMA NothingLeft ==
    ASSUME Shape, \A w \in Workers : ~Handling(w)
    PROVE  HandModels = 0 /\ InFlightTasks = 0 /\ HalfTasks = 0
<1>0. WorkType /\ Flow
    BY DEF Shape, TypeOK
<1>1. \A w \in Workers : Hands[w] = {}
    BY <1>0, HandFacts DEF Handling
<1>2. InFlight = {}
    BY DEF InFlight, Handling
<1>3. \A w \in Workers : todo[w] = <<>>
    BY <1>0 DEF Handling, Flow
<1>4. HandModels = 0
    BY <1>1, TaggedEmpty DEF HandModels
<1>5. InFlightTasks = 0
    BY <1>2, FS_EmptySet DEF InFlightTasks
<1>6. HalfTasks = 0
    <2> DEFINE f == [w \in Workers |-> DOMAIN todo[w]]
    <2>1. \A w \in Workers : f[w] = {}
        BY <1>3
    <2> HIDE DEF f
    <2>2. Cardinality(Tagged(Workers, f)) = 0
        BY <2>1, TaggedEmpty
    <2> QED
        BY <2>2 DEF HalfTasks, Slots, f
<1> QED
    BY <1>4, <1>5, <1>6

\* The book of a file without tasks.
LEMMA EmptyBook ==
    ASSUME DOMAIN book[current] = {}
    PROVE  BookModels = 0 /\ BookTasks = 0
<1>1. Cardinality(Tagged({}, book[current])) = 0
    BY TaggedEmpty
<1> QED
    BY <1>1, FS_EmptySet DEF BookModels, BookTasks

\* The cubes of a file have each of its models once.
LEMMA ProblemCount ==
    ASSUME NEW k \in Files
    PROVE  Cardinality(Tagged(1..Len(Problems[k]), Problems[k])) = Cardinality(ModelsOf(k))
<1> DEFINE P == 1..Len(Problems[k])
           f == Problems[k]
<1>1. f \in Seq(SUBSET Model) /\ DOMAIN f = P /\ Len(f) \in Nat
    BY ProblemFacts
<1>2. IsFiniteSet(P)
    BY <1>1, FS_Interval
<1>3. FiniteFamily(P, f)
    BY <1>1, ProblemFacts DEF FiniteFamily
<1>4. ASSUME NEW i \in P, NEW j \in P, i # j PROVE f[i] \cap f[j] = {}
    <2>1. k \in DOMAIN Problems /\ <<k, i>> # <<k, j>>
        BY <1>4 DEF Files
    <2> QED
        BY <1>1, <2>1, BatchAssumption
<1>5. ModelsOf(k) = UNION {f[i] : i \in P}
    BY <1>1 DEF ModelsOf
<1> HIDE DEF P, f
<1>6. Cardinality(Tagged(P, f)) = Cardinality(UNION {f[i] : i \in P})
    BY <1>2, <1>3, <1>4, TaggedDisjoint
<1> QED
    BY <1>5, <1>6 DEF P, f

\* A new file: all its cubes are still to be enqueued, and nothing is left of
\* the file before.
LEMMA ResetBalance ==
    ASSUME Shape, OneFile, SolveReset
    PROVE  Balance'
<1>0. ManagerType /\ SolveType /\ WorkType /\ Flow /\ ServerType /\ current \in Nat
    BY FileFacts DEF Shape, TypeOK
<1> DEFINE k == current + 1
           n == Len(Problems[k])
<1>1. /\ spc = "next" /\ current' = k /\ UNCHANGED <<book, total, pc, cube, todo>>
      /\ completedTasks' = 0 /\ timedOutTasks' = 0 /\ totalTasks' = n /\ stodo' = Problems[k]
    BY DEF SolveReset, managerVars, workVars
<1>2. k \in Files /\ k > current
    BY <1>0, ProblemFacts DEF SolveReset, SolveType
<1>3. n \in Nat
    BY <1>2, ProblemFacts
<1>4. \A w \in Workers : ~Handling(w)
    BY <1>1 DEF OneFile, OwnFile
<1>5. HandModels' = 0 /\ InFlightTasks' = 0 /\ HalfTasks' = 0
    BY <1>1, <1>4, HandsStay, NothingLeft
<1>6. DOMAIN book[k] = {}
    BY <1>1, <1>2 DEF OneFile, OneBook
<1> HIDE DEF k, n
<1>7. BookModels' = 0 /\ BookTasks' = 0
    <2>1. Cardinality(Tagged({}, book[k])) = 0
        BY TaggedEmpty
    <2> QED
        BY <1>1, <1>6, <2>1, FS_EmptySet DEF BookModels, BookTasks
<1>8. UnreadModels' = Cardinality(ModelsOf(k))
    <2>1. Len(stodo') = n /\ Len(Problems[current']) = n
        BY <1>1 DEF n
    <2>2. Unread' = (n - n + 1)..n
        BY <2>1 DEF Unread
    <2>3. n - n + 1 = 1
        BY <1>3
    <2>4. Unread' = 1..n
        BY <2>2, <2>3
    <2>5. Cardinality(Tagged(1..n, Problems[k])) = Cardinality(ModelsOf(k))
        BY <1>2, ProblemCount DEF n
    <2> QED
        BY <1>1, <2>4, <2>5 DEF UnreadModels
<1>9. total'[current'] = 0
    BY <1>0, <1>1, <1>2 DEF Flow
<1>10. Cardinality(ModelsOf(k)) \in Nat
    <2>1. Problems[k] \in Seq(SUBSET Model)
        BY <1>2, ProblemFacts
    <2>2. ModelsOf(k) \in SUBSET Model
        BY <2>1 DEF ModelsOf
    <2> QED
        BY <2>2, ProblemFacts
<1>11. total'[current'] + BookModels' + UnreadModels' + HandModels' = Cardinality(ModelsOf(k))
    BY <1>5, <1>7, <1>8, <1>9, <1>10
<1>12. totalTasks' = completedTasks' + timedOutTasks' + Outstanding'
    <2>1. Outstanding' = 0 + n + 0 + 0
        BY <1>1, <1>5, <1>7 DEF Outstanding, n
    <2> QED
        BY <1>1, <1>3, <2>1
<1>13. ModelsOf(current)' = ModelsOf(k)
    BY <1>1 DEF ModelsOf
<1> QED
    BY <1>11, <1>12, <1>13 DEF Balance

\* A cube that Solve enqueues goes from the file into the book.
LEMMA EnqueueBalance ==
    ASSUME Shape, Balance, SolveEnqueue
    PROVE  Balance'
<1>0. ManagerType /\ SolveType /\ WorkType /\ Flow /\ ServerType /\ Suffix /\ current \in Nat
    BY FileFacts DEF Shape, TypeOK
<1> DEFINE c == Head(stodo)
           P == Problems[current]
           n == Len(P)
           s == Len(stodo)
           p == n - s + 1
<1>1. /\ spc = "enqueue" /\ stodo # <<>> /\ stodo' = Tail(stodo) /\ Enqueue(current, c)
      /\ UNCHANGED <<current, total, completedTasks, timedOutTasks, totalTasks, pc, cube, todo>>
    BY <1>0 DEF SolveEnqueue, Flow, counterVars, workVars
<1>2. current \in Files
    BY <1>0, <1>1, FileFacts
<1>3. /\ c \in SUBSET Model /\ c = stodo[1] /\ 1 \in DOMAIN stodo
      /\ s \in Nat \ {0} /\ Len(stodo') = s - 1
    BY <1>0, <1>1, HeadAndTail DEF SolveType
<1>4. n \in Nat /\ s <= n /\ c = P[p]
    <2>1. n \in Nat
        BY <1>2, ProblemFacts
    <2> QED
        BY <1>0, <1>1, <1>3, <2>1 DEF Suffix
<1>5. BookModels' = BookModels + Cardinality(c) /\ BookTasks' = BookTasks + 1
    BY <1>1, <1>2, <1>3, BookAdds
<1>6. HandModels' = HandModels /\ InFlightTasks' = InFlightTasks /\ HalfTasks' = HalfTasks
    BY <1>1, HandsStay
<1>7. UnreadModels' = UnreadModels - Cardinality(c)
    <2>1. Unread = p..n
        BY DEF Unread
    <2>2. Unread' = (n - (s - 1) + 1)..n
        BY <1>1, <1>3 DEF Unread
    <2>3. p \in Unread /\ Unread' = Unread \ {p}
        <3> HIDE DEF n, s, P, c
        <3> QED
            BY <1>3, <1>4, <2>1, <2>2
    <2>4. IsFiniteSet(Unread) /\ FiniteFamily(Unread, P)
        BY <1>2, BalanceFinite
    <2> DEFINE U == Unread
    <2>5. p \in U /\ IsFiniteSet(U) /\ FiniteFamily(U, P) /\ \A q \in U \ {p} : P[q] = P[q]
        BY <2>3, <2>4
    <2> HIDE DEF U, p, P, c
    <2>6. Cardinality(Tagged(U \ {p}, P)) = Cardinality(Tagged(U, P)) - Cardinality(P[p])
        BY <2>5, TaggedRemove
    <2> QED
        BY <1>1, <1>4, <2>3, <2>6 DEF UnreadModels, U, P
<1>8. /\ BookModels \in Nat /\ UnreadModels \in Nat /\ HandModels \in Nat
      /\ BookTasks \in Nat /\ InFlightTasks \in Nat /\ HalfTasks \in Nat
    BY <1>2, BalanceFinite
<1>9. total[current] \in Nat /\ Cardinality(c) \in Nat /\ current > 0
    BY <1>0, <1>2, <1>3, ProblemFacts DEF ServerType
<1>10. total'[current] + BookModels' + UnreadModels' + HandModels' = Cardinality(ModelsOf(current))
    <2> DEFINE t == total[current]
               x == Cardinality(c)
    <2>1. t + BookModels + UnreadModels + HandModels = Cardinality(ModelsOf(current))
        BY <1>9 DEF Balance
    <2>2. t \in Nat /\ x \in Nat
        BY <1>9
    <2> HIDE DEF t, x
    <2>3. t + (BookModels + x) + (UnreadModels - x) + HandModels
             = t + BookModels + UnreadModels + HandModels
        BY <1>8, <2>2
    <2> QED
        BY <1>1, <1>5, <1>6, <1>7, <2>1, <2>3 DEF t, x
<1>11. Outstanding' = Outstanding
    <2>1. /\ Outstanding = BookTasks + s + InFlightTasks + HalfTasks
          /\ Outstanding' = (BookTasks + 1) + (s - 1) + InFlightTasks + HalfTasks
        BY <1>3, <1>5, <1>6 DEF Outstanding
    <2> HIDE DEF s
    <2> QED
        BY <1>3, <1>8, <2>1
<1>12. totalTasks' = completedTasks' + timedOutTasks' + Outstanding'
    BY <1>1, <1>9, <1>11 DEF Balance
<1>13. ModelsOf(current)' = ModelsOf(current)
    BY <1>1 DEF ModelsOf
<1> QED
    BY <1>1, <1>10, <1>12, <1>13 DEF Balance

LEMMA BalanceStep ==
    ASSUME Shape, Shape', OneFile, OnePlace, Balance, [Next]_vars
    PROVE  Balance'
<1>1. ASSUME UNCHANGED <<current, book, stodo, total, completedTasks, timedOutTasks, totalTasks,
                         pc, cube, todo>>
      PROVE  Balance'
    <2>1. HandModels' = HandModels /\ InFlightTasks' = InFlightTasks /\ HalfTasks' = HalfTasks
        BY <1>1, HandsStay
    <2>2. /\ BookModels' = BookModels /\ BookTasks' = BookTasks /\ UnreadModels' = UnreadModels
          /\ Len(stodo') = Len(stodo)
        BY <1>1 DEF BookModels, BookTasks, UnreadModels, Unread
    <2>3. Outstanding' = Outstanding
        BY <2>1, <2>2 DEF Outstanding
    <2>4. ModelsOf(current)' = ModelsOf(current)
        BY <1>1 DEF ModelsOf
    <2> QED
        BY <1>1, <2>1, <2>2, <2>3, <2>4 DEF Balance
<1>2. CASE SolveReceiveDone \/ SolveLogResult \/ UNCHANGED vars
    BY <1>1, <1>2 DEF SolveReceiveDone, SolveLogResult, vars, managerVars, counterVars,
                      solveVars, workVars
<1> QED
    BY <1>2, NextCases, ResetBalance, EnqueueBalance, IdleBalance, CountBalance, RemoveBalance,
       SplitBalance, HalfBalance, AddBalance

-----------------------------------------------------------------------------
(***************************************************************************)
(* The rows.                                                               *)
(***************************************************************************)
\* A Solve that logs on time logs the model count of its file, and counters
\* that add up.
LEMMA LogRight ==
    ASSUME Shape, OneFile, OnePlace, Balance, SolveLogResult, ~early'
    PROVE  /\ current \in Files
           /\ total[current] = Cardinality(ModelsOf(current))
           /\ completedTasks + timedOutTasks = totalTasks
<1>0. SolveType /\ WorkType /\ Flow /\ ServerType /\ Suffix
    BY DEF Shape, TypeOK
<1>1. spc = "log" /\ current \in Files /\ stodo = <<>>
    BY <1>0, FileFacts DEF SolveLogResult, Flow
<1>2. DOMAIN book[current] = {} /\ \A w \in Workers : ~Handling(w)
    BY LogFacts
<1>3. BookModels = 0 /\ BookTasks = 0
    BY <1>2, EmptyBook
<1>4. HandModels = 0 /\ InFlightTasks = 0 /\ HalfTasks = 0
    BY <1>2, NothingLeft
<1>5. UnreadModels = 0
    <2>1. Len(stodo) = 0 /\ Len(Problems[current]) \in Nat
        BY <1>1, ProblemFacts
    <2>2. Unread = (Len(Problems[current]) - 0 + 1)..Len(Problems[current])
        BY <2>1 DEF Unread
    <2> DEFINE n == Len(Problems[current])
    <2>3. (n - 0 + 1)..n = {}
        <3> HIDE DEF n
        <3> QED
            BY <2>1 DEF n
    <2>4. Unread = {}
        BY <2>2, <2>3
    <2>5. Cardinality(Tagged({}, Problems[current])) = 0
        BY TaggedEmpty
    <2> QED
        BY <2>4, <2>5 DEF UnreadModels
<1>6. current > 0 /\ total[current] \in Nat
    BY <1>0, <1>1, ProblemFacts DEF ServerType
<1>7. total[current] = Cardinality(ModelsOf(current))
    <2>1. total[current] + 0 + 0 + 0 = Cardinality(ModelsOf(current))
        BY <1>3, <1>4, <1>5, <1>6 DEF Balance
    <2> QED
        BY <1>6, <2>1
<1>8. completedTasks + timedOutTasks = totalTasks
    <2>1. Outstanding = 0
        <3>1. Outstanding = 0 + Len(stodo) + 0 + 0 /\ Len(stodo) = 0
            BY <1>1, <1>3, <1>4 DEF Outstanding
        <3> QED
            BY <3>1
    <2>2. totalTasks = completedTasks + timedOutTasks + Outstanding
        BY <1>6 DEF Balance
    <2>3. completedTasks \in Nat /\ timedOutTasks \in Nat
        BY <1>0 DEF ServerType
    <2> QED
        BY <2>1, <2>2, <2>3
<1> QED
    BY <1>1, <1>7, <1>8

LEMMA RowsStep ==
    ASSUME Shape, ~early => OnTime, RowsAreRight, [Next]_vars
    PROVE  RowsAreRight'
<1> SUFFICES ASSUME ~early' PROVE RowsAreRight'
    BY DEF RowsAreRight
<1>0. ~early /\ OneFile /\ OnePlace /\ Balance
    BY EarlyStays DEF OnTime
<1>1. \A k \in DOMAIN rows : /\ rows[k].count = Cardinality(ModelsOf(k))
                             /\ rows[k].completed + rows[k].timedOut = rows[k].total
    BY <1>0 DEF RowsAreRight
<1>2. CASE SolveLogResult
    <2> DEFINE r == [count |-> total[current], completed |-> completedTasks,
                     timedOut |-> timedOutTasks, total |-> totalTasks]
    <2>1. rows' = Append(rows, r)
        BY <1>2 DEF SolveLogResult
    <2>2. /\ current \in Files /\ total[current] = Cardinality(ModelsOf(current))
          /\ completedTasks + timedOutTasks = totalTasks
        BY <1>0, <1>2, LogRight
    <2>3. r.count = Cardinality(ModelsOf(current)) /\ r.completed + r.timedOut = r.total
        BY <2>2
    <2>4. /\ rows \in Seq([count : Nat, completed : Nat, timedOut : Nat, total : Nat])
          /\ Len(rows) = current - 1 /\ current \in Nat
        BY <1>2, FileFacts DEF Shape, TypeOK, SolveType, Flow, SolveLogResult
    <2> HIDE DEF r
    <2>5. /\ DOMAIN rows' = DOMAIN rows \cup {Len(rows) + 1}
          /\ \A k \in DOMAIN rows : rows'[k] = rows[k]
          /\ rows'[Len(rows) + 1] = r
        <3>1. /\ Len(Append(rows, r)) = Len(rows) + 1 /\ Len(rows) \in Nat
              /\ \A k \in 1..Len(rows) : Append(rows, r)[k] = rows[k]
              /\ Append(rows, r)[Len(rows) + 1] = r
            BY <2>4
        <3>2. DOMAIN rows = 1..Len(rows) /\ DOMAIN Append(rows, r) = 1..(Len(rows) + 1)
            BY <2>4, <3>1
        <3> QED
            BY <2>1, <3>1, <3>2
    <2>6. Len(rows) + 1 = current
        BY <2>4
    <2>7. ASSUME NEW k \in DOMAIN rows'
          PROVE  /\ rows'[k].count = Cardinality(ModelsOf(k))
                 /\ rows'[k].completed + rows'[k].timedOut = rows'[k].total
        <3>1. CASE k \in DOMAIN rows
            BY <1>1, <2>5, <3>1
        <3>2. CASE k = current
            BY <2>3, <2>5, <2>6, <3>2
        <3> QED
            BY <2>5, <2>6, <2>7, <3>1, <3>2
    <2>8. \A k \in DOMAIN rows' : ModelsOf(k)' = ModelsOf(k)
        BY DEF ModelsOf
    <2> QED
        BY <2>7, <2>8 DEF RowsAreRight
<1>3. ASSUME UNCHANGED <<rows, early>> PROVE RowsAreRight'
    BY <1>1, <1>3 DEF RowsAreRight, ModelsOf
<1> QED
    BY <1>2, <1>3, NextCases
    DEF SolveReset, SolveEnqueue, SolveReceiveDone, GetTask, GetTaskPop, GetTaskTimeout, Ganak,
        ReadManager, GetAndRemoveTask, CountTimeout, SplitTimedOut, EnqueueHalf, LoadTotal,
        AddCount, CompleteTask, ReadActive, ReadQueueAndSignal, vars, solveVars

\* Until a Solve logs too early, the row of every file is its own model count
\* and its counters add up, for any files and any number of workers, although
\* the handlers of one file may still run when Solve replaces the task
\* manager, the total and the channel for the next.
THEOREM RowsHold == Spec => []RowsAreRight
<1>1. Init => IInv
    <2> SUFFICES ASSUME Init PROVE IInv
        OBVIOUS
    <2>1. Shape /\ OneFile /\ OnePlace
        BY InitShape, InitOnTime
    <2>2. Balance /\ RowsAreRight
        BY DEF Init, Balance, RowsAreRight
    <2> QED
        BY <2>1, <2>2 DEF IInv, OnTime
<1>2. IInv /\ [Next]_vars => IInv'
    <2> SUFFICES ASSUME IInv, [Next]_vars PROVE IInv'
        OBVIOUS
    <2>1. Shape /\ Shape' /\ (~early => OnTime)
        BY ShapeStep DEF IInv
    <2>2. ASSUME ~early' PROVE OnTime'
        <3>1. OneFile /\ OnePlace /\ Balance
            BY <2>1, <2>2, EarlyStays DEF OnTime
        <3>2. OneFile' /\ OnePlace'
            BY <2>1, <2>2, <3>1, OneFileStep, OnePlaceStep
        <3>3. Balance'
            BY <2>1, <3>1, BalanceStep
        <3> QED
            BY <3>2, <3>3 DEF OnTime
    <2>3. RowsAreRight'
        BY <2>1, RowsStep DEF IInv
    <2> QED
        BY <2>1, <2>2, <2>3 DEF IInv
<1>3. IInv => RowsAreRight
    BY DEF IInv
<1> QED
    BY <1>1, <1>2, <1>3, PTL DEF Spec
=============================================================================
