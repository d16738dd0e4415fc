--------------------------- MODULE CubePoolProofs ---------------------------
(***************************************************************************)
(* What holds of the cube generator's thread pool for every formula, every *)
(* number of threads and every limit.                                      *)
(***************************************************************************)
EXTENDS CubePool, CubesProofs

-----------------------------------------------------------------------------
(***************************************************************************)
(* Types.                                                                  *)
(***************************************************************************)

\* Cubes stay sets of literals under propagation, and splitting.
LEMMA FormulaType ==
    ASSUME TypeOK
    PROVE  clauses \in Seq(Seq(Literals(NumVars))) /\ NumVars \in Nat
BY PoolAssumption DEF TypeOK

LEMMA BranchesType ==
    ASSUME TypeOK, NEW c \in CubeType, NEW v \in FreeVariables(c)
    PROVE  /\ v \in 1..NumVars
           /\ c \cup {v} \in CubeType /\ c \cup {-v} \in CubeType
           /\ Branches(c, v) \in SUBSET CubeType
<1>1. v \in 1..NumVars /\ NumVars \in Nat
    BY PoolAssumption DEF FreeVariables
<1>2. v \in Literals(NumVars) /\ -v \in Literals(NumVars)
    BY <1>1 DEF Literals
<1>3. c \cup {v} \in CubeType /\ c \cup {-v} \in CubeType
    BY <1>2 DEF CubeType
<1>4. Propagate(c \cup {v}) \in CubeType /\ Propagate(c \cup {-v}) \in CubeType
    BY <1>1, <1>3, ClosureType DEF Propagate, CubeType
<1> QED
    BY <1>1, <1>3, <1>4 DEF Branches

LEMMA TypeInit == Init => TypeOK
<1> SUFFICES ASSUME Init PROVE TypeOK
    OBVIOUS
<1>1. NumVars \in Nat
    BY PoolAssumption
<1>2. PICK units \in InitQueue(clauses) : queue = {units}
    BY DEF Init
<1>3. Closure(NumVars, clauses, {}) \in SUBSET Literals(NumVars)
    BY <1>1, ClosureType
<1>4. units \in CubeType
    BY <1>2, <1>3 DEF InitQueue, CubeType
<1> QED
    BY <1>2, <1>4 DEF Init, TypeOK, MainLocations, CubeType

\* The main thread has halves to submit exactly while it submits them, and a
\* half that is submitted is not pending.
PendingPlaced ==
    /\ pc \in {"count", "push"} => pending # {}
    /\ pc \notin {"count", "push", "notify"} => pending = {}
    /\ pending \cap jobQueue = {}

Counted == TypeOK /\ InFlightExact /\ PendingPlaced

\* The containers of the pool are finite.
LEMMA FinitePool ==
    ASSUME TypeOK
    PROVE  /\ IsFiniteSet(jobQueue) /\ Cardinality(jobQueue) \in Nat
           /\ IsFiniteSet(Busy) /\ Cardinality(Busy) \in Nat
<1>1. IsFiniteSet((-NumVars)..NumVars)
    BY PoolAssumption, FS_Interval
<1>2. Literals(NumVars) \subseteq (-NumVars)..NumVars
    BY DEF Literals
<1>3. IsFiniteSet(Literals(NumVars))
    BY <1>1, <1>2, FS_Subset
<1>4. IsFiniteSet(CubeType)
    BY <1>3, FS_SUBSET DEF CubeType
<1>5. jobQueue \subseteq CubeType
    BY DEF TypeOK
<1>6. IsFiniteSet(jobQueue)
    BY <1>4, <1>5, FS_Subset
<1>7. IsFiniteSet(Threads) /\ Busy \subseteq Threads
    BY PoolAssumption DEF Busy
<1>8. IsFiniteSet(Busy)
    BY <1>7, FS_Subset
<1> QED
    BY <1>6, <1>8, FS_CardinalityType

\* A thread that is busy, or a job, is counted.
LEMMA CountedPositive ==
    ASSUME TypeOK, InFlightExact
    PROVE  /\ inFlight = 0 => jobQueue = {} /\ Busy = {} /\ pc # "push"
           /\ Busy # {} => inFlight > 0
<1>1. /\ Cardinality(jobQueue) \in Nat /\ Cardinality(Busy) \in Nat
      /\ Cardinality(jobQueue) = 0 <=> jobQueue = {}
      /\ Cardinality(Busy) = 0 <=> Busy = {}
    BY FinitePool, FS_EmptySet
<1>2. CASE pc = "push"
    BY <1>1, <1>2 DEF InFlightExact
<1>3. CASE pc # "push"
    BY <1>1, <1>3 DEF InFlightExact
<1> QED
    BY <1>2, <1>3

-----------------------------------------------------------------------------
(***************************************************************************)
(* The counter.  The steps are grouped by what they do to it.              *)
(***************************************************************************)

\* The steps of the main thread that leave the pool's queue and counter alone.
Aside ==
    \/ ExpandLeaf \/ ExpandSplit \/ ExpandAborts \/ NoExpand \/ SubmitNotify
    \/ DecideBlock \/ CollectResults \/ CollectWaits
    \/ CheckEmpty \/ CheckLimit \/ CheckTime
    \/ Drain \/ Shutdown \/ NotifyAll \/ Join

LEMMA NextCases ==
    ASSUME [Next]_vars
    PROVE  \/ Aside \/ SubmitCount \/ SubmitPush \/ Deadline \/ UNCHANGED vars
           \/ \E t \in Threads : TakeJob(t)
           \/ \E t \in Threads : SleepOrExit(t)
           \/ \E t \in Threads : PushResult(t)
           \/ \E t \in Threads : CountDown(t)
           \/ \E t \in Threads : NotifyMain(t)
BY Zenon DEF Next, Main, Thread, Aside

LEMMA CountSame ==
    ASSUME InFlightExact, jobQueue' = jobQueue, Busy' = Busy, inFlight' = inFlight,
           pc = "push" <=> pc' = "push"
    PROVE  InFlightExact'
BY DEF InFlightExact

LEMMA TypeNext ==
    ASSUME TypeOK, InFlightExact, [Next]_vars
    PROVE  TypeOK'
<1> USE DEF TypeOK, MainLocations
<1>1. CASE ExpandAborts
    BY <1>1 DEF ExpandAborts, mainVars, poolVars
<1>2. CASE NoExpand
    BY <1>2 DEF NoExpand, mainVars, poolVars
<1>3. CASE SubmitNotify
    BY <1>3 DEF SubmitNotify, Asleep, mainVars, poolVars
<1>4. CASE DecideBlock
    BY <1>4 DEF DecideBlock, mainVars, poolVars
<1>5. CASE CollectWaits
    BY <1>5 DEF CollectWaits, mainVars, poolVars
<1>6. CASE CheckEmpty
    BY <1>6 DEF CheckEmpty, mainVars, poolVars
<1>7. CASE CheckLimit
    BY <1>7 DEF CheckLimit, mainVars, poolVars
<1>8. CASE CheckTime
    BY <1>8 DEF CheckTime, mainVars, poolVars
<1>9. CASE Drain
    BY <1>9 DEF Drain, mainVars, poolVars
<1>10. CASE Shutdown
    BY <1>10 DEF Shutdown, mainVars, poolVars
<1>11. CASE NotifyAll
    BY <1>11 DEF NotifyAll, Asleep, mainVars, poolVars
<1>12. CASE Join
    BY <1>12 DEF Join, mainVars, poolVars
<1>13. CASE SubmitCount
    BY <1>13 DEF SubmitCount, mainVars, poolVars
<1>14. CASE SubmitPush
    BY <1>14 DEF SubmitPush, mainVars, poolVars
<1>15. CASE Deadline
    BY <1>15 DEF Deadline, mainVars, poolVars
<1>16. CASE ExpandLeaf
    BY <1>16 DEF ExpandLeaf, Top, poolVars
<1>17. CASE ExpandSplit
  <2>1. PICK c \in Top : \E v \in FreeVariables(c) :
            pending' = Branches(c, v) /\ queue' = queue \ {c}
      BY <1>17 DEF ExpandSplit
  <2>2. PICK v \in FreeVariables(c) : pending' = Branches(c, v)
      BY <2>1
  <2>3. c \in CubeType
      BY DEF Top
  <2>4. pending' \in SUBSET CubeType
      BY <2>2, <2>3, BranchesType
  <2>5. queue' \in SUBSET CubeType
      BY <2>1
  <2> QED
      BY <1>17, <2>4, <2>5 DEF ExpandSplit, poolVars
<1>18. CASE CollectResults
  <2>1. {r.lits : r \in {q \in results : q.sat}} \in SUBSET CubeType
      OBVIOUS
  <2> QED
      BY <1>18, <2>1 DEF CollectResults
<1>19. ASSUME NEW t \in Threads, TakeJob(t) PROVE TypeOK'
    BY <1>19 DEF TakeJob, mainVars, poolVars
<1>20. ASSUME NEW t \in Threads, SleepOrExit(t) PROVE TypeOK'
    BY <1>20 DEF SleepOrExit, mainVars, poolVars
<1>21. ASSUME NEW t \in Threads, NotifyMain(t) PROVE TypeOK'
    BY <1>21 DEF NotifyMain, mainVars, poolVars
<1>22. ASSUME NEW t \in Threads, PushResult(t) PROVE TypeOK'
  <2>1. Sat(cube[t]) \in BOOLEAN
      BY DEF Sat
  <2>2. [lits |-> cube[t], sat |-> Sat(cube[t])] \in [lits : CubeType, sat : BOOLEAN]
      BY <2>1
  <2> QED
      BY <1>22, <2>2 DEF PushResult, mainVars
<1>23. ASSUME NEW t \in Threads, CountDown(t) PROVE TypeOK'
  <2>1. t \in Busy
      BY <1>23 DEF CountDown, Busy
  <2>2. inFlight > 0
      BY <2>1, CountedPositive
  <2> QED
      BY <1>23, <2>2 DEF CountDown, mainVars
<1>24. CASE UNCHANGED vars
    BY <1>24 DEF vars, mainVars, poolVars
<1> QED
    BY <1>1, <1>2, <1>3, <1>4, <1>5, <1>6, <1>7, <1>8, <1>9, <1>10,
        <1>11, <1>12, <1>13, <1>14, <1>15, <1>16, <1>17, <1>18, <1>19,
        <1>20, <1>21, <1>22, <1>23, <1>24, NextCases, Zenon DEF Aside

\* The steps aside change neither the queue of jobs, nor who is busy, nor the
\* counter, nor whether a job is announced and not yet pushed.
LEMMA AsideCount ==
    ASSUME TypeOK, TypeOK', InFlightExact, Aside
    PROVE  InFlightExact'
<1>1. jobQueue' = jobQueue /\ inFlight' = inFlight
    BY DEF Aside, ExpandLeaf, ExpandSplit, ExpandAborts, NoExpand, SubmitNotify,
           DecideBlock, CollectResults, CollectWaits, CheckEmpty, CheckLimit,
           CheckTime, Drain, Shutdown, NotifyAll, Join, mainVars, poolVars
<1>2. pc # "push" /\ pc' # "push"
    BY DEF Aside, ExpandLeaf, ExpandSplit, ExpandAborts, NoExpand, SubmitNotify,
           DecideBlock, CollectResults, CollectWaits, CheckEmpty, CheckLimit,
           CheckTime, Drain, Shutdown, NotifyAll, Join, mainVars, poolVars
<1>3. \A t \in Threads : tpc'[t] = tpc[t] \/ (tpc[t] = "asleep" /\ tpc'[t] = "wait")
    BY DEF Aside, ExpandLeaf, ExpandSplit, ExpandAborts, NoExpand, SubmitNotify,
           DecideBlock, CollectResults, CollectWaits, CheckEmpty, CheckLimit,
           CheckTime, Drain, Shutdown, NotifyAll, Join, mainVars, poolVars,
           Asleep, TypeOK
<1>4. Busy' = Busy
    BY <1>3 DEF Busy
<1> QED
    BY <1>1, <1>2, <1>4, CountSame

LEMMA CountNext ==
    ASSUME TypeOK, TypeOK', InFlightExact, PendingPlaced, [Next]_vars
    PROVE  InFlightExact'
<1>0. /\ IsFiniteSet(jobQueue) /\ Cardinality(jobQueue) \in Nat
      /\ IsFiniteSet(Busy) /\ Cardinality(Busy) \in Nat
    BY FinitePool
<1>1. CASE Aside
    BY <1>1, AsideCount
<1>2. CASE SubmitCount
  <2>1. Busy' = Busy /\ jobQueue' = jobQueue /\ inFlight' = inFlight + 1
        /\ pc = "count" /\ pc' = "push"
      BY <1>2 DEF SubmitCount, Busy
  <2> QED
      BY <1>0, <2>1 DEF InFlightExact
<1>3. CASE SubmitPush
  <2>1. PICK c \in pending : jobQueue' = jobQueue \cup {c}
      BY <1>3 DEF SubmitPush
  <2>2. c \notin jobQueue
      BY DEF PendingPlaced
  <2>3. Cardinality(jobQueue') = Cardinality(jobQueue) + 1
      BY <1>0, <2>1, <2>2, FS_AddElement
  <2>4. Busy' = Busy /\ inFlight' = inFlight /\ pc = "push" /\ pc' = "notify"
      BY <1>3 DEF SubmitPush, Busy
  <2> QED
      BY <1>0, <2>3, <2>4 DEF InFlightExact
<1>4. CASE Deadline
  <2>1. Busy' = Busy
      BY <1>4 DEF Deadline, Busy
  <2> QED
      BY <1>4, <2>1, CountSame DEF Deadline, poolVars
<1>5. ASSUME NEW t \in Threads, TakeJob(t) PROVE InFlightExact'
  <2>1. PICK c \in jobQueue : jobQueue' = jobQueue \ {c}
      BY <1>5 DEF TakeJob
  <2>2. Cardinality(jobQueue') = Cardinality(jobQueue) - 1
      BY <1>0, <2>1, FS_RemoveElement
  <2>3. Busy' = Busy \cup {t} /\ t \notin Busy
      BY <1>5 DEF TakeJob, Busy, TypeOK
  <2>4. Cardinality(Busy') = Cardinality(Busy) + 1
      BY <1>0, <2>3, FS_AddElement
  <2>5. inFlight' = inFlight /\ pc' = pc
      BY <1>5 DEF TakeJob
  <2> QED
      BY <1>0, <2>2, <2>4, <2>5 DEF InFlightExact
<1>6. ASSUME NEW t \in Threads, SleepOrExit(t) PROVE InFlightExact'
  <2>1. Busy' = Busy
      BY <1>6 DEF SleepOrExit, Busy, TypeOK
  <2> QED
      BY <1>6, <2>1, CountSame DEF SleepOrExit, poolVars
<1>7. ASSUME NEW t \in Threads, PushResult(t) PROVE InFlightExact'
  <2>1. Busy' = Busy
      BY <1>7 DEF PushResult, Busy, TypeOK
  <2> QED
      BY <1>7, <2>1, CountSame DEF PushResult
<1>8. ASSUME NEW t \in Threads, CountDown(t) PROVE InFlightExact'
  <2>1. Busy' = Busy \ {t} /\ t \in Busy
      BY <1>8 DEF CountDown, Busy, TypeOK
  <2>2. Cardinality(Busy') = Cardinality(Busy) - 1
      BY <1>0, <2>1, FS_RemoveElement
  <2>3. jobQueue' = jobQueue /\ inFlight' = inFlight - 1 /\ pc' = pc
      BY <1>8 DEF CountDown
  <2>4. inFlight \in Nat
      BY DEF TypeOK
  <2> QED
      BY <1>0, <2>2, <2>3, <2>4 DEF InFlightExact
<1>9. ASSUME NEW t \in Threads, NotifyMain(t) PROVE InFlightExact'
  <2>1. Busy' = Busy
      BY <1>9 DEF NotifyMain, Busy, TypeOK
  <2>2. pc = "push" <=> pc' = "push"
      BY <1>9 DEF NotifyMain
  <2> QED
      BY <1>9, <2>1, <2>2, CountSame DEF NotifyMain, poolVars
<1>10. CASE UNCHANGED vars
  <2>1. Busy' = Busy
      BY <1>10 DEF vars, Busy
  <2> QED
      BY <1>10, <2>1, CountSame DEF vars, poolVars
<1> QED
    BY <1>1, <1>2, <1>3, <1>4, <1>5, <1>6, <1>7, <1>8, <1>9, <1>10,
       NextCases, Zenon

LEMMA PendingNext ==
    ASSUME TypeOK, InFlightExact, PendingPlaced, [Next]_vars
    PROVE  PendingPlaced'
<1>1. CASE ExpandSplit
  <2>1. jobQueue' = {}
      BY <1>1, CountedPositive DEF ExpandSplit, MayExpand, poolVars
  <2>2. pc' = IF pending' = {} THEN "decide" ELSE "count"
      BY <1>1 DEF ExpandSplit
  <2> QED
      BY <2>1, <2>2 DEF PendingPlaced
<1>2. CASE Aside /\ ~ExpandSplit
    BY <1>2 DEF Aside, ExpandLeaf, ExpandAborts, NoExpand, SubmitNotify,
           DecideBlock, CollectResults, CollectWaits, CheckEmpty, CheckLimit,
           CheckTime, Drain, Shutdown, NotifyAll, Join, mainVars, poolVars,
           PendingPlaced
<1>3. CASE SubmitCount \/ SubmitPush \/ Deadline \/ UNCHANGED vars
    BY <1>3 DEF SubmitCount, SubmitPush, Deadline, vars, mainVars, poolVars,
           PendingPlaced
<1>4. ASSUME NEW t \in Threads,
             \/ TakeJob(t) \/ SleepOrExit(t) \/ PushResult(t)
             \/ CountDown(t) \/ NotifyMain(t)
      PROVE  PendingPlaced'
    BY <1>4 DEF TakeJob, SleepOrExit, PushResult, CountDown, NotifyMain,
           mainVars, poolVars, PendingPlaced
<1> QED
    BY <1>1, <1>2, <1>3, <1>4, NextCases, Zenon

LEMMA CountedInit == Init => Counted
<1> SUFFICES ASSUME Init PROVE Counted
    OBVIOUS
<1>1. jobQueue = {} /\ Busy = {} /\ inFlight = 0 /\ pc = "top" /\ pending = {}
    BY DEF Init, Busy
<1>2. Cardinality(jobQueue) = 0 /\ Cardinality(Busy) = 0
    BY <1>1, FS_EmptySet
<1>3. InFlightExact
    BY <1>1, <1>2 DEF InFlightExact
<1> QED
    BY <1>1, <1>3, TypeInit DEF Counted, PendingPlaced

(***************************************************************************)
(* The counter on which generate() decides is exact in every interleaving: *)
(* Spec => []TypeOK and Spec => []InFlightExact.                           *)
(***************************************************************************)
THEOREM CountedInvariant == Spec => []Counted
<1>1. Counted /\ [Next]_vars => Counted'
    BY TypeNext, CountNext, PendingNext DEF Counted
<1> QED
    BY <1>1, CountedInit, PTL DEF Spec

\* TypeOK: the containers hold what the code puts there, the counter is never
\* negative.
THEOREM PoolTypes == Spec => []TypeOK
<1>1. Counted => TypeOK
    BY DEF Counted
<1> QED
    BY <1>1, CountedInvariant, PTL

\* InFlightExact: m_inFlight is the number of jobs not answered and counted.
THEOREM PoolCounter == Spec => []InFlightExact
<1>1. Counted => InFlightExact
    BY DEF Counted
<1> QED
    BY <1>1, CountedInvariant, PTL

-----------------------------------------------------------------------------
(***************************************************************************)
(* The end of the loop.                                                    *)
(***************************************************************************)
LEMMA LeftNext ==
    ASSUME Counted, OnlyResultsLeft, [Next]_vars
    PROVE  OnlyResultsLeft'
<1> USE DEF Counted
<1>1. CASE CheckEmpty \/ CheckLimit \/ CheckTime
  <2>1. pending' = {} /\ jobQueue' = jobQueue /\ Busy' = Busy
      BY <1>1 DEF CheckEmpty, CheckLimit, CheckTime, mainVars, poolVars,
             PendingPlaced, Busy
  <2>2. Returned' => inFlight = 0
      BY <1>1 DEF CheckEmpty, CheckLimit, CheckTime, Returned
  <2>3. inFlight = 0 => jobQueue = {} /\ Busy = {}
      BY CountedPositive
  <2> QED
      BY <2>1, <2>2, <2>3 DEF OnlyResultsLeft
<1>2. CASE \/ Drain \/ Shutdown \/ NotifyAll \/ Join
  <2>1. Returned
      BY <1>2 DEF Drain, Shutdown, NotifyAll, Join, Returned
  <2>2. jobQueue' = jobQueue /\ pending' = pending
      BY <1>2 DEF Drain, Shutdown, NotifyAll, Join, mainVars, poolVars
  <2>3. \A t \in Threads : tpc'[t] = tpc[t] \/ tpc'[t] = "wait"
      BY <1>2 DEF Drain, Shutdown, NotifyAll, Join
  <2>4. Busy' = {}
      BY <2>1, <2>3 DEF OnlyResultsLeft, Busy
  <2> QED
      BY <2>1, <2>2, <2>4 DEF OnlyResultsLeft
<1>3. CASE \/ ExpandLeaf \/ ExpandSplit \/ ExpandAborts \/ NoExpand
           \/ SubmitCount \/ SubmitPush \/ SubmitNotify
           \/ DecideBlock \/ CollectResults \/ CollectWaits
  <2>1. ~Returned'
      BY <1>3 DEF ExpandLeaf, ExpandSplit, ExpandAborts, NoExpand, SubmitCount,
             SubmitPush, SubmitNotify, DecideBlock, CollectResults,
             CollectWaits, Returned
  <2> QED
      BY <2>1 DEF OnlyResultsLeft
<1>4. CASE Deadline \/ UNCHANGED vars
    BY <1>4 DEF Deadline, vars, mainVars, poolVars, OnlyResultsLeft, Returned, Busy
<1>5. ASSUME NEW t \in Threads,
             \/ TakeJob(t) \/ SleepOrExit(t) \/ PushResult(t)
             \/ CountDown(t) \/ NotifyMain(t)
      PROVE  OnlyResultsLeft'
  <2> SUFFICES ASSUME Returned' PROVE jobQueue' = {} /\ pending' = {} /\ Busy' = {}
      BY DEF OnlyResultsLeft
  <2>1. Returned
      BY <1>5 DEF TakeJob, SleepOrExit, PushResult, CountDown, NotifyMain, Returned
  <2>2. jobQueue = {} /\ pending = {} /\ Busy = {}
      BY <2>1 DEF OnlyResultsLeft
  <2>3. SleepOrExit(t) \/ NotifyMain(t)
      BY <1>5, <2>2 DEF TakeJob, PushResult, CountDown, Busy
  <2>4. jobQueue' = jobQueue /\ pending' = pending
      BY <2>3 DEF SleepOrExit, NotifyMain, mainVars, poolVars
  <2>5. \A u \in Threads : tpc'[u] = tpc[u] \/ tpc'[u] \in {"wait", "exit", "asleep"}
      BY <2>3 DEF SleepOrExit, NotifyMain, TypeOK
  <2>6. Busy' = {}
      BY <2>2, <2>5 DEF Busy
  <2> QED
      BY <2>2, <2>4, <2>6
<1> QED
    BY <1>1, <1>2, <1>3, <1>4, <1>5, NextCases, Zenon DEF Aside

(***************************************************************************)
(* When generate() leaves its loop no job is queued or being solved; what  *)
(* it does not return can only be in m_results: Spec => []OnlyResultsLeft. *)
(***************************************************************************)
THEOREM PoolQuiet == Spec => []OnlyResultsLeft
<1>1. Init => OnlyResultsLeft
    BY DEF Init, OnlyResultsLeft, Returned
<1>2. Counted /\ OnlyResultsLeft /\ [Next]_vars => OnlyResultsLeft'
    BY LeftNext
<1> QED
    BY <1>1, <1>2, CountedInvariant, PTL DEF Spec

-----------------------------------------------------------------------------
(***************************************************************************)
(* The assertions of createCubes.                                          *)
(***************************************************************************)
Fixed(c) == Propagate(c) = c /\ Consistent(c)

\* Unless the formula is refuted at once, the cubes on their way through the
\* pool are consistent and propagate to nothing new.
CubesFixed ==
    ~Refuted(NumVars, clauses) =>
        /\ \A c \in queue \cup pending \cup jobQueue : Fixed(c)
        /\ \A r \in results : Fixed(r.lits)
        /\ \A t \in Threads : tpc[t] = "solve" => Fixed(cube[t])

LEMMA BranchesFixed ==
    ASSUME TypeOK, NEW c \in CubeType, NEW v \in FreeVariables(c),
           NEW b \in Branches(c, v)
    PROVE  Fixed(b)
<1>1. PICK L \in {c \cup {v}, c \cup {-v}} : b = Propagate(L) /\ Consistent(b)
    BY DEF Branches
<1>2. L \in CubeType
    BY BranchesType
<1>3. Propagate(Propagate(L)) = Propagate(L)
    BY <1>2, FormulaType, ClosureIdempotent DEF Propagate, CubeType
<1> QED
    BY <1>1, <1>3 DEF Fixed

LEMMA FixedInit == Init => CubesFixed
<1> SUFFICES ASSUME Init, ~Refuted(NumVars, clauses) PROVE CubesFixed
    BY DEF CubesFixed
<1>1. queue = {Closure(NumVars, clauses, {})}
    BY DEF Init, InitQueue
<1>2. clauses \in Seq(Seq(Literals(NumVars))) /\ NumVars \in Nat
    BY TypeInit, FormulaType
<1>3. Fixed(Closure(NumVars, clauses, {}))
    BY <1>2, ClosureIdempotent DEF Fixed, Refuted, Propagate
<1>4. pending = {} /\ jobQueue = {} /\ results = {} /\ \A t \in Threads : tpc[t] = "wait"
    BY DEF Init
<1> QED
    BY <1>1, <1>3, <1>4 DEF CubesFixed

LEMMA FixedNext ==
    ASSUME TypeOK, CubesFixed, [Next]_vars
    PROVE  CubesFixed'
<1>1. clauses' = clauses
    BY DEF Next, Main, Thread, ExpandLeaf, ExpandSplit, ExpandAborts, NoExpand,
           SubmitCount, SubmitPush, SubmitNotify, DecideBlock, CollectResults,
           CollectWaits, CheckEmpty, CheckLimit, CheckTime, Drain, Shutdown,
           NotifyAll, Join, Deadline, TakeJob, SleepOrExit, PushResult,
           CountDown, NotifyMain, vars
<1>2. \A c : Fixed(c)' <=> Propagate(c) = c /\ Consistent(c)
    BY <1>1 DEF Fixed, Propagate
<1> SUFFICES ASSUME ~Refuted(NumVars, clauses)
             PROVE  /\ \A c \in (queue \cup pending \cup jobQueue)' : Fixed(c)
                    /\ \A r \in results' : Fixed(r.lits)
                    /\ \A t \in Threads : tpc'[t] = "solve" => Fixed(cube'[t])
    BY <1>1, <1>2 DEF CubesFixed, Fixed, Propagate
<1>3. /\ \A c \in queue \cup pending \cup jobQueue : Fixed(c)
      /\ \A r \in results : Fixed(r.lits)
      /\ \A t \in Threads : tpc[t] = "solve" => Fixed(cube[t])
    BY DEF CubesFixed
<1>4. CASE ExpandSplit
  <2>1. PICK c \in Top : \E v \in FreeVariables(c) : pending' = Branches(c, v)
      BY <1>4 DEF ExpandSplit
  <2>2. c \in CubeType
      BY DEF Top, TypeOK
  <2>3. \A b \in pending' : Fixed(b)
      BY <2>1, <2>2, BranchesFixed
  <2>4. queue' \subseteq queue
      BY <1>4 DEF ExpandSplit
  <2> QED
      BY <1>3, <1>4, <2>3, <2>4 DEF ExpandSplit, poolVars
<1>5. CASE CollectResults
    BY <1>3, <1>5 DEF CollectResults
<1>6. CASE SubmitPush
    BY <1>3, <1>6 DEF SubmitPush
<1>7. CASE \/ ExpandLeaf \/ ExpandAborts \/ NoExpand \/ SubmitCount
           \/ DecideBlock \/ CollectWaits \/ CheckEmpty \/ CheckLimit
           \/ CheckTime \/ Drain \/ Shutdown \/ Join \/ Deadline \/ UNCHANGED vars
  <2>1. /\ queue' \subseteq queue /\ pending' = pending /\ jobQueue' = jobQueue
        /\ results' = results /\ tpc' = tpc /\ cube' = cube
      BY <1>7 DEF ExpandLeaf, ExpandAborts, NoExpand, SubmitCount, DecideBlock,
             CollectWaits, CheckEmpty, CheckLimit, CheckTime, Drain, Shutdown,
             Join, Deadline, vars, mainVars, poolVars
  <2> QED
      BY <1>3, <2>1
<1>8. CASE SubmitNotify \/ NotifyAll
  <2>1. /\ queue' = queue /\ pending' = pending /\ jobQueue' = jobQueue
        /\ results' = results /\ cube' = cube
      BY <1>8 DEF SubmitNotify, NotifyAll, mainVars, poolVars
  <2>2. \A t \in Threads : tpc'[t] = "solve" => tpc[t] = "solve"
      BY <1>8 DEF SubmitNotify, NotifyAll, Asleep, TypeOK
  <2> QED
      BY <1>3, <2>1, <2>2
<1>9. ASSUME NEW t \in Threads, TakeJob(t)
      PROVE  /\ \A c \in (queue \cup pending \cup jobQueue)' : Fixed(c)
             /\ \A r \in results' : Fixed(r.lits)
             /\ \A u \in Threads : tpc'[u] = "solve" => Fixed(cube'[u])
    BY <1>3, <1>9 DEF TakeJob, mainVars, TypeOK
<1>10. ASSUME NEW t \in Threads, PushResult(t)
      PROVE  /\ \A c \in (queue \cup pending \cup jobQueue)' : Fixed(c)
             /\ \A r \in results' : Fixed(r.lits)
             /\ \A u \in Threads : tpc'[u] = "solve" => Fixed(cube'[u])
    BY <1>3, <1>10 DEF PushResult, mainVars, TypeOK
<1>11. ASSUME NEW t \in Threads, SleepOrExit(t) \/ CountDown(t) \/ NotifyMain(t)
      PROVE  /\ \A c \in (queue \cup pending \cup jobQueue)' : Fixed(c)
             /\ \A r \in results' : Fixed(r.lits)
             /\ \A u \in Threads : tpc'[u] = "solve" => Fixed(cube'[u])
    BY <1>3, <1>11 DEF SleepOrExit, CountDown, NotifyMain, mainVars, poolVars, TypeOK
<1> QED
    BY <1>4, <1>5, <1>6, <1>7, <1>8, <1>9, <1>10, <1>11, NextCases, Zenon DEF Aside

LEMMA AbortNext ==
    ASSUME TypeOK, CubesFixed, AbortsOnlyIfRefuted, [Next]_vars
    PROVE  AbortsOnlyIfRefuted'
<1>1. CASE ExpandAborts
  <2>1. PICK c \in queue : ~AssertsHold(c)
      BY <1>1 DEF ExpandAborts, Top
  <2>2. Refuted(NumVars, clauses)
      BY <2>1 DEF AssertsHold, CubesFixed, Fixed
  <2> QED
      BY <1>1, <2>2 DEF ExpandAborts, AbortsOnlyIfRefuted
<1>2. CASE ~ExpandAborts
  <2>1. clauses' = clauses /\ (pc' = "aborted" => pc = "aborted")
      BY <1>2 DEF Next, Main, Thread, ExpandLeaf, ExpandSplit, NoExpand,
           SubmitCount, SubmitPush, SubmitNotify, DecideBlock, CollectResults,
           CollectWaits, CheckEmpty, CheckLimit, CheckTime, Drain, Shutdown,
           NotifyAll, Join, Deadline, TakeJob, SleepOrExit, PushResult,
           CountDown, NotifyMain, vars
  <2> QED
      BY <2>1 DEF AbortsOnlyIfRefuted
<1> QED
    BY <1>1, <1>2

(***************************************************************************)
(* The assertions of createCubes, on the literals of the best cube, can    *)
(* fail only for a formula that unit propagation refutes.                  *)
(***************************************************************************)
THEOREM PoolAsserts == Spec => []AbortsOnlyIfRefuted
<1>1. Init => AbortsOnlyIfRefuted /\ CubesFixed
    BY FixedInit DEF Init, AbortsOnlyIfRefuted
<1>2. TypeOK /\ CubesFixed /\ AbortsOnlyIfRefuted /\ [Next]_vars
        => CubesFixed' /\ AbortsOnlyIfRefuted'
    BY FixedNext, AbortNext
<1> QED
    BY <1>1, <1>2, PoolTypes, PTL DEF Spec

-----------------------------------------------------------------------------
(***************************************************************************)
(* No model is lost, none is in two cubes.                                 *)
(***************************************************************************)
ModelsOf(c) == Models(NumVars, clauses, c)

\* What a thread reports is right.
ResultsTrue == \A r \in results : r.sat <=> ModelsOf(r.lits) # {}

LEMMA ClausesStay ==
    ASSUME [Next]_vars
    PROVE  clauses' = clauses
BY DEF Next, Main, Thread, ExpandLeaf, ExpandSplit, ExpandAborts, NoExpand,
       SubmitCount, SubmitPush, SubmitNotify, DecideBlock, CollectResults,
       CollectWaits, CheckEmpty, CheckLimit, CheckTime, Drain, Shutdown,
       NotifyAll, Join, Deadline, TakeJob, SleepOrExit, PushResult,
       CountDown, NotifyMain, vars

LEMMA ResultsNext ==
    ASSUME TypeOK, ResultsTrue, [Next]_vars
    PROVE  ResultsTrue'
<1>1. clauses' = clauses
    BY ClausesStay
<1> SUFFICES ASSUME NEW r \in results'
             PROVE  r.sat <=> ModelsOf(r.lits) # {}
    BY <1>1 DEF ResultsTrue, ModelsOf
<1>2. CASE r \in results
    BY <1>2 DEF ResultsTrue
<1>3. CASE r \notin results
  <2>1. PICK t \in Threads : r = [lits |-> cube[t], sat |-> Sat(cube[t])]
      BY <1>3 DEF Next, Main, Thread, ExpandLeaf, ExpandSplit, ExpandAborts,
           NoExpand, SubmitCount, SubmitPush, SubmitNotify, DecideBlock,
           CollectResults, CollectWaits, CheckEmpty, CheckLimit, CheckTime,
           Drain, Shutdown, NotifyAll, Join, Deadline, TakeJob, SleepOrExit,
           PushResult, CountDown, NotifyMain, vars, poolVars
  <2> QED
      BY <2>1 DEF Sat, ModelsOf
<1> QED
    BY <1>2, <1>3

\* The cubes that are held come each from one that was held before, two from
\* the same only if they share no model, and every model is still held.
LEMMA Origin ==
    ASSUME EachModelOnce, clauses' = clauses,
           NEW src \in [Held' -> Held],
           \A g \in Held' : ModelsOf(g[3]) \subseteq ModelsOf(src[g][3]),
           \A g, h \in Held' : \A a \in ModelsOf(g[3]) \cap ModelsOf(h[3]) :
               src[g] = src[h] => g = h,
           \A h \in Held : \A a \in ModelsOf(h[3]) :
               (\A g \in Held : a \in ModelsOf(g[3]) => g = h)
                   => \E g \in Held' : a \in ModelsOf(g[3])
    PROVE  EachModelOnce'
<1> SUFFICES ASSUME NEW a \in ModelsOf({})
             PROVE  \E h \in Held' : /\ a \in ModelsOf(h[3])
                                    /\ \A g \in Held' : a \in ModelsOf(g[3]) => g = h
    BY DEF EachModelOnce, ModelsOf
<1>1. PICK h \in Held : /\ a \in ModelsOf(h[3])
                        /\ \A g \in Held : a \in ModelsOf(g[3]) => g = h
    BY DEF EachModelOnce, ModelsOf
<1>2. PICK k \in Held' : a \in ModelsOf(k[3])
    BY <1>1
<1>3. ASSUME NEW g \in Held', a \in ModelsOf(g[3])
      PROVE  g = k
  <2>1. src[g] \in Held /\ src[k] \in Held
      OBVIOUS
  <2>2. a \in ModelsOf(src[g][3]) /\ a \in ModelsOf(src[k][3])
      BY <1>2, <1>3
  <2>3. src[g] = h /\ src[k] = h
      BY <1>1, <2>1, <2>2
  <2> QED
      BY <1>2, <1>3, <2>3
<1> QED
    BY <1>2, <1>3

\* One cube moves from one place to another.
LEMMA Moved ==
    ASSUME EachModelOnce, clauses' = clauses,
           NEW x \in Held, NEW y, y[3] = x[3], Held' = (Held \ {x}) \cup {y}
    PROVE  EachModelOnce'
<1> SUFFICES ASSUME NEW a \in ModelsOf({})
             PROVE  \E h \in Held' : /\ a \in ModelsOf(h[3])
                                    /\ \A g \in Held' : a \in ModelsOf(g[3]) => g = h
    BY DEF EachModelOnce, ModelsOf
<1>1. PICK h \in Held : /\ a \in ModelsOf(h[3])
                        /\ \A g \in Held : a \in ModelsOf(g[3]) => g = h
    BY DEF EachModelOnce, ModelsOf
<1>2. CASE h = x
    BY <1>1, <1>2
<1>3. CASE h # x
    BY <1>1, <1>3
<1> QED
    BY <1>2, <1>3

LEMMA HeldSame ==
    ASSUME EachModelOnce, clauses' = clauses, Held' = Held
    PROVE  EachModelOnce'
BY DEF EachModelOnce


LEMMA OnceNext ==
    ASSUME Counted, ResultsTrue, EachModelOnce, [Next]_vars
    PROVE  EachModelOnce'
<1> USE DEF Counted
<1>0. clauses' = clauses
    BY ClausesStay
<1>1. CASE ExpandLeaf
  <2>1. PICK c \in queue : cubes' = cubes \cup {c} /\ queue' = queue \ {c}
      BY <1>1 DEF ExpandLeaf, Top
  <2>2. <<"queue", "main", c>> \in Held
      BY DEF Held
  <2>3. Held' = (Held \ {<<"queue", "main", c>>}) \cup {<<"cubes", "main", c>>}
      BY <1>1, <2>1 DEF ExpandLeaf, poolVars, Held
  <2> QED
      BY <1>0, <2>2, <2>3, Moved
<1>2. CASE SubmitPush
  <2>1. PICK c \in pending : jobQueue' = jobQueue \cup {c} /\ pending' = pending \ {c}
      BY <1>2 DEF SubmitPush
  <2>2. <<"pending", "main", c>> \in Held
      BY DEF Held
  <2>3. Held' = (Held \ {<<"pending", "main", c>>}) \cup {<<"jobQueue", "pool", c>>}
      BY <1>2, <2>1 DEF SubmitPush, Held
  <2> QED
      BY <1>0, <2>2, <2>3, Moved
<1>3. ASSUME NEW t \in Threads, TakeJob(t) PROVE EachModelOnce'
  <2>1. PICK c \in jobQueue : cube' = [cube EXCEPT ![t] = c] /\ jobQueue' = jobQueue \ {c}
      BY <1>3 DEF TakeJob
  <2>2. <<"jobQueue", "pool", c>> \in Held
      BY DEF Held
  <2>3. {u \in Threads : tpc'[u] = "solve"} = {u \in Threads : tpc[u] = "solve"} \cup {t}
        /\ t \notin {u \in Threads : tpc[u] = "solve"}
      BY <1>3 DEF TakeJob, TypeOK
  <2>4. cube'[t] = c /\ \A u \in Threads \ {t} : cube'[u] = cube[u]
      BY <2>1 DEF TypeOK
  <2>5. {<<"cube", u, cube'[u]>> : u \in {w \in Threads : tpc'[w] = "solve"}}
        = {<<"cube", u, cube[u]>> : u \in {w \in Threads : tpc[w] = "solve"}}
          \cup {<<"cube", t, c>>}
      BY <2>3, <2>4
  <2>6. UNCHANGED <<cubes, queue, pending, results>>
      BY <1>3 DEF TakeJob, mainVars
  <2>7. Held' = (Held \ {<<"jobQueue", "pool", c>>}) \cup {<<"cube", t, c>>}
      BY <2>1, <2>5, <2>6 DEF Held
  <2> QED
      BY <1>0, <2>2, <2>7, Moved
<1>4. ASSUME NEW t \in Threads, PushResult(t) PROVE EachModelOnce'
  <2> DEFINE c == cube[t]
  <2>1. {u \in Threads : tpc'[u] = "solve"} = {u \in Threads : tpc[u] = "solve"} \ {t}
        /\ t \in {u \in Threads : tpc[u] = "solve"}
      BY <1>4 DEF PushResult, TypeOK
  <2>2. <<"cube", t, c>> \in Held
      BY <2>1 DEF Held
  <2>3. cube' = cube
      BY <1>4 DEF PushResult
  <2>4. {<<"cube", u, cube'[u]>> : u \in {w \in Threads : tpc'[w] = "solve"}}
        = {<<"cube", u, cube[u]>> : u \in {w \in Threads : tpc[w] = "solve"}}
          \ {<<"cube", t, c>>}
      BY <2>1, <2>3
  <2>5. {<<"results", "pool", r.lits>> : r \in results'}
        = {<<"results", "pool", r.lits>> : r \in results} \cup {<<"results", "pool", c>>}
    <3> DEFINE q == [lits |-> c, sat |-> Sat(c)]
    <3>1. results' = results \cup {q}
        BY <1>4 DEF PushResult
    <3>2. q.lits = c
        OBVIOUS
    <3> HIDE DEF q
    <3> QED
        BY <3>1, <3>2
  <2>6. UNCHANGED <<cubes, queue, pending, jobQueue>>
      BY <1>4 DEF PushResult, mainVars
  <2>7. Held' = (Held \ {<<"cube", t, c>>}) \cup {<<"results", "pool", c>>}
      BY <2>4, <2>5, <2>6 DEF Held
  <2> QED
      BY <1>0, <2>2, <2>7, Moved
<1>5. CASE \/ ExpandAborts \/ NoExpand \/ SubmitCount \/ DecideBlock \/ CollectWaits
           \/ CheckEmpty \/ CheckLimit \/ CheckTime \/ Shutdown \/ Join
           \/ Deadline \/ UNCHANGED vars
  <2>1. UNCHANGED <<cubes, queue, pending, jobQueue, results, tpc, cube>>
      BY <1>5 DEF ExpandAborts, NoExpand, SubmitCount, DecideBlock, CollectWaits,
             CheckEmpty, CheckLimit, CheckTime, Shutdown, Join, Deadline, vars,
             mainVars, poolVars
  <2>2. Held' = Held
      BY <2>1 DEF Held
  <2> QED
      BY <1>0, <2>2, HeldSame
<1>6. ASSUME \/ SubmitNotify \/ NotifyAll
             \/ \E t \in Threads : SleepOrExit(t) \/ CountDown(t) \/ NotifyMain(t)
      PROVE  EachModelOnce'
  <2>1. UNCHANGED <<cubes, queue, pending, jobQueue, results, cube>>
      BY <1>6 DEF SubmitNotify, NotifyAll, SleepOrExit, CountDown, NotifyMain,
             mainVars, poolVars
  <2>2. {u \in Threads : tpc'[u] = "solve"} = {u \in Threads : tpc[u] = "solve"}
      BY <1>6 DEF SubmitNotify, NotifyAll, SleepOrExit, CountDown, NotifyMain,
             Asleep, TypeOK
  <2>3. Held' = Held
      BY <2>1, <2>2 DEF Held
  <2> QED
      BY <1>0, <2>3, HeldSame
<1>7. CASE Drain
  <2> DEFINE src == [g \in Held' |-> IF g \in Held THEN g ELSE <<"queue", "main", g[3]>>]
  <2>1. /\ cubes' = cubes \cup queue /\ queue' = {}
        /\ UNCHANGED <<pending, jobQueue, results, tpc, cube>>
      BY <1>7 DEF Drain, poolVars
  <2>2. \A g \in Held' : g \in Held \/ (g = <<"cubes", "main", g[3]>> /\ g[3] \in queue)
      BY <2>1 DEF Held
  <2>3. \A c \in queue : <<"queue", "main", c>> \in Held /\ <<"queue", "main", c>> \notin Held'
                           /\ <<"cubes", "main", c>> \in Held'
      BY <2>1 DEF Held
  <2>4. \A h \in Held : h \in Held' \/ (h = <<"queue", "main", h[3]>> /\ h[3] \in queue)
      BY <2>1 DEF Held
  <2>5. src \in [Held' -> Held]
      BY <2>2, <2>3
  <2>6. \A g \in Held' : src[g][3] = g[3]
      BY <2>2
  <2>7. \A g, h \in Held' : src[g] = src[h] => g = h
      BY <2>2, <2>3
  <2>8. \A h \in Held : \E g \in Held' : g[3] = h[3]
      BY <2>3, <2>4
  <2> HIDE DEF src
  <2>9. \A g \in Held' : ModelsOf(g[3]) \subseteq ModelsOf(src[g][3])
      BY <2>6
  <2>10. \A g, h \in Held' : \A a \in ModelsOf(g[3]) \cap ModelsOf(h[3]) :
             src[g] = src[h] => g = h
      BY <2>7
  <2>11. \A h \in Held : \A a \in ModelsOf(h[3]) :
             (\A g \in Held : a \in ModelsOf(g[3]) => g = h)
                 => \E g \in Held' : a \in ModelsOf(g[3])
      BY <2>8
  <2> QED
      BY <1>0, <2>5, <2>9, <2>10, <2>11, Origin
<1>8. CASE CollectResults
  <2> DEFINE src == [g \in Held' |-> IF g \in Held THEN g ELSE <<"results", "pool", g[3]>>]
  <2>1. /\ queue' = queue \cup {r.lits : r \in {q \in results : q.sat}} /\ results' = {}
        /\ UNCHANGED <<cubes, pending, jobQueue, tpc, cube>>
      BY <1>8 DEF CollectResults
  <2>2. \A g \in Held' : g \in Held
            \/ (g = <<"queue", "main", g[3]>> /\ \E r \in results : r.lits = g[3])
      BY <2>1 DEF Held
  <2>3. \A r \in results : /\ <<"results", "pool", r.lits>> \in Held
                           /\ <<"results", "pool", r.lits>> \notin Held'
                           /\ r.sat => <<"queue", "main", r.lits>> \in Held'
      BY <2>1 DEF Held
  <2>4. \A h \in Held : h \in Held'
            \/ \E r \in results : h = <<"results", "pool", r.lits>>
      BY <2>1 DEF Held
  <2>5. src \in [Held' -> Held]
      BY <2>2, <2>3
  <2>6. \A g \in Held' : src[g][3] = g[3]
      BY <2>2
  <2>7. \A g, h \in Held' : src[g] = src[h] => g = h
      BY <2>2, <2>3
  <2> HIDE DEF src
  <2>9. \A g \in Held' : ModelsOf(g[3]) \subseteq ModelsOf(src[g][3])
      BY <2>6
  <2>10. \A g, h \in Held' : \A a \in ModelsOf(g[3]) \cap ModelsOf(h[3]) :
             src[g] = src[h] => g = h
      BY <2>7
  <2>11. ASSUME NEW h \in Held, NEW a \in ModelsOf(h[3])
         PROVE  \E g \in Held' : a \in ModelsOf(g[3])
    <3>1. CASE h \in Held'
        BY <3>1
    <3>2. CASE h \notin Held'
      <4>1. PICK r \in results : h = <<"results", "pool", r.lits>>
          BY <2>4, <3>2
      <4>2. r.sat
          BY <4>1 DEF ResultsTrue
      <4> QED
          BY <2>3, <4>1, <4>2
    <3> QED
        BY <3>1, <3>2
  <2> QED
      BY <1>0, <2>5, <2>9, <2>10, <2>11, Origin
<1>9. CASE ExpandSplit
  <2>0. PICK c \in queue : \E v \in FreeVariables(c) :
            pending' = Branches(c, v) /\ queue' = queue \ {c}
      BY <1>9 DEF ExpandSplit, Top
  <2>1. PICK v \in FreeVariables(c) :
            pending' = Branches(c, v) /\ queue' = queue \ {c}
      BY <2>0
  <2> DEFINE x == <<"queue", "main", c>>
             src == [g \in Held' |-> IF g \in Held THEN g ELSE x]
  <2>2. c \in CubeType
      BY DEF TypeOK
  <2>3. v \in 1..NumVars /\ c \cup {v} \in CubeType /\ c \cup {-v} \in CubeType
      BY <2>2, BranchesType
  <2>4. ModelsOf(Propagate(c \cup {v})) = ModelsOf(c \cup {v})
        /\ ModelsOf(Propagate(c \cup {-v})) = ModelsOf(c \cup {-v})
      BY <2>3, FormulaType, ClosureModels DEF ModelsOf, Propagate, CubeType
  <2>5. ModelsOf(c \cup {v}) \subseteq ModelsOf(c)
        /\ ModelsOf(c \cup {-v}) \subseteq ModelsOf(c)
      BY DEF ModelsOf, Models
  <2>6. \A a \in ModelsOf(c) :
            \/ a \in ModelsOf(c \cup {v}) /\ a \notin ModelsOf(c \cup {-v})
            \/ a \notin ModelsOf(c \cup {v}) /\ a \in ModelsOf(c \cup {-v})
      BY <2>2, <2>3, FormulaType, SplitModels DEF ModelsOf, CubeType
  <2>7. pending = {}
      BY <1>9 DEF ExpandSplit, PendingPlaced
  <2>8. UNCHANGED <<cubes, jobQueue, results, tpc, cube>>
      BY <1>9 DEF ExpandSplit, poolVars
  <2>9. x \in Held /\ x \notin Held'
      BY <2>1, <2>8 DEF Held
  <2>10. \A g \in Held' : g \in Held \/ \E b \in Branches(c, v) : g = <<"pending", "main", b>>
      BY <2>1, <2>8 DEF Held
  <2>11. \A h \in Held : h \in Held' \/ h = x
      BY <2>1, <2>7, <2>8 DEF Held
  <2>12. \A b \in Branches(c, v) : <<"pending", "main", b>> \in Held'
                                   /\ <<"pending", "main", b>> \notin Held
      BY <2>1, <2>7 DEF Held
  <2>13. \A b \in Branches(c, v) : b = Propagate(c \cup {v}) \/ b = Propagate(c \cup {-v})
      BY DEF Branches
  <2>14. src \in [Held' -> Held]
      BY <2>9
  <2>15. \A g \in Held' : ModelsOf(g[3]) \subseteq ModelsOf(src[g][3])
    <3> SUFFICES ASSUME NEW g \in Held', g \notin Held
                 PROVE  ModelsOf(g[3]) \subseteq ModelsOf(c)
        OBVIOUS
    <3> QED
        BY <2>4, <2>5, <2>10, <2>13
  <2>16. \A g, h \in Held' : \A a \in ModelsOf(g[3]) \cap ModelsOf(h[3]) :
             src[g] = src[h] => g = h
    <3> SUFFICES ASSUME NEW g \in Held', NEW h \in Held', src[g] = src[h],
                        NEW a \in ModelsOf(g[3]) \cap ModelsOf(h[3])
                 PROVE  g = h
        OBVIOUS
    <3>1. CASE g \in Held \/ h \in Held
        BY <2>9, <3>1
    <3>2. CASE g \notin Held /\ h \notin Held
      <4>1. PICK b \in Branches(c, v) : g = <<"pending", "main", b>>
          BY <2>10, <3>2
      <4>2. PICK d \in Branches(c, v) : h = <<"pending", "main", d>>
          BY <2>10, <3>2
      <4>3. b = d
          BY <2>4, <2>5, <2>6, <2>13, <4>1, <4>2
      <4> QED
          BY <4>1, <4>2, <4>3
    <3> QED
        BY <3>1, <3>2
  <2>17. ASSUME NEW h \in Held, NEW a \in ModelsOf(h[3])
         PROVE  \E g \in Held' : a \in ModelsOf(g[3])
    <3>1. CASE h # x
        BY <2>11, <3>1
    <3>2. CASE h = x
      <4>1. PICK b \in {Propagate(c \cup {v}), Propagate(c \cup {-v})} : a \in ModelsOf(b)
          BY <2>4, <2>6, <3>2
      <4>2. b \in SUBSET Literals(NumVars) /\ NumVars \in Nat
          BY <2>3, ClosureType, FormulaType DEF Propagate, CubeType
      <4>3. Consistent(b)
          BY <4>1, <4>2, InconsistentNoModel DEF ModelsOf
      <4>4. b \in Branches(c, v)
          BY <4>1, <4>3 DEF Branches
      <4> QED
          BY <2>12, <4>1, <4>4
    <3> QED
        BY <3>1, <3>2
  <2> HIDE DEF src
  <2> QED
      BY <1>0, <2>14, <2>15, <2>16, <2>17, Origin
<1> QED
    BY <1>1, <1>2, <1>3, <1>4, <1>5, <1>6, <1>7, <1>8, <1>9, NextCases, Zenon DEF Aside

LEMMA OnceInit == Init => EachModelOnce
<1> SUFFICES ASSUME Init PROVE EachModelOnce
    OBVIOUS
<1>1. TypeOK
    BY TypeInit
<1>2. clauses \in Seq(Seq(Literals(NumVars))) /\ NumVars \in Nat
    BY <1>1, FormulaType
<1>3. PICK units \in InitQueue(clauses) : queue = {units}
    BY DEF Init
<1>4. Held = {<<"queue", "main", units>>}
    BY <1>3 DEF Init, Held
<1>5. CASE Refuted(NumVars, clauses)
  <2>1. Models(NumVars, clauses, {}) = {}
    <3>1. CASE \E i \in DOMAIN clauses : clauses[i] = <<>>
        BY <3>1 DEF Models
    <3>2. CASE ~Consistent(Closure(NumVars, clauses, {}))
      <4>1. Closure(NumVars, clauses, {}) \in SUBSET Literals(NumVars)
          BY <1>2, ClosureType
      <4>2. Models(NumVars, clauses, Closure(NumVars, clauses, {})) = {}
          BY <1>2, <3>2, <4>1, InconsistentNoModel
      <4> QED
          BY <1>2, <4>2, ClosureModels
    <3> QED
        BY <1>5, <3>1, <3>2 DEF Refuted
  <2> QED
      BY <2>1 DEF EachModelOnce
<1>6. CASE ~Refuted(NumVars, clauses)
  <2>1. units = Closure(NumVars, clauses, {})
      BY <1>3, <1>6 DEF InitQueue
  <2>2. Models(NumVars, clauses, units) = Models(NumVars, clauses, {})
      BY <1>2, <2>1, ClosureModels
  <2> QED
      BY <1>4, <2>2 DEF EachModelOnce
<1> QED
    BY <1>5, <1>6

(***************************************************************************)
(* In every interleaving of the main thread and the pool, each model of    *)
(* the formula is in exactly one of the cubes they hold:                   *)
(* Spec => []EachModelOnce.                                                *)
(***************************************************************************)
THEOREM PoolKeepsModels == Spec => []EachModelOnce
<1>1. Init => ResultsTrue /\ EachModelOnce
    BY OnceInit DEF Init, ResultsTrue
<1>2. Counted /\ ResultsTrue /\ EachModelOnce /\ [Next]_vars
        => ResultsTrue' /\ EachModelOnce'
    BY ResultsNext, OnceNext DEF Counted
<1> QED
    BY <1>1, <1>2, CountedInvariant, PTL DEF Spec

-----------------------------------------------------------------------------
(***************************************************************************)
(* What generate() returns.                                                *)
(***************************************************************************)

\* The queue is empty once it is drained, and UNSAT is reported without cubes.
Drained ==
    /\ Written => queue = {}
    /\ unsat => Returned /\ queue = {} /\ cubes = {}

LEMMA DrainedNext ==
    ASSUME TypeOK, Drained, [Next]_vars
    PROVE  Drained'
<1>1. CASE CheckEmpty
    BY <1>1 DEF CheckEmpty, Drained, Written, Returned
<1>2. CASE Drain
    BY <1>2 DEF Drain, Drained, Written, Returned
<1>3. CASE \/ ExpandLeaf \/ ExpandSplit \/ ExpandAborts \/ NoExpand
           \/ SubmitCount \/ SubmitPush \/ SubmitNotify
           \/ DecideBlock \/ CollectResults \/ CollectWaits
           \/ CheckLimit \/ CheckTime
  <2>1. ~Returned /\ ~Written' /\ unsat' = unsat
      BY <1>3 DEF ExpandLeaf, ExpandSplit, ExpandAborts, NoExpand, SubmitCount,
             SubmitPush, SubmitNotify, DecideBlock, CollectResults, CollectWaits,
             CheckLimit, CheckTime, Returned, Written, mainVars
  <2> QED
      BY <2>1 DEF Drained
<1>4. CASE Shutdown \/ NotifyAll \/ Join
  <2>1. Written /\ Returned' /\ UNCHANGED mainVars
      BY <1>4 DEF Shutdown, NotifyAll, Join, Written, Returned
  <2> QED
      BY <2>1 DEF Drained, mainVars
<1>5. CASE Deadline \/ UNCHANGED vars
    BY <1>5 DEF Deadline, vars, mainVars, Drained, Written, Returned
<1>6. ASSUME NEW t \in Threads,
             \/ TakeJob(t) \/ SleepOrExit(t) \/ PushResult(t)
             \/ CountDown(t) \/ NotifyMain(t)
      PROVE  Drained'
  <2>1. /\ UNCHANGED mainVars
        /\ Written' <=> Written
        /\ Returned' <=> Returned
      BY <1>6 DEF TakeJob, SleepOrExit, PushResult, CountDown, NotifyMain,
             Written, Returned
  <2> QED
      BY <2>1 DEF Drained, mainVars
<1> QED
    BY <1>1, <1>2, <1>3, <1>4, <1>5, <1>6, NextCases, Zenon DEF Aside

LEMMA ResultsInvariant == Spec => []ResultsTrue
<1>1. Init => ResultsTrue
    BY DEF Init, ResultsTrue
<1>2. TypeOK /\ ResultsTrue /\ [Next]_vars => ResultsTrue'
    BY ResultsNext
<1> QED
    BY <1>1, <1>2, PoolTypes, PTL DEF Spec

\* When generate() has returned, cubes are held in its result and in m_results.
LEMMA WrittenHeld ==
    ASSUME TypeOK, Drained, OnlyResultsLeft, ResultsTrue, EachModelOnce
    PROVE  MissesOnlyUncollected
<1> SUFFICES ASSUME Written, NEW a \in Models(NumVars, clauses, {})
             PROVE  \/ ~unsat /\ \E c \in cubes : a \in Models(NumVars, clauses, c)
                    \/ \E r \in results :
                           r.sat /\ a \in Models(NumVars, clauses, r.lits)
    BY DEF MissesOnlyUncollected
<1>1. PICK h \in Held : a \in Models(NumVars, clauses, h[3])
    BY DEF EachModelOnce
<1>2. Returned
    BY DEF Written, Returned
<1>3. /\ queue = {} /\ jobQueue = {} /\ pending = {}
      /\ {u \in Threads : tpc[u] = "solve"} = {}
    BY <1>2 DEF Drained, OnlyResultsLeft, Busy
<1>4. CASE \E c \in cubes : h = <<"cubes", "main", c>>
  <2>1. PICK c \in cubes : h = <<"cubes", "main", c>>
      BY <1>4
  <2>2. a \in Models(NumVars, clauses, c)
      BY <1>1, <2>1
  <2> QED
      BY <2>1, <2>2 DEF Drained
<1>5. CASE \E r \in results : h = <<"results", "pool", r.lits>>
  <2>1. PICK r \in results : h = <<"results", "pool", r.lits>>
      BY <1>5
  <2>2. a \in Models(NumVars, clauses, r.lits)
      BY <1>1, <2>1
  <2>3. r.sat
      BY <2>2 DEF ResultsTrue, ModelsOf
  <2> QED
      BY <2>1, <2>2, <2>3
<1>6. \/ \E c \in cubes : h = <<"cubes", "main", c>>
      \/ \E r \in results : h = <<"results", "pool", r.lits>>
    BY <1>3 DEF Held
<1> QED
    BY <1>4, <1>5, <1>6

(***************************************************************************)
(* The only models missing from what generate() returns, its verdict       *)
(* included, are those of results posted as satisfiable and never          *)
(* collected: Spec => []MissesOnlyUncollected.                             *)
(***************************************************************************)
THEOREM PoolMissesOnlyUncollected == Spec => []MissesOnlyUncollected
<1>1. Init => Drained
    BY DEF Init, Drained, Written, Returned
<1>2. TypeOK /\ Drained /\ [Next]_vars => Drained'
    BY DrainedNext
<1>3. TypeOK /\ Drained /\ OnlyResultsLeft /\ ResultsTrue /\ EachModelOnce
        => MissesOnlyUncollected
    BY WrittenHeld
<1> QED
    BY <1>1, <1>2, <1>3, PoolTypes, PoolQuiet, ResultsInvariant, PoolKeepsModels,
       PTL DEF Spec

(***************************************************************************)
(* When generate() ends no job is queued or being solved, and the models   *)
(* it misses are in results it has not collected.                          *)
(***************************************************************************)
THEOREM PoolLosesOnlyUncollected == Spec => []LosesOnlyUncollected
<1>1. OnlyResultsLeft /\ MissesOnlyUncollected => LosesOnlyUncollected
    BY DEF LosesOnlyUncollected
<1> QED
    BY <1>1, PoolQuiet, PoolMissesOnlyUncollected, PTL

-----------------------------------------------------------------------------
(***************************************************************************)
(* The pool implements Generator.                                          *)
(***************************************************************************)

\* c is in one of the containers of the main thread and the pool.
Placed(c) ==
    \/ c \in cubes \/ c \in queue \/ c \in pending \/ c \in jobQueue
    \/ \E r \in results : c = r.lits
    \/ \E t \in Threads : tpc[t] = "solve" /\ c = cube[t]

LEMMA HeldPlaced ==
    ASSUME NEW CONSTANT c
    PROVE  Placed(c) <=> \E h \in Held : c = h[3]
<1>1. ASSUME NEW h \in Held, c = h[3]
      PROVE  Placed(c)
    BY <1>1 DEF Held, Placed
<1>2. ASSUME Placed(c)
      PROVE  \E h \in Held : c = h[3]
  <2>1. CASE \/ c \in cubes \/ c \in queue \/ c \in pending \/ c \in jobQueue
             \/ \E r \in results : c = r.lits
    <3>1. PICK h \in {<<"cubes", "main", c>>, <<"queue", "main", c>>,
                      <<"pending", "main", c>>, <<"jobQueue", "pool", c>>,
                      <<"results", "pool", c>>} : h \in Held
        BY <2>1 DEF Held
    <3>2. h[3] = c
        OBVIOUS
    <3> QED
        BY <3>1, <3>2
  <2>2. CASE \E t \in Threads : tpc[t] = "solve" /\ c = cube[t]
    <3>1. PICK t \in Threads : tpc[t] = "solve" /\ c = cube[t]
        BY <2>2
    <3>2. <<"cube", t, cube[t]>> \in Held
        BY <3>1 DEF Held
    <3> QED
        BY <3>1, <3>2
  <2> QED
      BY <1>2, <2>1, <2>2 DEF Placed
<1> QED
    BY <1>1, <1>2

LEMMA LivePlaced == \A c : c \in Live <=> Placed(c) /\ ModelsOf(c) # {}
BY HeldPlaced DEF Live, Sat, ModelsOf

LEMMA LivePlacedNext == (\A c : c \in Live <=> Placed(c) /\ ModelsOf(c) # {})'
BY LivePlaced, PTL

\* A cube with a model is in one place.
LEMMA LiveOnce ==
    ASSUME EachModelOnce, NEW g \in Held, NEW h \in Held, g[3] = h[3],
           ModelsOf(g[3]) # {}
    PROVE  g = h
<1>1. PICK a \in ModelsOf(g[3]) : a \in Models(NumVars, clauses, {})
    BY DEF ModelsOf, Models
<1> QED
    BY <1>1 DEF EachModelOnce, ModelsOf

\* Generator's copies of the operators of UnitProp.
LEMMA GenOperators ==
    /\ \A c : Gen!Models(NumVars, clauses, c) = ModelsOf(c)
    /\ \A L : Gen!Propagate(L) = Propagate(L)
    /\ \A S : Gen!VarsOf(S) = VarsOf(S)
<1>1. \A S : Gen!Closed(clauses, S) <=> Closed(clauses, S)
    BY DEF Gen!Closed, Closed
<1>2. Gen!Literals(NumVars) = Literals(NumVars)
    BY DEF Gen!Literals, Literals
<1>3. \A L : Gen!Closure(NumVars, clauses, L) = Closure(NumVars, clauses, L)
    BY <1>1, <1>2 DEF Gen!Closure, Closure
<1>4. \A l : Gen!Var(l) = Var(l)
    BY DEF Gen!Var, Var
<1>5. \A S : Gen!VarsOf(S) = VarsOf(S)
    BY <1>4 DEF Gen!VarsOf, VarsOf
<1>6. \A c : Gen!Models(NumVars, clauses, c) = Models(NumVars, clauses, c)
    BY DEF Gen!Models, Models, Gen!Holds, Holds
<1> QED
    BY <1>3, <1>5, <1>6 DEF Gen!Propagate, Propagate, ModelsOf

\* A step that moves cubes, or drops one without a model, does not show.
LEMMA GenStutters ==
    ASSUME clauses' = clauses,
           \A c : ModelsOf(c) # {} => (Placed(c)' <=> Placed(c))
    PROVE  UNCHANGED Gen!vars
<1>1. \A c : ModelsOf(c)' = ModelsOf(c)
    BY DEF ModelsOf
<1>2. \A c : c \in Live' <=> c \in Live
    BY <1>1, LivePlaced, LivePlacedNext
<1>3. Live' = Live
  <2>1. Live = {c \in Live : TRUE} /\ Live' = {c \in Live' : TRUE}
      BY DEF Live
  <2> QED
      BY <1>2, <2>1
<1> QED
    BY <1>3 DEF Gen!vars

\* Whatever is not createCubes() moves cubes or drops those without a model.
LEMMA MovesInvisible ==
    ASSUME Counted, ResultsTrue, [Next]_vars, ~ExpandSplit
    PROVE  UNCHANGED Gen!vars
<1> USE DEF Counted
<1>0. clauses' = clauses
    BY ClausesStay
<1> SUFFICES ASSUME NEW CONSTANT c, ModelsOf(c) # {}
             PROVE  Placed(c)' <=> Placed(c)
    BY <1>0, GenStutters
<1>1. CASE ExpandLeaf
  <2>1. PICK d \in queue : cubes' = cubes \cup {d} /\ queue' = queue \ {d}
      BY <1>1 DEF ExpandLeaf, Top
  <2>2. UNCHANGED <<pending, jobQueue, results, tpc, cube>>
      BY <1>1 DEF ExpandLeaf, poolVars
  <2> QED
      BY <2>1, <2>2 DEF Placed
<1>2. CASE SubmitPush
  <2>1. PICK d \in pending : jobQueue' = jobQueue \cup {d} /\ pending' = pending \ {d}
      BY <1>2 DEF SubmitPush
  <2>2. UNCHANGED <<cubes, queue, results, tpc, cube>>
      BY <1>2 DEF SubmitPush
  <2> QED
      BY <2>1, <2>2 DEF Placed
<1>3. ASSUME NEW t \in Threads, TakeJob(t)
      PROVE  Placed(c)' <=> Placed(c)
  <2>1. PICK d \in jobQueue : cube' = [cube EXCEPT ![t] = d] /\ jobQueue' = jobQueue \ {d}
      BY <1>3 DEF TakeJob
  <2>2. UNCHANGED <<cubes, queue, pending, results>>
      BY <1>3 DEF TakeJob, mainVars
  <2>3. /\ tpc[t] # "solve" /\ tpc'[t] = "solve" /\ cube'[t] = d
        /\ \A u \in Threads \ {t} : tpc'[u] = tpc[u] /\ cube'[u] = cube[u]
      BY <1>3, <2>1 DEF TakeJob, TypeOK
  <2>4. (\E u \in Threads : tpc'[u] = "solve" /\ c = cube'[u])
            <=> c = d \/ \E u \in Threads : tpc[u] = "solve" /\ c = cube[u]
      BY <2>3
  <2> QED
      BY <2>1, <2>2, <2>4 DEF Placed
<1>4. ASSUME NEW t \in Threads, PushResult(t)
      PROVE  Placed(c)' <=> Placed(c)
  <2> DEFINE q == [lits |-> cube[t], sat |-> Sat(cube[t])]
  <2>1. results' = results \cup {q} /\ q.lits = cube[t]
      BY <1>4 DEF PushResult
  <2> HIDE DEF q
  <2>2. UNCHANGED <<cubes, queue, pending, jobQueue, cube>>
      BY <1>4 DEF PushResult, mainVars
  <2>3. /\ tpc[t] = "solve" /\ tpc'[t] # "solve"
        /\ \A u \in Threads \ {t} : tpc'[u] = tpc[u]
      BY <1>4 DEF PushResult, TypeOK
  <2>4. (\E r \in results' : c = r.lits) <=> c = cube[t] \/ \E r \in results : c = r.lits
      BY <2>1
  <2>5. (\E u \in Threads : tpc[u] = "solve" /\ c = cube[u])
            <=> c = cube[t] \/ \E u \in Threads : tpc'[u] = "solve" /\ c = cube'[u]
      BY <2>2, <2>3
  <2> QED
      BY <2>2, <2>4, <2>5 DEF Placed
<1>5. CASE \/ ExpandAborts \/ NoExpand \/ SubmitCount \/ DecideBlock \/ CollectWaits
           \/ CheckEmpty \/ CheckLimit \/ CheckTime \/ Shutdown \/ Join
           \/ Deadline \/ UNCHANGED vars
  <2>1. UNCHANGED <<cubes, queue, pending, jobQueue, results, tpc, cube>>
      BY <1>5 DEF ExpandAborts, NoExpand, SubmitCount, DecideBlock, CollectWaits,
             CheckEmpty, CheckLimit, CheckTime, Shutdown, Join, Deadline, vars,
             mainVars, poolVars
  <2> QED
      BY <2>1 DEF Placed
<1>6. ASSUME \/ SubmitNotify \/ NotifyAll
             \/ \E t \in Threads : SleepOrExit(t) \/ CountDown(t) \/ NotifyMain(t)
      PROVE  Placed(c)' <=> Placed(c)
  <2>1. UNCHANGED <<cubes, queue, pending, jobQueue, results, cube>>
      BY <1>6 DEF SubmitNotify, NotifyAll, SleepOrExit, CountDown, NotifyMain,
             mainVars, poolVars
  <2>2. \A u \in Threads : tpc'[u] = "solve" <=> tpc[u] = "solve"
      BY <1>6 DEF SubmitNotify, NotifyAll, SleepOrExit, CountDown, NotifyMain,
             Asleep, TypeOK
  <2> QED
      BY <2>1, <2>2 DEF Placed
<1>7. CASE Drain
    BY <1>7 DEF Drain, poolVars, Placed
<1>8. CASE CollectResults
  <2>1. /\ queue' = queue \cup {r.lits : r \in {q \in results : q.sat}} /\ results' = {}
        /\ UNCHANGED <<cubes, pending, jobQueue, tpc, cube>>
      BY <1>8 DEF CollectResults
  <2>2. \A r \in results : c = r.lits => r.sat
      BY DEF ResultsTrue
  <2>3. c \in queue' <=> c \in queue \/ \E r \in results : c = r.lits
      BY <2>1, <2>2
  <2> QED
      BY <2>1, <2>3 DEF Placed
<1> QED
    BY <1>1, <1>2, <1>3, <1>4, <1>5, <1>6, <1>7, <1>8, NextCases, Zenon DEF Aside

\* createCubes() on a cube with a model is a split; on one without, nothing.
LEMMA SplitVisible ==
    ASSUME Counted, EachModelOnce, ExpandSplit
    PROVE  [Gen!Next]_(Gen!vars)
<1> USE DEF Counted
<1>0. clauses' = clauses
    BY DEF ExpandSplit
<1>1. PICK c \in queue : \E v \in FreeVariables(c) :
          pending' = Branches(c, v) /\ queue' = queue \ {c}
    BY DEF ExpandSplit, Top
<1>2. PICK v \in FreeVariables(c) : pending' = Branches(c, v) /\ queue' = queue \ {c}
    BY <1>1
<1>3. /\ c \in CubeType /\ v \in 1..NumVars
      /\ c \cup {v} \in CubeType /\ c \cup {-v} \in CubeType
    BY BranchesType DEF TypeOK
<1>4. pending = {} /\ UNCHANGED <<cubes, jobQueue, results, tpc, cube>>
    BY DEF ExpandSplit, PendingPlaced, poolVars
<1> DEFINE P == Propagate(c \cup {v})
           N == Propagate(c \cup {-v})
           Elsewhere(d) == \/ d \in cubes \/ d \in jobQueue
                           \/ \E r \in results : d = r.lits
                           \/ \E t \in Threads : tpc[t] = "solve" /\ d = cube[t]
<1>5. /\ P \in SUBSET Literals(NumVars) /\ v \in P
      /\ N \in SUBSET Literals(NumVars) /\ -v \in N
    BY <1>3, FormulaType, ClosureType DEF Propagate, CubeType
<1>6. /\ ModelsOf(P) = ModelsOf(c \cup {v}) /\ ModelsOf(N) = ModelsOf(c \cup {-v})
    BY <1>3, FormulaType, ClosureModels DEF ModelsOf, Propagate, CubeType
<1>7. ModelsOf(P) \subseteq ModelsOf(c) /\ ModelsOf(N) \subseteq ModelsOf(c)
    BY <1>6 DEF ModelsOf, Models
<1>8. v \notin c /\ -v \notin c
  <2>1. Var(v) = v /\ Var(-v) = v
      BY <1>3 DEF Var
  <2> QED
      BY <2>1 DEF FreeVariables, VarsOf
<1>9. c # P /\ c # N
    BY <1>5, <1>8
<1> HIDE DEF P, N
<1>10. \A d : ModelsOf(d) # {} => (d \in pending' <=> d = P \/ d = N)
  <2>1. ASSUME NEW d \in {P, N}, ModelsOf(d) # {}
        PROVE  Consistent(d)
      BY <1>5, <2>1, FormulaType, InconsistentNoModel DEF ModelsOf
  <2> QED
      BY <1>2, <2>1 DEF Branches, P, N
<1>11. \A d : Placed(d) <=> d \in queue \/ Elsewhere(d)
    BY <1>4 DEF Placed
<1>12. \A d : Placed(d)' <=> (d \in queue /\ d # c) \/ d \in pending' \/ Elsewhere(d)
    BY <1>2, <1>4 DEF Placed
<1>13. CASE ModelsOf(c) = {}
  <2>1. \A d : ModelsOf(d) # {} => (Placed(d)' <=> Placed(d))
      BY <1>7, <1>10, <1>11, <1>12, <1>13
  <2> QED
      BY <1>0, <2>1, GenStutters
<1>14. CASE ModelsOf(c) # {}
  <2>1. ~Elsewhere(c)
    <3>1. <<"queue", "main", c>> \in Held /\ <<"queue", "main", c>>[3] = c
        BY DEF Held
    <3>2. \A h \in Held : h[3] = c => h = <<"queue", "main", c>>
        BY <1>14, <3>1, LiveOnce
    <3>3. CASE c \in cubes
      <4>1. <<"cubes", "main", c>> \in Held /\ <<"cubes", "main", c>>[3] = c
          BY <3>3 DEF Held
      <4> QED
          BY <3>2, <4>1
    <3>4. CASE c \in jobQueue
      <4>1. <<"jobQueue", "pool", c>> \in Held /\ <<"jobQueue", "pool", c>>[3] = c
          BY <3>4 DEF Held
      <4> QED
          BY <3>2, <4>1
    <3>5. CASE \E r \in results : c = r.lits
      <4>1. <<"results", "pool", c>> \in Held /\ <<"results", "pool", c>>[3] = c
          BY <3>5 DEF Held
      <4> QED
          BY <3>2, <4>1
    <3>6. ASSUME NEW t \in Threads, tpc[t] = "solve", c = cube[t]
          PROVE  FALSE
      <4>1. <<"cube", t, c>> \in Held /\ <<"cube", t, c>>[3] = c
          BY <3>6 DEF Held
      <4> QED
          BY <3>2, <4>1
    <3> QED
        BY <3>3, <3>4, <3>5, <3>6
  <2> HIDE DEF Elsewhere
  <2>2. \A d : ModelsOf(d)' = ModelsOf(d)
      BY <1>0 DEF ModelsOf
  <2>3. \A d : d \in Live <=> ModelsOf(d) # {} /\ (d \in queue \/ Elsewhere(d))
      BY <1>11, LivePlaced
  <2>4. \A d : d \in Live' <=>
            ModelsOf(d) # {} /\ ((d \in queue /\ d # c) \/ d = P \/ d = N \/ Elsewhere(d))
      BY <1>10, <1>12, <2>2, LivePlacedNext
  <2>5. c \in Live /\ c \notin Live'
      BY <1>9, <1>14, <2>1, <2>3, <2>4
  <2>6. \A d : d \in Gen!Satisfiable({P, N}) <=> ModelsOf(d) # {} /\ (d = P \/ d = N)
      BY GenOperators DEF Gen!Satisfiable
  <2>7. \A d : d \in Live' <=> d \in (Live \ {c}) \cup Gen!Satisfiable({P, N})
      BY <2>1, <2>3, <2>4, <2>6
  <2>8. Live' = (Live \ {c}) \cup Gen!Satisfiable({P, N})
    <3>1. Live' = {d \in Live' : TRUE}
        BY DEF Live
    <3> QED
        BY <2>7, <3>1
  <2>9. Gen!Split(c, v)
      BY <1>0, <2>8, GenOperators DEF Gen!Split, P, N
  <2>10. v \in (1..NumVars) \ Gen!VarsOf(c)
      BY GenOperators DEF FreeVariables
  <2> QED
      BY <2>5, <2>9, <2>10 DEF Gen!Next
<1> QED
    BY <1>13, <1>14

\* At the start there is the closure of nothing, if the formula has a model.
LEMMA GenInit == Init => Gen!Init
<1> SUFFICES ASSUME Init PROVE Gen!Init
    OBVIOUS
<1>1. clauses \in Seq(Seq(Literals(NumVars))) /\ NumVars \in Nat
    BY TypeInit, FormulaType
<1>2. PICK units \in InitQueue(clauses) : queue = {units}
    BY DEF Init
<1>3. ModelsOf(Propagate({})) = ModelsOf({})
    BY <1>1, ClosureModels DEF ModelsOf, Propagate
<1>4. ModelsOf(units) \subseteq ModelsOf({})
    BY DEF ModelsOf, Models
<1>5. Refuted(NumVars, clauses) => ModelsOf({}) = {}
  <2>1. (\E i \in DOMAIN clauses : clauses[i] = <<>>) => ModelsOf({}) = {}
      BY DEF ModelsOf, Models
  <2>2. ~Consistent(Propagate({})) => ModelsOf(Propagate({})) = {}
      BY <1>1, ClosureType, InconsistentNoModel DEF Propagate, ModelsOf
  <2> QED
      BY <1>3, <2>1, <2>2 DEF Refuted, Propagate
<1>6. ~Refuted(NumVars, clauses) => units = Propagate({})
    BY <1>2 DEF InitQueue, Propagate
<1>7. \A d : Placed(d) <=> d = units
    BY <1>2 DEF Init, Placed
<1>8. \A d : d \in Live <=> d = units /\ ModelsOf(units) # {}
    BY <1>7, LivePlaced
<1>9. \A d : d \in Gen!Satisfiable({Gen!Propagate({})})
               <=> d = Propagate({}) /\ ModelsOf(Propagate({})) # {}
    BY GenOperators DEF Gen!Satisfiable
<1>10. \A d : d \in Live <=> d \in Gen!Satisfiable({Gen!Propagate({})})
    BY <1>3, <1>4, <1>5, <1>6, <1>8, <1>9
<1>11. Live = {d \in Live : TRUE}
    BY DEF Live
<1>12. Live = Gen!Satisfiable({Gen!Propagate({})})
    BY <1>10, <1>11
<1> QED
    BY <1>12 DEF Gen!Init

(***************************************************************************)
(* CubePool implements Generator for every formula, number of threads and  *)
(* limit: in every interleaving the cubes with a model, wherever they are, *)
(* change only when createCubes() splits one, and then as in a sequential  *)
(* generator that keeps the halves with a model.                           *)
(***************************************************************************)
THEOREM PoolImplementsGenerator == Spec => ImplementsGenerator
<1>1. Counted /\ ResultsTrue /\ EachModelOnce /\ [Next]_vars
          => [Gen!Next]_(Gen!vars)
    BY MovesInvisible, SplitVisible
<1> QED
    BY <1>1, GenInit, CountedInvariant, ResultsInvariant, PoolKeepsModels, PTL
    DEF Spec, ImplementsGenerator, Gen!Spec

=============================================================================
