------------------------------ MODULE CubePool ------------------------------
(***************************************************************************)
(* The cube generator of cube_generator (CubeGeneratorCLI.cpp): the main   *)
(* thread splits cubes in generate(), a pool of threads asks a SAT solver  *)
(* whether the halves have a model (workerLoop), and only those that have  *)
(* one come back into the queue.                                           *)
(*                                                                         *)
(* A critical section under m_queueMtx or m_resultMtx is one step; the     *)
(* atomic counter m_inFlight is read and written outside both, in steps of *)
(* its own.  A condition variable is the set of the threads asleep on it,  *)
(* and a wake-up sends its thread back to evaluate the predicate.          *)
(*                                                                         *)
(* The cubes of a generator clash pairwise (EachModelOnce), so its         *)
(* containers are sets here.  Which of the two jobs a thread takes, and    *)
(* which of the lightest cubes the heap has on top, is left open; so is    *)
(* the variable, which VSADS scores choose in the code.                    *)
(***************************************************************************)
EXTENDS UnitProp

CONSTANTS
    NumVars,       \* formula->getNbVar()
    Formulas,      \* the formulas the input may hold
    Threads,       \* the threads of the pool
    LimitNbCubes   \* --cubes

\* The formulas are over the variables of the header.  The pool may be empty
\* (--threads 0).
ASSUME PoolAssumption ==
    /\ NumVars \in Nat
    /\ Formulas \subseteq Seq(Seq(Literals(NumVars)))
    /\ IsFiniteSet(Threads)
    /\ LimitNbCubes \in Nat

VARIABLES
    clauses,      \* the formula
    late,         \* the deadline has passed
    pc,           \* where the main thread is
    timeUp,       \* local of generate(): late, as read at the top of the loop
    mustBlock,    \* local of generate()
    unsat,        \* local of generate(): its result is !unsat
    queue,        \* the priority queue of cubes
    cubes,        \* the result
    pending,      \* halves still to be submitted
    jobQueue,     \* m_jobQueue
    results,      \* m_results
    inFlight,     \* m_inFlight
    shutdown,     \* m_shutdown
    tpc,          \* where each thread of the pool is
    cube          \* local of workerLoop(): the job of each thread

mainVars == <<timeUp, mustBlock, unsat, queue, cubes, pending>>
poolVars == <<jobQueue, results, inFlight, shutdown>>
vars == <<clauses, late, pc, mainVars, poolVars, tpc, cube>>

Sat(c) == Models(NumVars, clauses, c) # {}

Propagate(lits) == Closure(NumVars, clauses, lits)

FreeVariables(c) == (1..NumVars) \ VarsOf(c)

-----------------------------------------------------------------------------
(***************************************************************************)
(* The main thread: generate() and the destructor.                         *)
(***************************************************************************)

\* initPropagator and initQueue: the heap holds one cube, the unit literals.
\* When unit propagation fails in the constructor the trail is what it was
\* then, some consistent part of the closure.
InitQueue(F) ==
    IF Refuted(NumVars, F)
    THEN {S \in SUBSET Closure(NumVars, F, {}) : Consistent(S)}
    ELSE {Closure(NumVars, F, {})}

Init ==
    /\ clauses \in Formulas
    /\ late = FALSE
    /\ pc = "top"
    /\ timeUp = FALSE
    /\ mustBlock = FALSE
    /\ unsat = FALSE
    /\ \E units \in InitQueue(clauses) : queue = {units}
    /\ cubes = {}
    /\ pending = {}
    /\ jobQueue = {}
    /\ results = {}
    /\ inFlight = 0
    /\ shutdown = FALSE
    /\ tpc = [t \in Threads |-> "wait"]
    /\ cube = [t \in Threads |-> {}]

MayExpand ==
    /\ ~late
    /\ Cardinality(queue) < LimitNbCubes
    /\ inFlight = 0
    /\ queue # {}

Top == {c \in queue : \A d \in queue : Cardinality(c) <= Cardinality(d)}

\* The assertions of createCubes: the literals of the cube propagate without a
\* conflict and to nothing new.
AssertsHold(c) ==
    /\ ~Refuted(NumVars, clauses)
    /\ Consistent(Propagate(c))
    /\ Propagate(c) = c

\* Mutants: no cancelUntilPos between the branches; a branch without the
\* literals it propagates to.
BranchesNoCancel(c, v) ==
    {b \in {Propagate(c \cup {v}), Propagate(Propagate(c \cup {v}) \cup {-v})} :
        Consistent(b)}

BranchesBare(c, v) ==
    {b \in {c \cup {v}, c \cup {-v}} : Consistent(Propagate(b))}

\* The halves that unit propagation does not refute.
Branches(c, v) ==
    {b \in {Propagate(c \cup {v}), Propagate(c \cup {-v})} : Consistent(b)}

\* createCubes on a cube that fixes every variable: a leaf, done.
ExpandLeaf ==
    /\ pc = "top"
    /\ MayExpand
    /\ timeUp' = late
    /\ \E c \in Top :
          /\ AssertsHold(c)
          /\ FreeVariables(c) = {}
          /\ cubes' = cubes \cup {c}
          /\ queue' = queue \ {c}
    /\ pc' = "decide"
    /\ UNCHANGED <<clauses, late, mustBlock, unsat, pending, poolVars, tpc, cube>>

\* createCubes: the best cube gives way to its halves.
ExpandSplit ==
    /\ pc = "top"
    /\ MayExpand
    /\ timeUp' = late
    /\ \E c \in Top : \E v \in FreeVariables(c) :
          /\ AssertsHold(c)
          /\ pending' = Branches(c, v)
          /\ queue' = queue \ {c}
    /\ pc' = IF pending' = {} THEN "decide" ELSE "count"
    /\ UNCHANGED <<clauses, late, mustBlock, unsat, cubes, poolVars, tpc, cube>>

ExpandAborts ==
    /\ pc = "top"
    /\ MayExpand
    /\ \E c \in Top : ~AssertsHold(c)
    /\ pc' = "aborted"
    /\ UNCHANGED <<clauses, late, mainVars, poolVars, tpc, cube>>

NoExpand ==
    /\ pc = "top"
    /\ ~MayExpand
    /\ timeUp' = late
    /\ pc' = "decide"
    /\ UNCHANGED <<clauses, late, mustBlock, unsat, queue, cubes, pending,
                   poolVars, tpc, cube>>

\* Mutant: the counter goes down here too.
SubmitCountDown ==
    /\ pc = "count"
    /\ inFlight' = inFlight - 1
    /\ pc' = "push"
    /\ UNCHANGED <<clauses, late, mainVars, jobQueue, results, shutdown, tpc, cube>>

\* submitSATCheck: the counter, the queue under its lock, the wake-up.
SubmitCount ==
    /\ pc = "count"
    /\ inFlight' = inFlight + 1
    /\ pc' = "push"
    /\ UNCHANGED <<clauses, late, mainVars, jobQueue, results, shutdown, tpc, cube>>

SubmitPush ==
    /\ pc = "push"
    /\ \E c \in pending :
          /\ jobQueue' = jobQueue \cup {c}
          /\ pending' = pending \ {c}
    /\ pc' = "notify"
    /\ UNCHANGED <<clauses, late, timeUp, mustBlock, unsat, queue, cubes,
                   results, inFlight, shutdown, tpc, cube>>

Asleep == {t \in Threads : tpc[t] = "asleep"}

\* Mutant: no wake-up after the push.
SubmitNoNotify ==
    /\ pc = "notify"
    /\ UNCHANGED tpc
    /\ pc' = IF pending = {} THEN "decide" ELSE "count"
    /\ UNCHANGED <<clauses, late, mainVars, poolVars, cube>>

SubmitNotify ==
    /\ pc = "notify"
    /\ \/ Asleep = {} /\ UNCHANGED tpc
       \/ \E t \in Asleep : tpc' = [tpc EXCEPT ![t] = "wait"]
    /\ pc' = IF pending = {} THEN "decide" ELSE "count"
    /\ UNCHANGED <<clauses, late, mainVars, poolVars, cube>>

DecideBlock ==
    /\ pc = "decide"
    /\ mustBlock' = (queue = {} /\ inFlight > 0)
    /\ pc' = "collect"
    /\ UNCHANGED <<clauses, late, timeUp, unsat, queue, cubes, pending,
                   poolVars, tpc, cube>>

\* collectResults: under m_resultMtx, asleep when it must block and has none.
CollectResults ==
    /\ pc = "collect"
    /\ results = {} => ~mustBlock
    /\ queue' = queue \cup {r.lits : r \in {q \in results : q.sat}}
    /\ results' = {}
    /\ pc' = "checkEmpty"
    /\ UNCHANGED <<clauses, late, timeUp, mustBlock, unsat, cubes, pending,
                   jobQueue, inFlight, shutdown, tpc, cube>>

CollectWaits ==
    /\ pc = "collect"
    /\ results = {} /\ mustBlock
    /\ pc' = "blocked"
    /\ UNCHANGED <<clauses, late, mainVars, poolVars, tpc, cube>>

\* Mutant: an empty queue is taken for UNSAT although leaves have been found.
CheckEmptyUnsat ==
    /\ pc = "checkEmpty"
    /\ IF queue = {} /\ inFlight = 0
       THEN unsat' = TRUE /\ pc' = "drain"
       ELSE UNCHANGED unsat /\ pc' = "checkLimit"
    /\ UNCHANGED <<clauses, late, timeUp, mustBlock, queue, cubes, pending,
                   poolVars, tpc, cube>>

\* The three conditions that end the loop, each of which reads m_inFlight.
CheckEmpty ==
    /\ pc = "checkEmpty"
    /\ IF queue = {} /\ inFlight = 0
       THEN unsat' = (cubes = {}) /\ pc' = "drain"
       ELSE UNCHANGED unsat /\ pc' = "checkLimit"
    /\ UNCHANGED <<clauses, late, timeUp, mustBlock, queue, cubes, pending,
                   poolVars, tpc, cube>>

CheckLimit ==
    /\ pc = "checkLimit"
    /\ pc' = IF Cardinality(queue) >= LimitNbCubes /\ inFlight = 0
             THEN "drain" ELSE "checkTime"
    /\ UNCHANGED <<clauses, late, mainVars, poolVars, tpc, cube>>

CheckTime ==
    /\ pc = "checkTime"
    /\ pc' = IF timeUp /\ inFlight = 0 THEN "drain" ELSE "top"
    /\ UNCHANGED <<clauses, late, mainVars, poolVars, tpc, cube>>

\* The end of generate(): what is left in the queue is part of the result.
Drain ==
    /\ pc = "drain"
    /\ cubes' = cubes \cup queue
    /\ queue' = {}
    /\ pc' = "destroy"
    /\ UNCHANGED <<clauses, late, timeUp, mustBlock, unsat, pending, poolVars, tpc, cube>>

\* The destructor: the flag under the lock, the wake-up, the join.
Shutdown ==
    /\ pc = "destroy"
    /\ shutdown' = TRUE
    /\ pc' = "notifyAll"
    /\ UNCHANGED <<clauses, late, mainVars, jobQueue, results, inFlight, tpc, cube>>

NotifyAll ==
    /\ pc = "notifyAll"
    /\ tpc' = [t \in Threads |-> IF t \in Asleep THEN "wait" ELSE tpc[t]]
    /\ pc' = "join"
    /\ UNCHANGED <<clauses, late, mainVars, poolVars, cube>>

Join ==
    /\ pc = "join"
    /\ \A t \in Threads : tpc[t] = "exit"
    /\ pc' = "done"
    /\ UNCHANGED <<clauses, late, mainVars, poolVars, tpc, cube>>

Deadline ==
    /\ ~late
    /\ late' = TRUE
    /\ UNCHANGED <<clauses, pc, mainVars, poolVars, tpc, cube>>

Main ==
    \/ ExpandLeaf \/ ExpandSplit \/ ExpandAborts \/ NoExpand
    \/ SubmitCount \/ SubmitPush \/ SubmitNotify
    \/ DecideBlock \/ CollectResults \/ CollectWaits
    \/ CheckEmpty \/ CheckLimit \/ CheckTime
    \/ Drain \/ Shutdown \/ NotifyAll \/ Join

-----------------------------------------------------------------------------
(***************************************************************************)
(* A thread of the pool: workerLoop().                                     *)
(***************************************************************************)

\* An abort ends the process, its threads included.
Alive == pc # "aborted"

TakeJob(t) ==
    /\ Alive /\ tpc[t] = "wait"
    /\ \E c \in jobQueue :
          /\ cube' = [cube EXCEPT ![t] = c]
          /\ jobQueue' = jobQueue \ {c}
    /\ tpc' = [tpc EXCEPT ![t] = "solve"]
    /\ UNCHANGED <<clauses, late, pc, mainVars, results, inFlight, shutdown>>

SleepOrExit(t) ==
    /\ Alive /\ tpc[t] = "wait"
    /\ jobQueue = {}
    /\ tpc' = [tpc EXCEPT ![t] = IF shutdown THEN "exit" ELSE "asleep"]
    /\ UNCHANGED <<clauses, late, pc, mainVars, poolVars, cube>>

\* solve(), on a solver of the thread's own, and the result under the lock.
PushResult(t) ==
    /\ Alive /\ tpc[t] = "solve"
    /\ results' = results \cup {[lits |-> cube[t], sat |-> Sat(cube[t])]}
    /\ tpc' = [tpc EXCEPT ![t] = "count"]
    /\ UNCHANGED <<clauses, late, pc, mainVars, jobQueue, inFlight, shutdown, cube>>

\* Mutant: an UNSAT cube is not counted down.
CountDownSat(t) ==
    /\ Alive /\ tpc[t] = "count"
    /\ inFlight' = IF Sat(cube[t]) THEN inFlight - 1 ELSE inFlight
    /\ tpc' = [tpc EXCEPT ![t] = "notify"]
    /\ UNCHANGED <<clauses, late, pc, mainVars, jobQueue, results, shutdown, cube>>

CountDown(t) ==
    /\ Alive /\ tpc[t] = "count"
    /\ inFlight' = inFlight - 1
    /\ tpc' = [tpc EXCEPT ![t] = "notify"]
    /\ UNCHANGED <<clauses, late, pc, mainVars, jobQueue, results, shutdown, cube>>

NotifyMain(t) ==
    /\ Alive /\ tpc[t] = "notify"
    /\ pc' = IF pc = "blocked" THEN "collect" ELSE pc
    /\ tpc' = [tpc EXCEPT ![t] = "wait"]
    /\ UNCHANGED <<clauses, late, mainVars, poolVars, cube>>

Thread(t) ==
    TakeJob(t) \/ SleepOrExit(t) \/ PushResult(t) \/ CountDown(t) \/ NotifyMain(t)

Next == Main \/ Deadline \/ \E t \in Threads : Thread(t)

Spec == Init /\ [][Next]_vars

\* Every runnable thread runs, and time passes.
FairSpec ==
    /\ Spec
    /\ WF_vars(Main)
    /\ WF_vars(Deadline)
    /\ \A t \in Threads : WF_vars(Thread(t))

-----------------------------------------------------------------------------
CubeType == SUBSET Literals(NumVars)

MainLocations ==
    {"top", "count", "push", "notify", "decide", "collect", "blocked",
     "checkEmpty", "checkLimit", "checkTime", "drain", "destroy", "notifyAll",
     "join", "done", "aborted"}

\* Type invariant; m_inFlight, decremented by the threads, is never negative.
TypeOK ==
    /\ clauses \in Formulas
    /\ late \in BOOLEAN
    /\ pc \in MainLocations
    /\ timeUp \in BOOLEAN
    /\ mustBlock \in BOOLEAN
    /\ unsat \in BOOLEAN
    /\ queue \in SUBSET CubeType
    /\ cubes \in SUBSET CubeType
    /\ pending \in SUBSET CubeType
    /\ jobQueue \in SUBSET CubeType
    /\ results \in SUBSET [lits : CubeType, sat : BOOLEAN]
    /\ inFlight \in Nat
    /\ shutdown \in BOOLEAN
    /\ tpc \in [Threads -> {"wait", "asleep", "solve", "count", "notify", "exit"}]
    /\ cube \in [Threads -> CubeType]

Busy == {t \in Threads : tpc[t] \in {"solve", "count"}}

\* m_inFlight counts the jobs whose result is not posted and counted yet: the
\* ones in the queue, the ones a thread works on, and the one announced by
\* submitSATCheck and not yet pushed.
InFlightExact ==
    inFlight = Cardinality(jobQueue) + Cardinality(Busy)
               + (IF pc = "push" THEN 1 ELSE 0)

\* Where a cube can be, and whose it is: with the main thread, in a container
\* that the pool shares, or with a thread that solves it.
Held ==
    {<<"cubes", "main", c>> : c \in cubes}
    \cup {<<"queue", "main", c>> : c \in queue}
    \cup {<<"pending", "main", c>> : c \in pending}
    \cup {<<"jobQueue", "pool", c>> : c \in jobQueue}
    \cup {<<"results", "pool", r.lits>> : r \in results}
    \cup {<<"cube", t, cube[t]>> : t \in {u \in Threads : tpc[u] = "solve"}}

\* Whatever the interleaving, every model of the formula extends exactly one
\* of the cubes in the hands of the main thread and of the pool: splitting,
\* pruning and dropping UNSAT cubes lose no model and count none twice.
EachModelOnce ==
    \A a \in Models(NumVars, clauses, {}) :
        \E h \in Held :
            /\ a \in Models(NumVars, clauses, h[3])
            /\ \A g \in Held : a \in Models(NumVars, clauses, g[3]) => g = h

Returned == pc \in {"drain", "destroy", "notifyAll", "join", "done"}

\* When generate() leaves its loop, the only place besides its own containers
\* in which a cube can be is m_results: no job is queued or being solved.
OnlyResultsLeft ==
    Returned => jobQueue = {} /\ pending = {} /\ Busy = {}

-----------------------------------------------------------------------------
\* The cubes with a model, wherever they are.
Live == {c \in {h[3] : h \in Held} : Sat(c)}

Gen == INSTANCE Generator WITH formula <- clauses, live <- Live

(***************************************************************************)
(* The main thread and the pool do what one thread would do that splits    *)
(* cubes and keeps the halves with a model.  Only createCubes() changes    *)
(* the set of these cubes; jobs, results, the UNSAT cubes dropped on the   *)
(* way and the end of generate() do not show, whatever the interleaving.   *)
(***************************************************************************)
ImplementsGenerator == Gen!Spec

-----------------------------------------------------------------------------
\* generate() has returned and its result is written.
Written == pc \in {"destroy", "notifyAll", "join", "done"}

\* A model that generate() does not return in a cube, or denies by reporting
\* UNSAT, is in a result that was posted as satisfiable and never collected:
\* that window is the only way in which the generator loses models.
MissesOnlyUncollected ==
    Written =>
        \A a \in Models(NumVars, clauses, {}) :
            \/ ~unsat /\ \E c \in cubes : a \in Models(NumVars, clauses, c)
            \/ \E r \in results : r.sat /\ a \in Models(NumVars, clauses, r.lits)

\* The end of generate(): no job is left behind, and no model is lost but in a
\* result that was not collected.
LosesOnlyUncollected == OnlyResultsLeft /\ MissesOnlyUncollected

\* The assertions of createCubes fail only for a formula that unit propagation
\* alone refutes.
AbortsOnlyIfRefuted == pc = "aborted" => Refuted(NumVars, clauses)

\* The main thread waits for a result and no thread will ever post one.
Hung ==
    /\ pc = "blocked"
    /\ inFlight = 0
    /\ results = {}

\* generate() and the destructor end, or the main thread hangs in
\* collectResults because it has read the counter between a result it already
\* collected and the decrement that belongs to it: no other wait is endless,
\* so no wake-up is lost on either condition variable.
Returns == <>(pc \in {"done", "aborted"} \/ Hung)

\* "nothing was ever SAT -> UNSAT": generate() returns false only for a formula
\* without models.
UnsatMeansNothingSat ==
    pc = "done" /\ unsat => Models(NumVars, clauses, {}) = {}

=============================================================================
