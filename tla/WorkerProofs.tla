---------------------------- MODULE WorkerProofs ----------------------------
(***************************************************************************)
(* Proofs about the worker: what it does with a task (WorkerSolve), for    *)
(* any number of tasks, any timeouts and any updates, and how it keeps     *)
(* its connection (WorkerLoop), for any delays.                            *)
(***************************************************************************)
EXTENDS WorkerSolve, WorkerLoop, TLAPS

\* A limit of the current task has passed.
Due == \E t \in limits : IsLimit(t) /\ elapsed >= t

\* Nothing of a task exists before its Popen.
FutureTasks ==
    \A n \in Tasks : n > cur => ganak[n] = "none" /\ ~killedEvent[n] /\ listener[n] = "none"

\* What ganak is doing at each point of the main thread.
GanakFlow ==
    /\ pc = "communicate" => ganak[cur] # "none"
    /\ pc \in {"returned", "checkKilled"} => ganak[cur] \in {"printed", "silent", "killed"}
    /\ pc \in {"reaped", "submit"} => ganak[cur] # "running"
    /\ pc = "expired" => ganak[cur] # "none"
    /\ pc = "idle" /\ cur > 0 => ganak[cur] # "running"

\* killed_event is set before the kill.
FlagFirst ==
    /\ \A n \in Tasks : listener[n] = "killing" => killedEvent[n]
    /\ pc \in {"communicate", "returned", "checkKilled", "expired"} /\ ganak[cur] = "killed"
          => killedEvent[cur]

\* The clock has passed a limit before anyone acts on it.
DueFirst ==
    /\ \A n \in Tasks : n = cur /\ (killedEvent[n] \/ listener[n] \in {"exceeded", "killing"})
          => Due
    /\ pc \in {"expired", "reaped"} => Due
    /\ pc # "idle" => timeoutSec \in limits /\ timeoutSec > 0

\* There is a result exactly while it is being submitted.
ResultFlow == (result = "none") <=> (pc # "submit")

IInv ==
    /\ TypeOK /\ FutureTasks /\ GanakFlow /\ FlagFirst /\ DueFirst /\ ResultFlow
    /\ KilledIsTimeout /\ TimeoutIsDue

-----------------------------------------------------------------------------
LEMMA NextCases ==
    ASSUME Next
    PROVE  \/ \E t \in TaskTimeouts : Popen(t)
           \/ CommunicateReturns \/ SetStop \/ CheckKilled
           \/ CommunicateExpires \/ KillExpired \/ AnswerExpired \/ SubmitResult
           \/ \E n \in Tasks : ListenerStops(n)
           \/ \E n \in Tasks, t \in Updates : ListenerNotes(n, t)
           \/ \E n \in Tasks, t \in Updates : ListenerExceeded(n, t)
           \/ \E n \in Tasks : SetKilled(n)
           \/ \E n \in Tasks : KillGanak(n)
           \/ GanakEnds \/ Tick
BY Zenon DEF Next, MainStep, ListenerStep, KillStep

LEMMA InitIInv == Init => IInv
BY SolveAssumption
DEF Init, IInv, TypeOK, FutureTasks, GanakFlow, FlagFirst, DueFirst, ResultFlow,
    KilledIsTimeout, TimeoutIsDue, Tasks, MainPcs

LEMMA NextIInv == IInv /\ [Next]_vars => IInv'
<1> SUFFICES ASSUME IInv, [Next]_vars
             PROVE  IInv'
    OBVIOUS
<1> USE SolveAssumption
<1> USE DEF IInv, TypeOK, FutureTasks, GanakFlow, FlagFirst, DueFirst, Due, ResultFlow,
            KilledIsTimeout, TimeoutIsDue, Tasks, MainPcs, IsLimit, sharedVars
<1>1. ASSUME NEW t \in TaskTimeouts, Popen(t) PROVE IInv'
    BY <1>1 DEF Popen
<1>2. CASE CommunicateReturns
    BY <1>2 DEF CommunicateReturns
<1>3. CASE SetStop
    BY <1>3 DEF SetStop
<1>4. CASE CheckKilled
    BY <1>4 DEF CheckKilled, ParseCount
<1>5. CASE CommunicateExpires
    BY <1>5 DEF CommunicateExpires
<1>6. CASE KillExpired
    BY <1>6 DEF KillExpired, Killed
<1>7. CASE AnswerExpired
    BY <1>7 DEF AnswerExpired
<1>8. CASE SubmitResult
    BY <1>8 DEF SubmitResult
<1>9. ASSUME NEW n \in Tasks, ListenerStops(n) PROVE IInv'
    BY <1>9 DEF ListenerStops
<1>10. ASSUME NEW n \in Tasks, NEW t \in Updates, ListenerNotes(n, t) PROVE IInv'
    BY <1>10 DEF ListenerNotes
<1>11. ASSUME NEW n \in Tasks, NEW t \in Updates, ListenerExceeded(n, t) PROVE IInv'
    BY <1>11 DEF ListenerExceeded
<1>12. ASSUME NEW n \in Tasks, SetKilled(n) PROVE IInv'
    BY <1>12 DEF SetKilled
<1>13. ASSUME NEW n \in Tasks, KillGanak(n) PROVE IInv'
    BY <1>13 DEF KillGanak, Killed
<1>14. CASE GanakEnds
    BY <1>14 DEF GanakEnds
<1>15. CASE Tick
    BY <1>15 DEF Tick
<1>16. CASE UNCHANGED vars
    BY <1>16 DEF vars
<1> QED
    BY <1>1, <1>2, <1>3, <1>4, <1>5, <1>6, <1>7, <1>8, <1>9, <1>10, <1>11, <1>12, <1>13,
       <1>14, <1>15, <1>16, NextCases, Zenon

LEMMA IInvHolds == Spec => []IInv
BY InitIInv, NextIInv, PTL DEF Spec

(***************************************************************************)
(* The state of the main thread, of the listeners and of the events they   *)
(* share keeps its type, and _solve only runs for a task it was given.     *)
(***************************************************************************)
THEOREM TypeCorrect == Spec => []TypeOK
<1>1. IInv => TypeOK
    BY DEF IInv
<1> QED
    BY <1>1, IInvHolds, PTL

(***************************************************************************)
(* Whatever the listeners do and whenever ganak ends, a killed run is      *)
(* submitted as a timeout and never as a count (_solve, worker.py).        *)
(***************************************************************************)
THEOREM KilledRunsAreTimeouts == Spec => []KilledIsTimeout
<1>1. IInv => KilledIsTimeout
    BY DEF IInv
<1> QED
    BY <1>1, IInvHolds, PTL

(***************************************************************************)
(* No task is submitted as timed out before a limit of its own has passed, *)
(* however late the listeners of earlier tasks act.                        *)
(***************************************************************************)
THEOREM TimeoutsAreDue == Spec => []TimeoutIsDue
<1>1. IInv => TimeoutIsDue
    BY DEF IInv
<1> QED
    BY <1>1, IInvHolds, PTL

-----------------------------------------------------------------------------
(***************************************************************************)
(* Refinement.                                                             *)
(***************************************************************************)
LEMMA InitContract == Init => Contract!Init
BY DEF Init, Contract!Init, Phase, Silent

LEMMA NextContract == IInv /\ [Next]_vars => [Contract!Next]_(Contract!vars)
<1> SUFFICES ASSUME IInv, [Next]_vars
             PROVE  Contract!Next \/ UNCHANGED Contract!vars
    OBVIOUS
<1> USE SolveAssumption
<1> USE DEF IInv, TypeOK, Tasks, MainPcs, sharedVars, Phase, Silent
<1>1. ASSUME NEW t \in TaskTimeouts, Popen(t) PROVE Contract!Take
    BY <1>1 DEF Popen, Contract!Take, ResultFlow
<1>2. CASE CommunicateReturns \/ SetStop \/ CommunicateExpires \/ KillExpired
    BY <1>2 DEF CommunicateReturns, SetStop, CommunicateExpires, KillExpired, Killed,
                Contract!vars
<1>3. CASE CheckKilled
    BY <1>3 DEF CheckKilled, ParseCount, GanakFlow, FlagFirst, Contract!Next, Contract!Answer
<1>4. CASE AnswerExpired
    BY <1>4 DEF AnswerExpired, Contract!Next, Contract!Answer
<1>5. CASE SubmitResult
    BY <1>5 DEF SubmitResult, Contract!Next, Contract!Submit
<1>6. ASSUME NEW n \in Tasks, KillGanak(n) PROVE UNCHANGED Contract!vars
    BY <1>6 DEF KillGanak, Killed, Contract!vars
<1>7. ASSUME NEW n \in Tasks, ListenerStops(n) \/ SetKilled(n)
      PROVE  UNCHANGED Contract!vars
    BY <1>7 DEF ListenerStops, SetKilled, Contract!vars
<1>8. ASSUME NEW n \in Tasks, NEW t \in Updates, ListenerNotes(n, t) \/ ListenerExceeded(n, t)
      PROVE  UNCHANGED Contract!vars
    BY <1>8 DEF ListenerNotes, ListenerExceeded, Contract!vars
<1>9. CASE GanakEnds
    BY <1>9 DEF GanakEnds, GanakFlow, Contract!Next, Contract!GanakFails, Contract!vars
<1>10. CASE Tick
    BY <1>10 DEF Tick, Contract!vars
<1>11. CASE UNCHANGED vars
    BY <1>11 DEF vars, Contract!vars
<1> QED
    BY <1>1, <1>2, <1>3, <1>4, <1>5, <1>6, <1>7, <1>8, <1>9, <1>10, <1>11, NextCases, Zenon
    DEF Contract!Next

(***************************************************************************)
(* The main thread, the listeners and ganak together answer each task as   *)
(* the master relies on: with a count that was printed, with a timeout, or *)
(* with the 0 of a ganak that printed nothing.                             *)
(***************************************************************************)
THEOREM WorkerImplementsContract == Spec => ImplementsContract
<1>1. Init => Contract!Init
    BY InitContract
<1>2. IInv /\ [Next]_vars => [Contract!Next]_(Contract!vars)
    BY NextContract
<1> QED
    BY <1>1, <1>2, IInvHolds, PTL DEF Spec, ImplementsContract, Contract!Spec

-----------------------------------------------------------------------------
(***************************************************************************)
(* The connection to the master.                                           *)
(***************************************************************************)
\* Every channel starts with no failure on record, and the first failure
\* leads to a new channel.
FreshChannel ==
    /\ at \notin {"connect", "exited"} => failingFor = None
    /\ at = "exited" => crashed

LEMMA FreshChannelHolds ==
    LoopSpec => []FreshChannel
<1>1. LoopInit => FreshChannel
    BY DEF LoopInit, FreshChannel
<1>2. ASSUME FreshChannel, [LoopNext]_loopVars
      PROVE  FreshChannel'
    <2>1. CASE Unavailable
        <3>1. failingFor = None
            BY <1>2, <2>1 DEF FreshChannel, Unavailable
        <3>2. at' = "connect"
            BY <2>1, <3>1, LoopAssumption DEF Unavailable
        <3> QED
            BY <3>2 DEF FreshChannel
    <2>2. CASE OpenChannel \/ GetTaskAnswered
        BY <2>2 DEF OpenChannel, GetTaskAnswered, FreshChannel
    <2>3. CASE SleepAndPoll \/ SubmitAnswered \/ \E d \in SolveTimes : SolveTask(d)
        BY <1>2, <2>3 DEF SleepAndPoll, SubmitAnswered, SolveTask, FreshChannel
    <2>4. CASE OtherError
        BY <1>2, <2>4 DEF OtherError, Later, FreshChannel
    <2>5. CASE UnexpectedError
        BY <2>5 DEF UnexpectedError, FreshChannel
    <2>6. CASE MasterGoes \/ MasterReturns \/ UNCHANGED loopVars
        BY <1>2, <2>6 DEF MasterGoes, MasterReturns, loopVars, FreshChannel
    <2> QED
        BY <1>2, <2>1, <2>2, <2>3, <2>4, <2>5, <2>6 DEF LoopNext, Step
<1> QED
    BY <1>1, <1>2, PTL DEF LoopSpec

(***************************************************************************)
(* A worker exits only for a reason that run names, whatever the delays,   *)
(* the solving times and the comings and goings of the master.  Of the two *)
(* reasons only the unexpected error ever applies: the other one, a master *)
(* away for GIVE_UP_AFTER_SEC, is out of reach, because failure_start is   *)
(* lost with the channel of the first failure.                             *)
(***************************************************************************)
THEOREM OnlyErrorsEndTheWorker ==
    LoopSpec => [](ExitsForAReason /\ (at = "exited" => crashed))
<1>1. FreshChannel => ExitsForAReason /\ (at = "exited" => crashed)
    BY DEF FreshChannel, ExitsForAReason
<1> QED
    BY <1>1, FreshChannelHolds, PTL

=============================================================================
