---------------------------- MODULE WorkerSolve ----------------------------
(***************************************************************************)
(* How a worker solves its tasks: _solve, the listener thread started by   *)
(* _start_timeout_subscriber, and the ganak process they share             *)
(* (python-worker/worker.py).                                              *)
(*                                                                         *)
(* Each task has its own process, stop_event, killed_event and listener.   *)
(* The listener of a task may outlive it: it sees stop_event only when the *)
(* next update arrives, and may be anywhere in its handling of an update   *)
(* when the main thread goes on to the next task.  The updates that come   *)
(* in are any of Updates, at any time (TimeoutStream says which).          *)
(*                                                                         *)
(* elapsed is the age of the current task in seconds.  limits is a history *)
(* variable: the timeouts the current task was given, with the task or as  *)
(* an update.                                                              *)
(***************************************************************************)
EXTENDS Integers

CONSTANTS
    MaxTasks,       \* bound: tasks of the worker
    MaxElapsed,     \* bound: the clock of a task stops there
    TaskTimeouts,   \* TaskPayload.timeout_sec
    Updates,        \* TimeoutUpdate.timeout_sec
    NoTimeout,      \* 2_147_483_647
    GanakMayFail    \* may ganak end without printing a count?

ASSUME SolveAssumption ==
    /\ MaxTasks \in Nat /\ MaxElapsed \in Nat
    /\ TaskTimeouts \subseteq Nat \ {0} /\ Updates \subseteq Int
    /\ NoTimeout \in Nat \ {0} /\ MaxElapsed < NoTimeout
    /\ GanakMayFail \in BOOLEAN

Tasks == 1..MaxTasks

VARIABLES
    pc, cur, timeoutSec, elapsed, result,    \* the main thread
    ganak, stopEvent, killedEvent,           \* shared by the threads of a task
    listener,                                \* the listener threads
    limits                                   \* history

sharedVars == <<ganak, stopEvent, killedEvent>>
vars == <<pc, cur, timeoutSec, elapsed, result, sharedVars, listener, limits>>

Init ==
    /\ pc = "idle"
    /\ cur = 0
    /\ timeoutSec = NoTimeout
    /\ elapsed = 0
    /\ result = "none"
    /\ ganak = [n \in Tasks |-> "none"]
    /\ stopEvent = [n \in Tasks |-> FALSE]
    /\ killedEvent = [n \in Tasks |-> FALSE]
    /\ listener = [n \in Tasks |-> "none"]
    /\ limits = {}

-----------------------------------------------------------------------------
(***************************************************************************)
(* The main thread.                                                        *)
(***************************************************************************)

\* Mutant: the worker has one killed_event, which the next task inherits.
PopenSharesEvent(t) ==
    /\ pc = "idle"
    /\ cur < MaxTasks
    /\ pc' = "communicate"
    /\ cur' = cur + 1
    /\ timeoutSec' = t
    /\ elapsed' = 0
    /\ limits' = {t}
    /\ ganak' = [ganak EXCEPT ![cur + 1] = "running"]
    /\ listener' = [listener EXCEPT ![cur + 1] = "listening"]
    /\ killedEvent' = [killedEvent EXCEPT ![cur + 1] = cur > 0 /\ killedEvent[cur]]
    /\ UNCHANGED <<result, stopEvent>>

Popen(t) ==
    /\ pc = "idle"
    /\ cur < MaxTasks
    /\ pc' = "communicate"
    /\ cur' = cur + 1
    /\ timeoutSec' = t
    /\ elapsed' = 0
    /\ limits' = {t}
    /\ ganak' = [ganak EXCEPT ![cur + 1] = "running"]
    /\ listener' = [listener EXCEPT ![cur + 1] = "listening"]
    /\ UNCHANGED <<result, stopEvent, killedEvent>>

\* communicate returns when ganak has ended, of itself or killed.
CommunicateReturns ==
    /\ pc = "communicate"
    /\ ganak[cur] # "running"
    /\ pc' = "returned"
    /\ UNCHANGED <<cur, timeoutSec, elapsed, result, sharedVars, listener, limits>>

SetStop ==
    /\ pc = "returned"
    /\ stopEvent' = [stopEvent EXCEPT ![cur] = TRUE]
    /\ pc' = "checkKilled"
    /\ UNCHANGED <<cur, timeoutSec, elapsed, result, ganak, killedEvent, listener, limits>>

\* Mutant: output without a count is passed on as it is.
ParseRaw == IF ganak[cur] = "printed" THEN "count" ELSE ganak[cur]

\* Without a line that holds a count, the parser answers "0".
ParseCount == IF ganak[cur] = "printed" THEN "count" ELSE "failed"

CheckKilled ==
    /\ pc = "checkKilled"
    /\ result' = IF killedEvent[cur] THEN "timeout" ELSE ParseCount
    /\ pc' = "submit"
    /\ UNCHANGED <<cur, timeoutSec, elapsed, sharedVars, listener, limits>>

\* Mutant: the test for "no limit" is inverted.
UnlimitedExpires ==
    /\ pc = "communicate"
    /\ timeoutSec >= NoTimeout
    /\ pc' = "expired"
    /\ UNCHANGED <<cur, timeoutSec, elapsed, result, sharedVars, listener, limits>>

\* communicate raises TimeoutExpired.
CommunicateExpires ==
    /\ pc = "communicate"
    /\ timeoutSec < NoTimeout
    /\ elapsed >= timeoutSec
    /\ pc' = "expired"
    /\ UNCHANGED <<cur, timeoutSec, elapsed, result, sharedVars, listener, limits>>

\* kill does nothing to a process that has ended.
Killed(n) == [ganak EXCEPT ![n] = IF @ = "running" THEN "killed" ELSE @]

KillExpired ==
    /\ pc = "expired"
    /\ ganak' = Killed(cur)
    /\ pc' = "reaped"
    /\ UNCHANGED <<cur, timeoutSec, elapsed, result, stopEvent, killedEvent, listener, limits>>

AnswerExpired ==
    /\ pc = "reaped"
    /\ stopEvent' = [stopEvent EXCEPT ![cur] = TRUE]
    /\ result' = "timeout"
    /\ pc' = "submit"
    /\ UNCHANGED <<cur, timeoutSec, elapsed, ganak, killedEvent, listener, limits>>

\* SubmitResult is called, with whatever outcome.
SubmitResult ==
    /\ pc = "submit"
    /\ result' = "none"
    /\ pc' = "idle"
    /\ UNCHANGED <<cur, timeoutSec, elapsed, sharedVars, listener, limits>>

-----------------------------------------------------------------------------
(***************************************************************************)
(* The listener of task n, when an update arrives: it looks at stop_event  *)
(* and at the clock, and then sets killed_event and kills ganak.           *)
(***************************************************************************)
ListenerStops(n) ==
    /\ listener[n] = "listening"
    /\ stopEvent[n]
    /\ listener' = [listener EXCEPT ![n] = "ended"]
    /\ UNCHANGED <<pc, cur, timeoutSec, elapsed, result, sharedVars, limits>>

IsLimit(t) == t > 0 /\ t < NoTimeout

\* An update that is not exceeded yet, or means "no limit", changes nothing.
ListenerNotes(n, t) ==
    /\ listener[n] = "listening"
    /\ ~stopEvent[n]
    /\ IsLimit(t) => elapsed < t
    /\ limits' = IF IsLimit(t) THEN limits \cup {t} ELSE limits
    /\ UNCHANGED <<pc, cur, timeoutSec, elapsed, result, sharedVars, listener>>

ListenerExceeded(n, t) ==
    /\ listener[n] = "listening"
    /\ ~stopEvent[n]
    /\ IsLimit(t)
    /\ elapsed >= t
    /\ limits' = limits \cup {t}
    /\ listener' = [listener EXCEPT ![n] = "exceeded"]
    /\ UNCHANGED <<pc, cur, timeoutSec, elapsed, result, sharedVars>>

\* Mutant: ganak is killed before killed_event is set.
KillFirst(n) ==
    /\ listener[n] = "exceeded"
    /\ ganak' = Killed(n)
    /\ listener' = [listener EXCEPT ![n] = "killing"]
    /\ UNCHANGED <<pc, cur, timeoutSec, elapsed, result, stopEvent, killedEvent, limits>>

SetKilled(n) ==
    /\ listener[n] = "exceeded"
    /\ killedEvent' = [killedEvent EXCEPT ![n] = TRUE]
    /\ listener' = [listener EXCEPT ![n] = "killing"]
    /\ UNCHANGED <<pc, cur, timeoutSec, elapsed, result, ganak, stopEvent, limits>>

KillGanak(n) ==
    /\ listener[n] = "killing"
    /\ ganak' = Killed(n)
    /\ listener' = [listener EXCEPT ![n] = "ended"]
    /\ UNCHANGED <<pc, cur, timeoutSec, elapsed, result, stopEvent, killedEvent, limits>>

-----------------------------------------------------------------------------
(***************************************************************************)
(* Ganak, and time.                                                        *)
(***************************************************************************)
GanakEnds ==
    /\ cur \in Tasks
    /\ ganak[cur] = "running"
    /\ \E out \in {"printed"} \cup (IF GanakMayFail THEN {"silent"} ELSE {}) :
          ganak' = [ganak EXCEPT ![cur] = out]
    /\ UNCHANGED <<pc, cur, timeoutSec, elapsed, result, stopEvent, killedEvent, listener,
                   limits>>

Tick ==
    /\ pc # "idle"
    /\ elapsed < MaxElapsed
    /\ elapsed' = elapsed + 1
    /\ UNCHANGED <<pc, cur, timeoutSec, result, sharedVars, listener, limits>>

MainStep ==
    \/ CommunicateReturns \/ SetStop \/ CheckKilled
    \/ CommunicateExpires \/ KillExpired \/ AnswerExpired \/ SubmitResult

KillStep(n) == SetKilled(n) \/ KillGanak(n)

ListenerStep(n) ==
    \/ ListenerStops(n)
    \/ \E t \in Updates : ListenerNotes(n, t) \/ ListenerExceeded(n, t)
    \/ KillStep(n)

Next ==
    \/ \E t \in TaskTimeouts : Popen(t)
    \/ MainStep
    \/ \E n \in Tasks : ListenerStep(n)
    \/ GanakEnds
    \/ Tick

Spec == Init /\ [][Next]_vars

(***************************************************************************)
(* Threads run and time passes.  Ganak may run forever, and no update need *)
(* ever come.                                                              *)
(***************************************************************************)
FairSpec ==
    /\ Spec
    /\ WF_vars(MainStep)
    /\ WF_vars(Tick)
    /\ \A n \in Tasks : WF_vars(KillStep(n))

-----------------------------------------------------------------------------
MainPcs == {"idle", "communicate", "returned", "checkKilled", "expired", "reaped", "submit"}

(***************************************************************************)
(* Type invariant.                                                         *)
(***************************************************************************)
TypeOK ==
    /\ pc \in MainPcs
    /\ cur \in 0..MaxTasks /\ (pc # "idle" => cur > 0)
    /\ timeoutSec \in Nat
    /\ elapsed \in 0..MaxElapsed
    /\ result \in {"none", "count", "failed", "timeout"}
    /\ ganak \in [Tasks -> {"none", "running", "printed", "silent", "killed"}]
    /\ stopEvent \in [Tasks -> BOOLEAN]
    /\ killedEvent \in [Tasks -> BOOLEAN]
    /\ listener \in [Tasks -> {"none", "listening", "exceeded", "killing", "ended"}]
    /\ limits \subseteq Nat

(***************************************************************************)
(* The output of a ganak that was killed is never taken for a count:       *)
(* because killed_event is set before the kill, the main thread answers    *)
(* with a timeout, and the models of the cube are not lost.  A count comes *)
(* from a ganak that has printed it.                                       *)
(***************************************************************************)
KilledIsTimeout ==
    pc = "submit" =>
        /\ ganak[cur] = "killed" => result = "timeout"
        /\ result = "failed" => ganak[cur] = "silent"
        /\ result = "count" => ganak[cur] = "printed"

(***************************************************************************)
(* A task is answered with a timeout only when one of the limits it was    *)
(* given has passed, whatever the listeners of earlier tasks still do.     *)
(***************************************************************************)
TimeoutIsDue ==
    pc = "submit" /\ result = "timeout" => \E t \in limits : IsLimit(t) /\ elapsed >= t

(***************************************************************************)
(* A task that comes with a timeout is answered, even when ganak never     *)
(* ends and no update arrives.                                             *)
(***************************************************************************)
TimedTaskAnswered == pc = "communicate" /\ timeoutSec <= MaxElapsed ~> pc = "submit"

(***************************************************************************)
(* The worker implements what the master relies on.                        *)
(***************************************************************************)
Phase ==
    IF pc = "idle" THEN "idle" ELSE IF pc = "submit" THEN "submit" ELSE "solving"

Silent == cur > 0 /\ ganak[cur] = "silent"

Contract == INSTANCE WorkerContract WITH phase <- Phase, answer <- result, silent <- Silent

ImplementsContract == Contract!Spec

=============================================================================
