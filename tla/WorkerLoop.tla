----------------------------- MODULE WorkerLoop -----------------------------
(***************************************************************************)
(* The connection of a worker to the master: run and _run_with_channel of  *)
(* python-worker/worker.py.  What a worker does with a task is in          *)
(* WorkerSolve; here it is a step that takes some time.                    *)
(*                                                                         *)
(* Times are in seconds.  Instead of a clock the model has the time since  *)
(* failure_start (failingFor, None when failure_start is) and, as a        *)
(* history variable, the time since the master went away (outage).  Both   *)
(* stop at MaxTime, which is beyond GIVE_UP_AFTER_SEC.                     *)
(***************************************************************************)
EXTENDS Integers

CONSTANTS
    GiveUpAfterSec,     \* GIVE_UP_AFTER_SEC
    RetryBaseSec,       \* RETRY_BASE_SEC
    RetryMaxSec,        \* RETRY_MAX_SEC
    SolveTimes,         \* how long a task takes
    MaxTime             \* bound: where the clocks stop

ASSUME LoopAssumption ==
    /\ GiveUpAfterSec \in Nat /\ RetryBaseSec \in Nat /\ RetryMaxSec \in Nat
    /\ SolveTimes \subseteq Nat
    /\ MaxTime \in Nat /\ MaxTime > GiveUpAfterSec

VARIABLES at, consecutiveFailures, failingFor, up, crashed, outage

loopVars == <<at, consecutiveFailures, failingFor, up, crashed, outage>>

None == -1

Later(t, d) == IF t = None THEN None ELSE IF t + d > MaxTime THEN MaxTime ELSE t + d

\* min(RETRY_BASE_SEC * 1.5 ** failures, RETRY_MAX_SEC), in whole seconds.
Delay(failures) ==
    LET d == (RetryBaseSec * 3 ^ failures) \div 2 ^ failures
    IN  IF d > RetryMaxSec THEN RetryMaxSec ELSE d

\* Time passes for the clock of the outage; failingFor is set by the action.
Outage(d) == outage' = IF up THEN 0 ELSE Later(outage, d)

LoopInit ==
    /\ at = "connect"
    /\ consecutiveFailures = 0
    /\ failingFor = None
    /\ up \in BOOLEAN
    /\ crashed = FALSE
    /\ outage = 0

-----------------------------------------------------------------------------
\* A channel is made, and _run_with_channel starts with fresh locals.
OpenChannel ==
    /\ at = "connect"
    /\ consecutiveFailures' = 0
    /\ failingFor' = None
    /\ at' = "getTask"
    /\ UNCHANGED <<up, crashed, outage>>

\* A task, or the ID -1.
GetTaskAnswered ==
    /\ at = "getTask"
    /\ up
    /\ consecutiveFailures' = 0
    /\ failingFor' = None
    /\ at' \in {"solving", "sleeping"}
    /\ UNCHANGED <<up, crashed, outage>>

\* time.sleep(2), and the loop goes on.
SleepAndPoll ==
    /\ at = "sleeping"
    /\ at' = "getTask"
    /\ Outage(2)
    /\ UNCHANGED <<consecutiveFailures, failingFor, up, crashed>>

SolveTask(d) ==
    /\ at = "solving"
    /\ at' = "submit"
    /\ Outage(d)
    /\ UNCHANGED <<consecutiveFailures, failingFor, up, crashed>>

SubmitAnswered ==
    /\ at = "submit"
    /\ up
    /\ at' = "getTask"
    /\ UNCHANGED <<consecutiveFailures, failingFor, up, crashed, outage>>

\* Mutant: the time of the failures is compared the wrong way round.
UnavailableGivesUp ==
    /\ at \in {"getTask", "submit"}
    /\ ~up
    /\ LET failing == IF failingFor = None THEN 0 ELSE failingFor
       IN  /\ failing < GiveUpAfterSec
           /\ at' = "exited"
           /\ failingFor' = failing
    /\ UNCHANGED <<consecutiveFailures, up, crashed, outage>>

\* The call fails with UNAVAILABLE.  After a delay, and two more seconds in
\* run, a new channel is made; a result that was being submitted is lost.
Unavailable ==
    /\ at \in {"getTask", "submit"}
    /\ ~up
    /\ LET failing == IF failingFor = None THEN 0 ELSE failingFor
           delay   == Delay(consecutiveFailures + 1) + 2
       IN  IF failing > GiveUpAfterSec
           THEN /\ at' = "exited"
                /\ failingFor' = failing
                /\ UNCHANGED <<consecutiveFailures, outage>>
           ELSE /\ at' = "connect"
                /\ consecutiveFailures' = consecutiveFailures + 1
                /\ failingFor' = Later(failing, delay)
                /\ Outage(delay)
    /\ UNCHANGED <<up, crashed>>

\* Mutant: any error the master answers with ends the worker.
OtherErrorExits ==
    /\ at \in {"getTask", "submit"}
    /\ up
    /\ at' = "exited"
    /\ UNCHANGED <<consecutiveFailures, failingFor, up, crashed, outage>>

\* The master answers with an error, for an unknown task for instance: five
\* seconds later the loop goes on, on the same channel.
OtherError ==
    /\ at \in {"getTask", "submit"}
    /\ up
    /\ at' = "getTask"
    /\ failingFor' = Later(failingFor, 5)
    /\ UNCHANGED <<consecutiveFailures, up, crashed, outage>>

\* An exception that is not an RPC error, in _solve for instance.
UnexpectedError ==
    /\ at \in {"getTask", "solving", "submit"}
    /\ at' = "exited"
    /\ crashed' = TRUE
    /\ UNCHANGED <<consecutiveFailures, failingFor, up, outage>>

MasterGoes ==
    /\ up
    /\ up' = FALSE
    /\ UNCHANGED <<at, consecutiveFailures, failingFor, crashed, outage>>

MasterReturns ==
    /\ ~up
    /\ up' = TRUE
    /\ outage' = 0
    /\ UNCHANGED <<at, consecutiveFailures, failingFor, crashed>>

Step ==
    \/ OpenChannel \/ GetTaskAnswered \/ SleepAndPoll \/ SubmitAnswered \/ Unavailable
    \/ \E d \in SolveTimes : SolveTask(d)

LoopNext == Step \/ OtherError \/ UnexpectedError \/ MasterGoes \/ MasterReturns

(***************************************************************************)
(* The worker keeps running.  A master that is up answers a call sooner or *)
(* later, however many other errors come in between.                       *)
(***************************************************************************)
LoopSpec ==
    /\ LoopInit
    /\ [][LoopNext]_loopVars
    /\ WF_loopVars(Step)
    /\ SF_loopVars(GetTaskAnswered)

-----------------------------------------------------------------------------
(***************************************************************************)
(* A worker exits only for a reason that run names: an unexpected error,   *)
(* or a master that has been away for longer than GIVE_UP_AFTER_SEC.  The  *)
(* short outages between two files do not end it.                          *)
(***************************************************************************)
ExitsForAReason == at = "exited" => crashed \/ outage > GiveUpAfterSec

(***************************************************************************)
(* When the master is back for good, the worker goes on to ask it for      *)
(* tasks and gets answers, unless an unexpected error has ended it.        *)
(***************************************************************************)
Recovers == <>[]up /\ []~crashed => []<>(at \in {"solving", "sleeping"})

=============================================================================
