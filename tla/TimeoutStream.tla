--------------------------- MODULE TimeoutStream ---------------------------
(***************************************************************************)
(* The dynamic timeout and the streams that carry it to the workers        *)
(* (go-master/master/timeout_tracker.go, timeout_broadcaster.go, the end   *)
(* of SubmitResult and SubscribeTimeoutUpdates in server.go, and the       *)
(* listener thread of python-worker/worker.py).                            *)
(*                                                                         *)
(* For each task it solves a worker opens a stream, which a handler        *)
(* goroutine of the master serves.  The handler makes a channel of one     *)
(* slot and registers it under the ID of the worker, not of the stream.    *)
(* A listener that ends (it sees an update after its task is over, or      *)
(* kills ganak) drops its stream, which cancels the handler's context some *)
(* time later.  The n-th stream of worker w is <<w, n>>, and so is its     *)
(* channel.                                                                *)
(*                                                                         *)
(* Time is left out: whether an update finds its timeout already exceeded  *)
(* is a free choice.  The clock, and the race between a kill and the end   *)
(* of ganak, are in WorkerSolve.                                           *)
(*                                                                         *)
(* lastBroadcast, reached and seen are history variables: the value of the *)
(* last Broadcast, the streams that were registered at that time, and the  *)
(* last value that each running listener has read.                         *)
(***************************************************************************)
EXTENDS Integers, Sequences, FiniteSets

CONSTANTS
    Workers,            \* the IDs of the workers
    MaxTasks,           \* bound: the number of tasks of each worker
    Durations,          \* the durations, in seconds, of each worker's tasks with a count
    MinDuration,        \* 30 in SubmitResult
    DynamicTimeout,     \* HeuristicConfig.DynamicTimeout
    InitialTimeoutSec,  \* HeuristicConfig.InitialTimeoutSec
    MultNum, MultDen,   \* HeuristicConfig.TimeoutMultiplier, as a fraction
    NoTimeout,          \* math.MaxInt32
    CallsMayFail,       \* may a call fail, so that a worker reconnects?
    MaxFiles            \* bound: the files solved after the first one

ASSUME StreamAssumption ==
    /\ MaxTasks \in [Workers -> Nat]
    /\ Durations \in [Workers -> SUBSET (Nat \ {0})]
    /\ MinDuration \in Nat \ {0}
    /\ DynamicTimeout \in BOOLEAN
    /\ InitialTimeoutSec \in Int
    /\ MultNum \in Nat /\ MultDen \in Nat \ {0}
    /\ NoTimeout \in Nat \ {0}
    /\ CallsMayFail \in BOOLEAN
    /\ MaxFiles \in Nat

Streams == UNION {{w} \X (1..MaxTasks[w]) : w \in Workers}

VARIABLES
    totalSec, sampleCount,               \* TimeoutTracker
    subscribers, chan, closed,           \* TimeoutBroadcaster and its channels
    handler, ctxDone,                    \* the stream handlers of the master
    wire, listener,                      \* the streams and the workers' listeners
    pc, cur, oldTimeout, newTimeout,     \* each worker and its SubmitResult
    files, solve, fileTimeout,           \* the main goroutine, in Solve
    lastBroadcast, reached, seen         \* history

trackerVars == <<totalSec, sampleCount>>
bcastVars   == <<subscribers, chan, closed>>
streamVars  == <<handler, ctxDone, wire, listener>>
submitVars  == <<pc, cur, oldTimeout, newTimeout>>
solveVars   == <<files, solve, fileTimeout>>
histVars    == <<lastBroadcast, reached, seen>>
vars == <<trackerVars, bcastVars, streamVars, submitVars, solveVars, histVars>>

-----------------------------------------------------------------------------
StaticTimeout == IF InitialTimeoutSec <= 0 THEN NoTimeout ELSE InitialTimeoutSec

\* ceil(x / y) for y > 0.
Ceil(x, y) == (x + y - 1) \div y

CurrentTimeoutSec ==
    IF ~DynamicTimeout \/ sampleCount = 0 THEN StaticTimeout
    ELSE LET t == Ceil(totalSec * MultNum, sampleCount * MultDen)
         IN  IF t < 1 THEN 1 ELSE t

Init ==
    /\ totalSec = 0
    /\ sampleCount = 0
    /\ subscribers = [w \in {} |-> <<w, 1>>]
    /\ chan = [s \in Streams |-> <<>>]
    /\ closed = {}
    /\ handler = [s \in Streams |-> "none"]
    /\ ctxDone = {}
    /\ wire = [s \in Streams |-> <<>>]
    /\ listener = [s \in Streams |-> "none"]
    /\ pc = [w \in Workers |-> "idle"]
    /\ cur = [w \in Workers |-> 0]
    /\ oldTimeout = [w \in Workers |-> 0]
    /\ newTimeout = [w \in Workers |-> 0]
    /\ files = 0
    /\ solve = "wait"
    /\ fileTimeout = 0
    /\ lastBroadcast = StaticTimeout
    /\ reached = {}
    /\ seen = [s \in Streams |-> 0]

Goto(w, l) == pc' = [pc EXCEPT ![w] = l]

-----------------------------------------------------------------------------
(***************************************************************************)
(* The worker: _solve starts the listener thread, which opens the stream;  *)
(* the end of _solve sets stop_event, and SubmitResult follows.  Only a    *)
(* result with a count other than "0" changes the timeout.                 *)
(***************************************************************************)
StartTask(w) ==
    /\ pc[w] = "idle"
    /\ cur[w] < MaxTasks[w]
    /\ cur' = [cur EXCEPT ![w] = @ + 1]
    /\ handler' = [handler EXCEPT ![<<w, cur[w] + 1>>] = "called"]
    /\ listener' = [listener EXCEPT ![<<w, cur[w] + 1>>] = "listening"]
    /\ Goto(w, "solving")
    /\ UNCHANGED <<solveVars, trackerVars, bcastVars, ctxDone, wire,
                   oldTimeout, newTimeout, histVars>>

SubmitCount(w) ==
    /\ pc[w] = "solving"
    /\ Durations[w] # {}
    /\ Goto(w, "readOld")
    /\ UNCHANGED <<solveVars, trackerVars, bcastVars, streamVars, cur, oldTimeout,
                   newTimeout, histVars>>

SubmitOther(w) ==
    /\ pc[w] = "solving"
    /\ Goto(w, "idle")
    /\ UNCHANGED <<solveVars, trackerVars, bcastVars, streamVars, cur, oldTimeout,
                   newTimeout, histVars>>

\* stop_event of the task that opened the stream.
Stopped(s) == pc[s[1]] # "solving" \/ cur[s[1]] # s[2]

\* The call failed with UNAVAILABLE: the worker closes its gRPC channel, and
\* with it every stream it has, and makes a new one.
Reconnect(w) ==
    LET own == {s \in Streams : s[1] = w /\ listener[s] # "none"}
    IN  /\ CallsMayFail
        /\ pc[w] = "idle"
        /\ ~(own \subseteq ctxDone)
        /\ ctxDone' = ctxDone \cup own
        /\ listener' = [s \in Streams |-> IF s \in own THEN "ended" ELSE listener[s]]
        /\ wire' = [s \in Streams |-> IF s \in own THEN <<>> ELSE wire[s]]
        /\ seen' = [s \in Streams |-> IF s \in own THEN 0 ELSE seen[s]]
        /\ UNCHANGED <<solveVars, trackerVars, bcastVars, handler, submitVars,
                       lastBroadcast, reached>>

-----------------------------------------------------------------------------
(***************************************************************************)
(* The end of SubmitResult: four separate accesses to the tracker and the  *)
(* broadcaster.                                                            *)
(***************************************************************************)
ReadOldTimeout(w) ==
    /\ pc[w] = "readOld"
    /\ oldTimeout' = [oldTimeout EXCEPT ![w] = CurrentTimeoutSec]
    /\ Goto(w, "record")
    /\ UNCHANGED <<solveVars, trackerVars, bcastVars, streamVars, cur, newTimeout,
                   histVars>>

\* d is the duration in the result; short ones are raised to MinDuration.
RecordCompletion(w, d) ==
    /\ pc[w] = "record"
    /\ totalSec' = totalSec + (IF d > MinDuration THEN d ELSE MinDuration)
    /\ sampleCount' = sampleCount + 1
    /\ Goto(w, "readNew")
    /\ UNCHANGED <<solveVars, bcastVars, streamVars, cur, oldTimeout, newTimeout,
                   histVars>>

ReadNewTimeout(w) ==
    /\ pc[w] = "readNew"
    /\ oldTimeout' = [oldTimeout EXCEPT ![w] = 0]
    /\ IF CurrentTimeoutSec # oldTimeout[w]
       THEN /\ newTimeout' = [newTimeout EXCEPT ![w] = CurrentTimeoutSec]
            /\ Goto(w, "broadcast")
       ELSE /\ UNCHANGED newTimeout
            /\ Goto(w, "idle")
    /\ UNCHANGED <<solveVars, trackerVars, bcastVars, streamVars, cur, histVars>>

\* The channels in the map.
Subscribed == {subscribers[w] : w \in DOMAIN subscribers}

\* Mutants: the channel has more than one slot, and is not flushed; a full
\* channel is skipped without having been flushed.
BroadcastPiles(w) ==
    /\ pc[w] = "broadcast"
    /\ chan' = [s \in Streams |-> IF s \in Subscribed THEN Append(chan[s], newTimeout[w])
                                                      ELSE chan[s]]
    /\ lastBroadcast' = newTimeout[w]
    /\ reached' = Subscribed
    /\ newTimeout' = [newTimeout EXCEPT ![w] = 0]
    /\ Goto(w, "idle")
    /\ UNCHANGED <<solveVars, trackerVars, subscribers, closed, streamVars, cur,
                   oldTimeout, seen>>

BroadcastUnflushed(w) ==
    /\ pc[w] = "broadcast"
    /\ chan' = [s \in Streams |->
                   IF s \in Subscribed /\ chan[s] = <<>> THEN <<newTimeout[w]>>
                                                         ELSE chan[s]]
    /\ lastBroadcast' = newTimeout[w]
    /\ reached' = Subscribed
    /\ newTimeout' = [newTimeout EXCEPT ![w] = 0]
    /\ Goto(w, "idle")
    /\ UNCHANGED <<solveVars, trackerVars, subscribers, closed, streamVars, cur,
                   oldTimeout, seen>>

\* Under the lock of the broadcaster, every channel is flushed and filled.
Broadcast(w) ==
    /\ pc[w] = "broadcast"
    /\ chan' = [s \in Streams |-> IF s \in Subscribed THEN <<newTimeout[w]>> ELSE chan[s]]
    /\ lastBroadcast' = newTimeout[w]
    /\ reached' = Subscribed
    /\ newTimeout' = [newTimeout EXCEPT ![w] = 0]
    /\ Goto(w, "idle")
    /\ UNCHANGED <<solveVars, trackerVars, subscribers, closed, streamVars, cur,
                   oldTimeout, seen>>

-----------------------------------------------------------------------------
(***************************************************************************)
(* Solve, for a file after the first: it replaces the tracker by a new one *)
(* and broadcasts the timeout of that.  A handler reads s.timeoutTracker   *)
(* at each access, so its accesses may fall on both sides of the change,   *)
(* and Solve of the file before may have returned with workers still busy  *)
(* (MasterEarlyReturn).                                                    *)
(***************************************************************************)
NextFile ==
    /\ solve = "wait"
    /\ files < MaxFiles
    /\ files' = files + 1
    /\ totalSec' = 0
    /\ sampleCount' = 0
    /\ solve' = "read"
    /\ UNCHANGED <<fileTimeout, bcastVars, streamVars, submitVars, histVars>>

ReadFileTimeout ==
    /\ solve = "read"
    /\ fileTimeout' = CurrentTimeoutSec
    /\ solve' = "broadcast"
    /\ UNCHANGED <<files, trackerVars, bcastVars, streamVars, submitVars, histVars>>

BroadcastFile ==
    /\ solve = "broadcast"
    /\ chan' = [s \in Streams |-> IF s \in Subscribed THEN <<fileTimeout>> ELSE chan[s]]
    /\ lastBroadcast' = fileTimeout
    /\ reached' = Subscribed
    /\ fileTimeout' = 0
    /\ solve' = "wait"
    /\ UNCHANGED <<files, trackerVars, subscribers, closed, streamVars, submitVars, seen>>

-----------------------------------------------------------------------------
(***************************************************************************)
(* SubscribeTimeoutUpdates, the handler of stream s.                       *)
(***************************************************************************)

\* The new channel takes the place of the one the worker had.
Subscribe(s) ==
    /\ handler[s] = "called"
    /\ subscribers' = [w \in DOMAIN subscribers \cup {s[1]} |->
                          IF w = s[1] THEN s ELSE subscribers[w]]
    /\ handler' = [handler EXCEPT ![s] = "subscribed"]
    /\ UNCHANGED <<solveVars, trackerVars, chan, closed, ctxDone, wire, listener,
                   submitVars, histVars>>

\* A call that is cancelled early may never reach the master.
CallDropped(s) ==
    /\ handler[s] = "called"
    /\ s \in ctxDone
    /\ handler' = [handler EXCEPT ![s] = "ended"]
    /\ UNCHANGED <<solveVars, trackerVars, bcastVars, ctxDone, wire, listener,
                   submitVars, histVars>>

\* A Send puts the value on the wire; on a cancelled stream it fails.
SendCurrent(s) ==
    /\ handler[s] = "subscribed"
    /\ IF s \in ctxDone
       THEN /\ handler' = [handler EXCEPT ![s] = "return"]
            /\ UNCHANGED wire
       ELSE /\ handler' = [handler EXCEPT ![s] = "loop"]
            /\ wire' = [wire EXCEPT ![s] = Append(@, CurrentTimeoutSec)]
    /\ UNCHANGED <<solveVars, trackerVars, bcastVars, ctxDone, listener,
                   submitVars, histVars>>

ForwardUpdate(s) ==
    /\ handler[s] = "loop"
    /\ chan[s] # <<>>
    /\ chan' = [chan EXCEPT ![s] = <<>>]
    /\ IF s \in ctxDone
       THEN /\ handler' = [handler EXCEPT ![s] = "return"]
            /\ UNCHANGED wire
       ELSE /\ wire' = [wire EXCEPT ![s] = Append(@, chan[s][1])]
            /\ UNCHANGED handler
    /\ UNCHANGED <<solveVars, trackerVars, subscribers, closed, ctxDone, listener,
                   submitVars, histVars>>

\* The channel is closed and empty, or the context is done.
LeaveLoop(s) ==
    /\ handler[s] = "loop"
    /\ \/ s \in closed /\ chan[s] = <<>>
       \/ s \in ctxDone
    /\ handler' = [handler EXCEPT ![s] = "return"]
    /\ UNCHANGED <<solveVars, trackerVars, bcastVars, ctxDone, wire, listener,
                   submitVars, histVars>>

\* Mutant: the channel is closed and stays in the map.
UnsubscribeKeeps(s) ==
    /\ handler[s] = "return"
    /\ closed' = IF s[1] \in DOMAIN subscribers THEN closed \cup {subscribers[s[1]]}
                                                ELSE closed
    /\ handler' = [handler EXCEPT ![s] = "ended"]
    /\ chan' = [chan EXCEPT ![s] = <<>>]
    /\ UNCHANGED <<solveVars, trackerVars, subscribers, ctxDone, wire, listener,
                   submitVars, histVars>>

\* The deferred Unsubscribe: it takes the channel found under the worker's ID.
\* Nobody can reach the handler's own channel any more.
Unsubscribe(s) ==
    /\ handler[s] = "return"
    /\ closed' = IF s[1] \in DOMAIN subscribers THEN closed \cup {subscribers[s[1]]}
                                                ELSE closed
    /\ subscribers' = [w \in DOMAIN subscribers \ {s[1]} |-> subscribers[w]]
    /\ handler' = [handler EXCEPT ![s] = "ended"]
    /\ chan' = [chan EXCEPT ![s] = <<>>]
    /\ UNCHANGED <<solveVars, trackerVars, ctxDone, wire, listener, submitVars,
                   histVars>>

-----------------------------------------------------------------------------
(***************************************************************************)
(* The listener thread.                                                    *)
(***************************************************************************)

\* The task goes on: no limit, or the timeout is not exceeded yet.
ListenerGoesOn(s) ==
    /\ listener[s] = "listening"
    /\ wire[s] # <<>>
    /\ ~Stopped(s)
    /\ seen' = [seen EXCEPT ![s] = Head(wire[s])]
    /\ wire' = [wire EXCEPT ![s] = Tail(@)]
    /\ UNCHANGED <<solveVars, trackerVars, bcastVars, handler, ctxDone, listener,
                   submitVars, lastBroadcast, reached>>

\* The task is over, or the timeout is exceeded and ganak is killed.
ListenerBreaks(s) ==
    /\ listener[s] = "listening"
    /\ wire[s] # <<>>
    /\ Stopped(s) \/ Head(wire[s]) < NoTimeout
    /\ listener' = [listener EXCEPT ![s] = "ended"]
    /\ wire' = [wire EXCEPT ![s] = <<>>]
    /\ ctxDone' = ctxDone \cup {s}
    /\ seen' = [seen EXCEPT ![s] = 0]
    /\ UNCHANGED <<solveVars, trackerVars, bcastVars, handler, submitVars,
                   lastBroadcast, reached>>

\* The handler has returned and all it sent is read.
StreamEnds(s) ==
    /\ listener[s] = "listening"
    /\ wire[s] = <<>>
    /\ handler[s] = "ended"
    /\ listener' = [listener EXCEPT ![s] = "ended"]
    /\ seen' = [seen EXCEPT ![s] = 0]
    /\ UNCHANGED <<solveVars, trackerVars, bcastVars, handler, ctxDone, wire,
                   submitVars, lastBroadcast, reached>>

-----------------------------------------------------------------------------
WorkerStep(w) ==
    StartTask(w) \/ SubmitCount(w) \/ SubmitOther(w) \/ Reconnect(w)

SubmitStep(w) ==
    \/ ReadOldTimeout(w)
    \/ \E d \in Durations[w] : RecordCompletion(w, d)
    \/ ReadNewTimeout(w)
    \/ Broadcast(w)

SolveStep == NextFile \/ ReadFileTimeout \/ BroadcastFile

HandlerStep(s) ==
    \/ Subscribe(s) \/ CallDropped(s) \/ SendCurrent(s) \/ ForwardUpdate(s)
    \/ LeaveLoop(s) \/ Unsubscribe(s)

ListenerStep(s) == ListenerGoesOn(s) \/ ListenerBreaks(s) \/ StreamEnds(s)

Next ==
    \/ \E w \in Workers : WorkerStep(w) \/ SubmitStep(w)
    \/ SolveStep
    \/ \E s \in Streams : HandlerStep(s) \/ ListenerStep(s)

Spec == Init /\ [][Next]_vars

-----------------------------------------------------------------------------
HandlerPcs == {"none", "called", "subscribed", "loop", "return", "ended"}

(***************************************************************************)
(* Type invariant.  A channel never holds more than its one slot.          *)
(***************************************************************************)
TypeOK ==
    /\ totalSec \in Nat /\ sampleCount \in Nat
    /\ DOMAIN subscribers \subseteq Workers
    /\ subscribers \in [DOMAIN subscribers -> Streams]
    /\ chan \in [Streams -> Seq(Nat)] /\ \A s \in Streams : Len(chan[s]) <= 1
    /\ closed \subseteq Streams /\ ctxDone \subseteq Streams
    /\ handler \in [Streams -> HandlerPcs]
    /\ wire \in [Streams -> Seq(Nat)]
    /\ listener \in [Streams -> {"none", "listening", "ended"}]
    /\ pc \in [Workers -> {"idle", "solving", "readOld", "record", "readNew", "broadcast"}]
    /\ cur \in [Workers -> Nat] /\ \A w \in Workers : cur[w] <= MaxTasks[w]
    /\ oldTimeout \in [Workers -> Nat] /\ newTimeout \in [Workers -> Nat]
    /\ files \in 0..MaxFiles /\ solve \in {"wait", "read", "broadcast"} /\ fileTimeout \in Nat
    /\ lastBroadcast \in Nat /\ reached \subseteq Streams /\ seen \in [Streams -> Nat]

(***************************************************************************)
(* The map holds only open channels of the worker itself, although a new   *)
(* stream replaces the channel of an older one and the older one's         *)
(* Unsubscribe takes whatever it finds.  So Broadcast never sends on a     *)
(* closed channel, its flush loop ends, and Unsubscribe never closes a     *)
(* channel twice: either would panic and end the master.                   *)
(***************************************************************************)
OpenChannels ==
    \A w \in DOMAIN subscribers :
        /\ subscribers[w][1] = w
        /\ subscribers[w] \notin closed
        /\ handler[subscribers[w]] \in {"subscribed", "loop", "return"}

\* The newest value on its way to the listener of s, or already there.
Newest(s) ==
    IF chan[s] # <<>> THEN chan[s][1]
    ELSE IF wire[s] # <<>> THEN wire[s][Len(wire[s])]
    ELSE seen[s]

(***************************************************************************)
(* Broadcast drops a value only for a newer one: on every stream in the    *)
(* map that a Broadcast has reached, the last value broadcast is the last  *)
(* one the listener will have read, whatever was in the slot, on the wire, *)
(* or sent by the handler on its own when it started.                      *)
(***************************************************************************)
LastBroadcastArrives ==
    \A s \in Subscribed :
        s \in reached /\ listener[s] = "listening" => Newest(s) = lastBroadcast

=============================================================================
