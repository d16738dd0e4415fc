------------------------ MODULE TimeoutStreamProofs ------------------------
(***************************************************************************)
(* Proofs about TimeoutStream, for any workers, any numbers of tasks and   *)
(* files, and any configuration of the timeout.                            *)
(***************************************************************************)
EXTENDS TimeoutStream, SequenceTheorems, TLAPS

\* What exists of a stream at each point of its life.
StreamFlow ==
    /\ \A w \in Workers : \A n \in 1..MaxTasks[w] :
          n > cur[w] => handler[<<w, n>>] = "none" /\ listener[<<w, n>>] = "none"
    /\ \A s \in Streams : s \in closed \cup reached => handler[s] \notin {"none", "called"}
    /\ \A s \in Streams : s \in ctxDone => listener[s] = "ended"

\* A value broadcast to a handler that has not sent its first value yet is
\* still in the slot.
SlotKeeps ==
    \A s \in Streams : handler[s] = "subscribed" /\ s \in reached => chan[s] # <<>>

IInv == TypeOK /\ OpenChannels /\ StreamFlow /\ SlotKeeps /\ LastBroadcastArrives

-----------------------------------------------------------------------------
LEMMA StreamsType ==
    /\ \A w \in Workers : \A n \in 1..MaxTasks[w] : <<w, n>> \in Streams
    /\ \A s \in Streams : s[1] \in Workers /\ s[2] \in 1..MaxTasks[s[1]] /\ s = <<s[1], s[2]>>
BY StreamAssumption DEF Streams

LEMMA TailLast ==
    ASSUME NEW q \in Seq(Nat), q # <<>>
    PROVE  /\ Len(q) = 1 => Tail(q) = <<>> /\ Head(q) = q[Len(q)]
           /\ Len(q) # 1 => Tail(q) # <<>> /\ Tail(q)[Len(Tail(q))] = q[Len(q)]
<1>1. Len(q) \in Nat \ {0}
    BY EmptySeq
<1>2. /\ Tail(q) \in Seq(Nat) /\ Len(Tail(q)) = Len(q) - 1
      /\ \A i \in 1..Len(Tail(q)) : Tail(q)[i] = q[i + 1]
    BY HeadTailProperties
<1>3. Tail(q) # <<>> => Len(Tail(q)) \in Nat \ {0}
    BY <1>2, EmptySeq
<1>4. Len(q) = 1 => Tail(q) = <<>> /\ Head(q) = q[Len(q)]
    BY <1>2, <1>3
<1>5. ASSUME Len(q) # 1 PROVE Tail(q) # <<>> /\ Tail(q)[Len(Tail(q))] = q[Len(q)]
    <2>1. Len(q) - 1 \in 1..Len(Tail(q)) /\ (Len(q) - 1) + 1 = Len(q)
        BY <1>1, <1>2, <1>5
    <2>2. Tail(q)[Len(q) - 1] = q[(Len(q) - 1) + 1]
        BY <1>2, <2>1
    <2>3. Tail(q)[Len(Tail(q))] = q[Len(q)]
        BY <1>2, <2>1, <2>2
    <2>4. Len(Tail(q)) # 0
        BY <1>1, <1>2, <1>5
    <2> QED
        BY <2>3, <2>4, EmptySeq
<1> QED
    BY <1>4, <1>5

LEMMA CeilType == ASSUME NEW x \in Nat, NEW y \in Nat \ {0} PROVE Ceil(x, y) \in Int
BY DEF Ceil

LEMMA TimeoutType ==
    ASSUME totalSec \in Nat, sampleCount \in Nat
    PROVE  CurrentTimeoutSec \in Nat
<1>1. StaticTimeout \in Nat
    BY StreamAssumption DEF StaticTimeout
<1>2. CASE ~DynamicTimeout \/ sampleCount = 0
    BY <1>1, <1>2 DEF CurrentTimeoutSec
<1>3. CASE ~(~DynamicTimeout \/ sampleCount = 0)
    <2>1. totalSec * MultNum \in Nat /\ sampleCount * MultDen \in Nat \ {0}
        BY <1>3, StreamAssumption
    <2>2. Ceil(totalSec * MultNum, sampleCount * MultDen) \in Int
        BY <2>1, CeilType
    <2> HIDE DEF Ceil
    <2> QED
        BY <1>3, <2>2 DEF CurrentTimeoutSec
<1> QED
    BY <1>2, <1>3

LEMMA InitIInv == Init => IInv
BY StreamAssumption, StreamsType
DEF Init, IInv, TypeOK, OpenChannels, StreamFlow, SlotKeeps, LastBroadcastArrives, Subscribed,
    HandlerPcs, StaticTimeout

-----------------------------------------------------------------------------
LEMMA NextCases ==
    ASSUME Next
    PROVE  \/ \E w \in Workers : StartTask(w) \/ SubmitCount(w) \/ SubmitOther(w)
           \/ \E w \in Workers : Reconnect(w)
           \/ \E w \in Workers : ReadOldTimeout(w) \/ ReadNewTimeout(w) \/ Broadcast(w)
           \/ \E w \in Workers : \E d \in Durations[w] : RecordCompletion(w, d)
           \/ NextFile \/ ReadFileTimeout
           \/ BroadcastFile
           \/ \E s \in Streams : Subscribe(s) \/ CallDropped(s) \/ SendCurrent(s)
           \/ \E s \in Streams : ForwardUpdate(s) \/ LeaveLoop(s) \/ Unsubscribe(s)
           \/ \E s \in Streams : ListenerGoesOn(s) \/ ListenerBreaks(s) \/ StreamEnds(s)
BY Zenon DEF Next, WorkerStep, SubmitStep, SolveStep, HandlerStep, ListenerStep

LEMMA NextType == IInv /\ [Next]_vars => TypeOK'
<1> SUFFICES ASSUME TypeOK, [Next]_vars
             PROVE  TypeOK'
    BY DEF IInv
<1> USE DEF TypeOK, HandlerPcs, trackerVars, bcastVars, streamVars, submitVars, solveVars, histVars
<1>1. ASSUME NEW w \in Workers, StartTask(w) PROVE TypeOK'
    <2>0. cur[w] \in Nat /\ MaxTasks[w] \in Nat
        BY StreamAssumption
    <2>1. cur[w] + 1 \in 1..MaxTasks[w] /\ MaxTasks[w] \in Nat
        BY <1>1, <2>0 DEF StartTask
    <2>2. <<w, cur[w] + 1>> \in Streams
        BY <2>1, StreamsType
    <2>3. handler' \in [Streams -> HandlerPcs]
        BY <1>1, <2>2 DEF StartTask
    <2>4. listener' \in [Streams -> {"none", "listening", "ended"}]
        BY <1>1, <2>2 DEF StartTask
    <2>5. cur' \in [Workers -> Nat] /\ \A v \in Workers : cur'[v] <= MaxTasks[v]
        BY <1>1, <2>1 DEF StartTask
    <2> QED
        BY <1>1, <2>3, <2>4, <2>5 DEF StartTask, Goto
<1>2. ASSUME NEW w \in Workers, SubmitCount(w) \/ SubmitOther(w) PROVE TypeOK'
    BY <1>2 DEF SubmitCount, SubmitOther, Goto
<1>3. ASSUME NEW w \in Workers, Reconnect(w) PROVE TypeOK'
    <2>1. wire' \in [Streams -> Seq(Nat)]
        BY <1>3 DEF Reconnect
    <2>2. listener' \in [Streams -> {"none", "listening", "ended"}] /\ seen' \in [Streams -> Nat]
        BY <1>3 DEF Reconnect
    <2>3. ctxDone' \subseteq Streams
        BY <1>3 DEF Reconnect
    <2> QED
        BY <1>3, <2>1, <2>2, <2>3 DEF Reconnect
<1>4. ASSUME NEW w \in Workers, ReadOldTimeout(w) PROVE TypeOK'
    BY <1>4, TimeoutType DEF ReadOldTimeout, Goto
<1>5. ASSUME NEW w \in Workers, NEW d \in Durations[w], RecordCompletion(w, d) PROVE TypeOK'
    <2>1. d \in Nat /\ MinDuration \in Nat
        BY StreamAssumption
    <2>2. totalSec' \in Nat /\ sampleCount' \in Nat
        BY <1>5, <2>1 DEF RecordCompletion
    <2> QED
        BY <1>5, <2>2 DEF RecordCompletion, Goto
<1>6. ASSUME NEW w \in Workers, ReadNewTimeout(w) PROVE TypeOK'
    BY <1>6, TimeoutType DEF ReadNewTimeout, Goto
<1>7. ASSUME NEW w \in Workers, Broadcast(w) PROVE TypeOK'
    <2>1. newTimeout[w] \in Nat /\ <<newTimeout[w]>> \in Seq(Nat) /\ Len(<<newTimeout[w]>>) = 1
        OBVIOUS
    <2>2. chan' \in [Streams -> Seq(Nat)] /\ \A s \in Streams : Len(chan'[s]) <= 1
        BY <1>7, <2>1 DEF Broadcast
    <2>3. reached' \subseteq Streams
        BY <1>7 DEF Broadcast, Subscribed
    <2> QED
        BY <1>7, <2>1, <2>2, <2>3 DEF Broadcast, Goto
<1>8. ASSUME NEW s \in Streams, Subscribe(s) PROVE TypeOK'
    BY <1>8, StreamsType DEF Subscribe
<1>9. ASSUME NEW s \in Streams, CallDropped(s) \/ LeaveLoop(s) PROVE TypeOK'
    BY <1>9 DEF CallDropped, LeaveLoop
<1>10. ASSUME NEW s \in Streams, SendCurrent(s) PROVE TypeOK'
    <2>0. CurrentTimeoutSec \in Nat
        BY TimeoutType
    <2>1. wire' \in [Streams -> Seq(Nat)]
        <3>1. Append(wire[s], CurrentTimeoutSec) \in Seq(Nat)
            BY <2>0
        <3>2. wire' \in {wire, [wire EXCEPT ![s] = Append(wire[s], CurrentTimeoutSec)]}
            BY <1>10 DEF SendCurrent
        <3> QED
            BY <3>1, <3>2
    <2>2. handler' \in [Streams -> HandlerPcs]
        BY <1>10 DEF SendCurrent
    <2> QED
        BY <1>10, <2>1, <2>2 DEF SendCurrent
<1>11. ASSUME NEW s \in Streams, ForwardUpdate(s) PROVE TypeOK'
    <2>1. chan[s][1] \in Nat
        BY <1>11 DEF ForwardUpdate
    <2>2. wire' \in [Streams -> Seq(Nat)]
        <3>1. Append(wire[s], chan[s][1]) \in Seq(Nat)
            BY <2>1
        <3>2. wire' \in {wire, [wire EXCEPT ![s] = Append(wire[s], chan[s][1])]}
            BY <1>11 DEF ForwardUpdate
        <3> QED
            BY <3>1, <3>2
    <2>3. handler' \in [Streams -> HandlerPcs]
        BY <1>11 DEF ForwardUpdate
    <2>4. chan' \in [Streams -> Seq(Nat)] /\ \A v \in Streams : Len(chan'[v]) <= 1
        BY <1>11 DEF ForwardUpdate
    <2> QED
        BY <1>11, <2>2, <2>3, <2>4 DEF ForwardUpdate
<1>12. ASSUME NEW s \in Streams, Unsubscribe(s) PROVE TypeOK'
    <2>1. chan' \in [Streams -> Seq(Nat)] /\ \A v \in Streams : Len(chan'[v]) <= 1
        BY <1>12 DEF Unsubscribe
    <2>2. closed' \subseteq Streams
        BY <1>12 DEF Unsubscribe
    <2>3. DOMAIN subscribers' \subseteq Workers /\ subscribers' \in [DOMAIN subscribers' -> Streams]
        BY <1>12 DEF Unsubscribe
    <2>4. handler' \in [Streams -> HandlerPcs]
        BY <1>12 DEF Unsubscribe
    <2> QED
        BY <1>12, <2>1, <2>2, <2>3, <2>4 DEF Unsubscribe
<1>13. ASSUME NEW s \in Streams, ListenerGoesOn(s) PROVE TypeOK'
    <2>1. Head(wire[s]) \in Nat /\ Tail(wire[s]) \in Seq(Nat)
        BY <1>13 DEF ListenerGoesOn
    <2>2. wire' \in [Streams -> Seq(Nat)] /\ seen' \in [Streams -> Nat]
        BY <1>13, <2>1 DEF ListenerGoesOn
    <2> QED
        BY <1>13, <2>2 DEF ListenerGoesOn
<1>14. ASSUME NEW s \in Streams, ListenerBreaks(s) PROVE TypeOK'
    <2>1. wire' \in [Streams -> Seq(Nat)] /\ seen' \in [Streams -> Nat]
        BY <1>14 DEF ListenerBreaks
    <2>2. listener' \in [Streams -> {"none", "listening", "ended"}]
        BY <1>14 DEF ListenerBreaks
    <2>3. ctxDone' \subseteq Streams
        BY <1>14 DEF ListenerBreaks
    <2> QED
        BY <1>14, <2>1, <2>2, <2>3 DEF ListenerBreaks
<1>15. ASSUME NEW s \in Streams, StreamEnds(s) PROVE TypeOK'
    BY <1>15 DEF StreamEnds
<1>16. CASE NextFile
    <2>1. files' \in 0..MaxFiles
        BY <1>16, StreamAssumption DEF NextFile
    <2> QED
        BY <1>16, <2>1 DEF NextFile
<1>17. CASE ReadFileTimeout
    BY <1>17, TimeoutType DEF ReadFileTimeout
<1>18. CASE BroadcastFile
    <2>1. <<fileTimeout>> \in Seq(Nat) /\ Len(<<fileTimeout>>) = 1
        OBVIOUS
    <2>2. chan' \in [Streams -> Seq(Nat)] /\ \A s \in Streams : Len(chan'[s]) <= 1
        BY <1>18, <2>1 DEF BroadcastFile
    <2>3. reached' \subseteq Streams
        BY <1>18 DEF BroadcastFile, Subscribed
    <2> QED
        BY <1>18, <2>2, <2>3 DEF BroadcastFile
<1>19. CASE UNCHANGED vars
    BY <1>19 DEF vars
<1> QED
    BY <1>1, <1>2, <1>3, <1>4, <1>5, <1>6, <1>7, <1>8, <1>9, <1>10, <1>11, <1>12, <1>13,
       <1>14, <1>15, <1>16, <1>17, <1>18, <1>19, NextCases, Zenon

-----------------------------------------------------------------------------
LEMMA NextOpen == IInv /\ [Next]_vars => OpenChannels'
<1> SUFFICES ASSUME IInv, [Next]_vars
             PROVE  OpenChannels'
    OBVIOUS
<1>a. /\ DOMAIN subscribers \subseteq Workers
      /\ \A w \in DOMAIN subscribers : subscribers[w] \in Streams
      /\ handler \in [Streams -> HandlerPcs]
    BY DEF IInv, TypeOK
<1>b. OpenChannels
    BY DEF IInv
<1>1. CASE UNCHANGED <<subscribers, closed, handler>>
    BY <1>1, <1>b DEF OpenChannels
<1>2. ASSUME NEW w \in Workers, StartTask(w) PROVE OpenChannels'
    <2>1. cur[w] \in Nat /\ MaxTasks[w] \in Nat
        BY StreamAssumption DEF IInv, TypeOK
    <2>2. handler[<<w, cur[w] + 1>>] = "none"
        BY <1>2, <2>1 DEF IInv, StreamFlow, StartTask
    <2>3. \A v \in DOMAIN subscribers : handler'[subscribers[v]] = handler[subscribers[v]]
        BY <1>2, <1>a, <1>b, <2>2 DEF StartTask, OpenChannels
    <2> QED
        BY <1>2, <1>b, <2>3 DEF OpenChannels, StartTask, bcastVars
<1>3. ASSUME NEW s \in Streams, Subscribe(s) PROVE OpenChannels'
    <2>1. s \notin closed
        BY <1>3 DEF IInv, StreamFlow, Subscribe
    <2>2. \A w \in DOMAIN subscribers : subscribers[w] # s
        BY <1>3, <1>b DEF Subscribe, OpenChannels
    <2> QED
        BY <1>3, <1>a, <1>b, <2>1, <2>2 DEF OpenChannels, Subscribe
<1>4. ASSUME NEW s \in Streams,
             CallDropped(s) \/ SendCurrent(s) \/ ForwardUpdate(s) \/ LeaveLoop(s)
      PROVE  OpenChannels'
    <2>1. UNCHANGED <<subscribers, closed>>
        BY <1>4 DEF CallDropped, SendCurrent, ForwardUpdate, LeaveLoop, bcastVars
    <2>2. \A v \in Streams \ {s} : handler'[v] = handler[v]
        BY <1>4, <1>a DEF CallDropped, SendCurrent, ForwardUpdate, LeaveLoop
    <2>3. handler[s] \in {"subscribed", "loop", "return"}
             => handler'[s] \in {"subscribed", "loop", "return"}
        BY <1>4, <1>a DEF CallDropped, SendCurrent, ForwardUpdate, LeaveLoop
    <2> QED
        BY <1>a, <1>b, <2>1, <2>2, <2>3 DEF OpenChannels
<1>5. ASSUME NEW s \in Streams, Unsubscribe(s) PROVE OpenChannels'
    <2>1. \A w \in DOMAIN subscribers' :
             w \in DOMAIN subscribers /\ w # s[1] /\ subscribers'[w] = subscribers[w]
        BY <1>5 DEF Unsubscribe
    <2>2. \A v \in Streams \ {s} : handler'[v] = handler[v]
        BY <1>5, <1>a DEF Unsubscribe
    <2>3. closed' \subseteq closed \cup {subscribers[s[1]]}
        BY <1>5 DEF Unsubscribe
    <2>4. closed' # closed => s[1] \in DOMAIN subscribers
        BY <1>5 DEF Unsubscribe
    <2> QED
        BY <1>a, <1>b, <2>1, <2>2, <2>3, <2>4 DEF OpenChannels
<1>6. ASSUME NEW w \in Workers, SubmitCount(w) \/ SubmitOther(w) \/ Reconnect(w)
      PROVE  UNCHANGED <<subscribers, closed, handler>>
    BY <1>6 DEF SubmitCount, SubmitOther, Reconnect, bcastVars, streamVars
<1>7. ASSUME NEW w \in Workers, ReadOldTimeout(w) \/ ReadNewTimeout(w) \/ Broadcast(w)
      PROVE  UNCHANGED <<subscribers, closed, handler>>
    BY <1>7 DEF ReadOldTimeout, ReadNewTimeout, Broadcast, bcastVars, streamVars
<1>8. ASSUME NEW w \in Workers, NEW d \in Durations[w], RecordCompletion(w, d)
      PROVE  UNCHANGED <<subscribers, closed, handler>>
    BY <1>8 DEF RecordCompletion, bcastVars, streamVars
<1>9. ASSUME NEW s \in Streams, ListenerGoesOn(s) \/ ListenerBreaks(s) \/ StreamEnds(s)
      PROVE  UNCHANGED <<subscribers, closed, handler>>
    BY <1>9 DEF ListenerGoesOn, ListenerBreaks, StreamEnds, bcastVars
<1>10. ASSUME NextFile \/ ReadFileTimeout \/ BroadcastFile
       PROVE  UNCHANGED <<subscribers, closed, handler>>
    BY <1>10 DEF NextFile, ReadFileTimeout, BroadcastFile, bcastVars, streamVars
<1>11. CASE UNCHANGED vars
    BY <1>1, <1>11 DEF vars, bcastVars, streamVars
<1> QED
    BY <1>1, <1>2, <1>3, <1>4, <1>5, <1>6, <1>7, <1>8, <1>9, <1>10, <1>11, NextCases, Zenon

-----------------------------------------------------------------------------
LEMMA NextFlow == IInv /\ [Next]_vars => StreamFlow'
<1> SUFFICES ASSUME IInv, [Next]_vars
             PROVE  StreamFlow'
    OBVIOUS
<1>a. /\ handler \in [Streams -> HandlerPcs]
      /\ listener \in [Streams -> {"none", "listening", "ended"}]
      /\ cur \in [Workers -> Nat] /\ ctxDone \subseteq Streams
      /\ \A w \in DOMAIN subscribers : subscribers[w] \in Streams
    BY DEF IInv, TypeOK
<1>b. OpenChannels /\ StreamFlow
    BY DEF IInv
<1>1. CASE UNCHANGED <<cur, handler, listener, closed, reached, ctxDone>>
    BY <1>1, <1>b DEF StreamFlow
<1>2. ASSUME NEW w \in Workers, StartTask(w) PROVE StreamFlow'
    <2>1. cur[w] \in Nat /\ MaxTasks[w] \in Nat /\ cur[w] + 1 \in 1..MaxTasks[w]
        BY <1>2, StreamAssumption, <1>a DEF StartTask
    <2> DEFINE new == <<w, cur[w] + 1>>
    <2>2. new \in Streams /\ handler[new] = "none" /\ listener[new] = "none"
        BY <2>1, <1>b, StreamsType DEF StreamFlow
    <2>3. \A s \in Streams \ {new} : handler'[s] = handler[s] /\ listener'[s] = listener[s]
        BY <1>2, <1>a, <2>2 DEF StartTask
    <2>4. new \notin closed' \cup reached' /\ new \notin ctxDone'
        BY <1>2, <1>b, <2>2 DEF StartTask, StreamFlow, bcastVars, histVars
    <2>5. ASSUME NEW v \in Workers, NEW n \in 1..MaxTasks[v], n > cur'[v]
          PROVE  handler'[<<v, n>>] = "none" /\ listener'[<<v, n>>] = "none"
        <3>1. cur'[v] = IF v = w THEN cur[w] + 1 ELSE cur[v]
            BY <1>2, <1>a DEF StartTask
        <3>2. n > cur[v] /\ <<v, n>> # new
            BY <2>1, <2>5, <3>1, <1>a, StreamAssumption
        <3> QED
            BY <2>3, <3>2, <1>b, StreamsType DEF StreamFlow
    <2>6. \A s \in Streams : s \in closed' \cup reached' => handler'[s] \notin {"none", "called"}
        BY <1>2, <1>b, <2>3, <2>4 DEF StartTask, StreamFlow, bcastVars, histVars
    <2>7. \A s \in Streams : s \in ctxDone' => listener'[s] = "ended"
        BY <1>2, <1>b, <2>3, <2>4 DEF StartTask, StreamFlow
    <2> QED
        BY <2>5, <2>6, <2>7 DEF StreamFlow
<1>3. ASSUME NEW w \in Workers, Reconnect(w) PROVE StreamFlow'
    <2>1. \A s \in Streams : listener'[s] \in {listener[s], "ended"}
                             /\ (listener[s] = "none" => listener'[s] = "none")
        BY <1>3, <1>a DEF Reconnect
    <2>2. \A s \in Streams : s \in ctxDone' => listener'[s] = "ended"
        BY <1>3, <1>a, <1>b DEF Reconnect, StreamFlow
    <2> QED
        BY <1>3, <1>b, <2>1, <2>2, StreamsType
        DEF StreamFlow, Reconnect, bcastVars, submitVars
<1>4. ASSUME NEW w \in Workers, Broadcast(w) PROVE StreamFlow'
    <2>1. \A s \in Subscribed : handler[s] \notin {"none", "called"}
        BY <1>b DEF OpenChannels, Subscribed
    <2> QED
        BY <1>4, <1>b, <2>1 DEF StreamFlow, Broadcast, streamVars
<1>5. ASSUME NEW s \in Streams,
             \/ Subscribe(s) \/ CallDropped(s) \/ SendCurrent(s)
             \/ ForwardUpdate(s) \/ LeaveLoop(s) \/ Unsubscribe(s)
      PROVE  StreamFlow'
    <2>1. UNCHANGED <<cur, listener, reached, ctxDone>>
        BY <1>5 DEF Subscribe, CallDropped, SendCurrent, ForwardUpdate, LeaveLoop, Unsubscribe,
                    submitVars, histVars
    <2>2. \A v \in Streams \ {s} : handler'[v] = handler[v]
        BY <1>5, <1>a DEF Subscribe, CallDropped, SendCurrent, ForwardUpdate, LeaveLoop,
                          Unsubscribe
    <2>3. handler[s] # "none" /\ handler'[s] \notin {"none", "called"}
        BY <1>5, <1>a DEF Subscribe, CallDropped, SendCurrent, ForwardUpdate, LeaveLoop,
                          Unsubscribe
    <2>4. \A v \in closed' : handler[v] \notin {"none", "called"} \/ v \notin Streams
        <3>1. CASE Unsubscribe(s)
            BY <3>1, <1>b DEF Unsubscribe, StreamFlow, OpenChannels
        <3>2. CASE ~Unsubscribe(s)
            <4>1. closed' = closed
                BY <1>5, <3>2 DEF Subscribe, CallDropped, SendCurrent, ForwardUpdate, LeaveLoop,
                                  bcastVars
            <4> QED
                BY <4>1, <1>b DEF StreamFlow
        <3> QED
            BY <3>1, <3>2
    <2>5. \A v \in Streams : handler[v] = "none" => handler'[v] = "none"
        BY <2>2, <2>3
    <2>6. \A v \in Streams : handler[v] \notin {"none", "called"}
                             => handler'[v] \notin {"none", "called"}
        BY <2>2, <2>3
    <2> QED
        BY <1>b, <2>1, <2>4, <2>5, <2>6, StreamsType DEF StreamFlow
<1>6. ASSUME NEW s \in Streams, ListenerGoesOn(s) \/ ListenerBreaks(s) \/ StreamEnds(s)
      PROVE  StreamFlow'
    <2>1. UNCHANGED <<cur, handler, reached, closed>>
        BY <1>6 DEF ListenerGoesOn, ListenerBreaks, StreamEnds, bcastVars, submitVars
    <2>2. \A v \in Streams : listener'[v] \in {listener[v], "ended"}
                             /\ (listener[v] = "none" => listener'[v] = "none")
        BY <1>6, <1>a DEF ListenerGoesOn, ListenerBreaks, StreamEnds
    <2>3. \A v \in Streams : v \in ctxDone' => listener'[v] = "ended"
        BY <1>6, <1>a, <1>b DEF ListenerGoesOn, ListenerBreaks, StreamEnds, StreamFlow
    <2> QED
        BY <1>b, <2>1, <2>2, <2>3, StreamsType DEF StreamFlow
<1>7. ASSUME NEW w \in Workers,
             SubmitCount(w) \/ SubmitOther(w) \/ ReadOldTimeout(w) \/ ReadNewTimeout(w)
      PROVE  UNCHANGED <<cur, handler, listener, closed, reached, ctxDone>>
    BY <1>7 DEF SubmitCount, SubmitOther, ReadOldTimeout, ReadNewTimeout, bcastVars, streamVars,
                histVars
<1>8. ASSUME NEW w \in Workers, NEW d \in Durations[w], RecordCompletion(w, d)
      PROVE  UNCHANGED <<cur, handler, listener, closed, reached, ctxDone>>
    BY <1>8 DEF RecordCompletion, bcastVars, streamVars, histVars
<1>9. ASSUME NextFile \/ ReadFileTimeout
      PROVE  UNCHANGED <<cur, handler, listener, closed, reached, ctxDone>>
    BY <1>9 DEF NextFile, ReadFileTimeout, bcastVars, streamVars, submitVars, histVars
<1>10. CASE BroadcastFile
    <2>1. \A s \in Subscribed : handler[s] \notin {"none", "called"}
        BY <1>b DEF OpenChannels, Subscribed
    <2> QED
        BY <1>10, <1>b, <2>1 DEF StreamFlow, BroadcastFile, streamVars, submitVars
<1>11. CASE UNCHANGED vars
    BY <1>1, <1>11 DEF vars, bcastVars, streamVars, submitVars, histVars
<1> QED
    BY <1>1, <1>2, <1>3, <1>4, <1>5, <1>6, <1>7, <1>8, <1>9, <1>10, <1>11, NextCases, Zenon

LEMMA NextSlot == IInv /\ [Next]_vars => SlotKeeps'
<1> SUFFICES ASSUME IInv, [Next]_vars
             PROVE  SlotKeeps'
    OBVIOUS
<1>a. handler \in [Streams -> HandlerPcs] /\ chan \in [Streams -> Seq(Nat)]
    BY DEF IInv, TypeOK
<1>b. StreamFlow /\ SlotKeeps
    BY DEF IInv
<1>1. CASE UNCHANGED <<handler, reached, chan>>
    BY <1>1, <1>b DEF SlotKeeps
<1>2. ASSUME NEW w \in Workers, StartTask(w) PROVE SlotKeeps'
    <2>1. \A s \in Streams : handler'[s] \in {handler[s], "called"}
        BY <1>2, <1>a DEF StartTask
    <2> QED
        BY <1>2, <1>b, <2>1 DEF SlotKeeps, StartTask, bcastVars, histVars
<1>3. ASSUME NEW w \in Workers, Broadcast(w) PROVE SlotKeeps'
    BY <1>3 DEF SlotKeeps, Broadcast
<1>4. ASSUME NEW s \in Streams, Subscribe(s) PROVE SlotKeeps'
    <2>1. s \notin reached
        BY <1>4, <1>b DEF Subscribe, StreamFlow
    <2> QED
        BY <1>4, <1>a, <1>b, <2>1 DEF SlotKeeps, Subscribe, histVars
<1>5. ASSUME NEW s \in Streams,
             \/ CallDropped(s) \/ SendCurrent(s) \/ ForwardUpdate(s) \/ LeaveLoop(s)
             \/ Unsubscribe(s)
      PROVE  SlotKeeps'
    <2>1. \A v \in Streams \ {s} : handler'[v] = handler[v] /\ chan'[v] = chan[v]
        BY <1>5, <1>a DEF CallDropped, SendCurrent, ForwardUpdate, LeaveLoop, Unsubscribe,
                          bcastVars
    <2>2. handler'[s] # "subscribed"
        BY <1>5, <1>a DEF CallDropped, SendCurrent, ForwardUpdate, LeaveLoop, Unsubscribe
    <2>3. reached' = reached
        BY <1>5 DEF CallDropped, SendCurrent, ForwardUpdate, LeaveLoop, Unsubscribe, histVars
    <2> QED
        BY <1>b, <2>1, <2>2, <2>3 DEF SlotKeeps
<1>6. ASSUME NEW w \in Workers,
             \/ SubmitCount(w) \/ SubmitOther(w) \/ Reconnect(w)
             \/ ReadOldTimeout(w) \/ ReadNewTimeout(w)
      PROVE  UNCHANGED <<handler, reached, chan>>
    BY <1>6 DEF SubmitCount, SubmitOther, Reconnect, ReadOldTimeout, ReadNewTimeout, bcastVars,
                streamVars, histVars
<1>7. ASSUME NEW w \in Workers, NEW d \in Durations[w], RecordCompletion(w, d)
      PROVE  UNCHANGED <<handler, reached, chan>>
    BY <1>7 DEF RecordCompletion, bcastVars, streamVars, histVars
<1>8. ASSUME NEW s \in Streams, ListenerGoesOn(s) \/ ListenerBreaks(s) \/ StreamEnds(s)
      PROVE  UNCHANGED <<handler, reached, chan>>
    BY <1>8 DEF ListenerGoesOn, ListenerBreaks, StreamEnds, bcastVars
<1>9. ASSUME NextFile \/ ReadFileTimeout
      PROVE  UNCHANGED <<handler, reached, chan>>
    BY <1>9 DEF NextFile, ReadFileTimeout, bcastVars, streamVars, histVars
<1>10. CASE BroadcastFile
    BY <1>10 DEF SlotKeeps, BroadcastFile
<1>11. CASE UNCHANGED vars
    BY <1>1, <1>11 DEF vars, bcastVars, streamVars, histVars
<1> QED
    BY <1>1, <1>2, <1>3, <1>4, <1>5, <1>6, <1>7, <1>8, <1>9, <1>10, <1>11, NextCases, Zenon

LEMMA NextLast == IInv /\ [Next]_vars => LastBroadcastArrives'
<1> SUFFICES ASSUME IInv, [Next]_vars,
                    NEW r \in Subscribed', r \in reached', listener'[r] = "listening"
             PROVE  Newest(r)' = lastBroadcast'
    BY DEF LastBroadcastArrives
<1>a. /\ handler \in [Streams -> HandlerPcs] /\ ctxDone \subseteq Streams
      /\ listener \in [Streams -> {"none", "listening", "ended"}]
      /\ chan \in [Streams -> Seq(Nat)] /\ \A s \in Streams : Len(chan[s]) <= 1
      /\ wire \in [Streams -> Seq(Nat)] /\ seen \in [Streams -> Nat]
      /\ Subscribed \subseteq Streams
    BY DEF IInv, TypeOK, Subscribed
<1>b. StreamFlow /\ SlotKeeps /\ OpenChannels
    BY DEF IInv
<1>c. \A s \in Subscribed : s \in reached /\ listener[s] = "listening"
                            => Newest(s) = lastBroadcast
    BY DEF IInv, LastBroadcastArrives
<1>d. Subscribed' \subseteq Streams
    BY NextType DEF TypeOK, Subscribed
\* A step that touches nothing of r.
<1>1. CASE /\ r \in Subscribed /\ r \in reached /\ listener[r] = "listening"
           /\ chan'[r] = chan[r] /\ wire'[r] = wire[r] /\ seen'[r] = seen[r]
           /\ lastBroadcast' = lastBroadcast
    BY <1>1, <1>c DEF Newest
<1>2. ASSUME NEW w \in Workers, StartTask(w) PROVE Newest(r)' = lastBroadcast'
    <2>1. r \in Subscribed /\ r \in reached
        BY <1>2 DEF StartTask, Subscribed, bcastVars, histVars
    <2>0. cur[w] \in Nat /\ MaxTasks[w] \in Nat
        BY StreamAssumption DEF IInv, TypeOK
    <2>2. cur[w] + 1 \in 1..MaxTasks[w]
        BY <1>2, <2>0 DEF StartTask
    <2>3. handler[<<w, cur[w] + 1>>] = "none"
        BY <2>0, <2>2, <1>b DEF StreamFlow
    <2>4. r # <<w, cur[w] + 1>>
        BY <2>1, <2>3, <1>a, <1>b DEF StreamFlow
    <2>5. listener[r] = "listening"
        BY <1>2, <1>a, <1>d, <2>4 DEF StartTask
    <2> QED
        BY <1>1, <1>2, <2>1, <2>5 DEF StartTask, bcastVars, histVars
<1>3. ASSUME NEW w \in Workers, Reconnect(w) PROVE Newest(r)' = lastBroadcast'
    <2>1. r \in Subscribed /\ r \in reached /\ lastBroadcast' = lastBroadcast /\ chan' = chan
        BY <1>3 DEF Reconnect, Subscribed, bcastVars
    <2>2. listener[r] = "listening" /\ wire'[r] = wire[r] /\ seen'[r] = seen[r]
        BY <1>3, <1>d DEF Reconnect
    <2> QED
        BY <1>1, <2>1, <2>2
<1>4. ASSUME NEW w \in Workers, Broadcast(w) PROVE Newest(r)' = lastBroadcast'
    <2>1. chan'[r] = <<newTimeout[w]>>
        BY <1>4, <1>d DEF Broadcast
    <2> QED
        BY <1>4, <2>1 DEF Newest, Broadcast
<1>5. ASSUME NEW s \in Streams, Subscribe(s) PROVE Newest(r)' = lastBroadcast'
    <2>1. r # s
        BY <1>5, <1>b DEF Subscribe, StreamFlow, histVars
    <2>2. r \in Subscribed
        BY <1>5, <2>1 DEF Subscribe, Subscribed
    <2> QED
        BY <1>1, <1>5, <2>2 DEF Subscribe, histVars
<1>6. ASSUME NEW s \in Streams, CallDropped(s) \/ LeaveLoop(s)
      PROVE  Newest(r)' = lastBroadcast'
    BY <1>1, <1>6 DEF CallDropped, LeaveLoop, Subscribed, bcastVars, histVars
<1>7. ASSUME NEW s \in Streams, SendCurrent(s) PROVE Newest(r)' = lastBroadcast'
    <2>1. /\ r \in Subscribed /\ r \in reached /\ listener[r] = "listening"
          /\ lastBroadcast' = lastBroadcast /\ chan' = chan /\ seen' = seen
        BY <1>7 DEF SendCurrent, Subscribed, bcastVars, histVars
    <2>2. CASE r = s
        <3>1. chan[r] # <<>>
            BY <1>7, <1>b, <2>1, <2>2 DEF SlotKeeps, SendCurrent
        <3> QED
            BY <1>c, <2>1, <3>1 DEF Newest
    <2>3. CASE r # s
        <3>1. wire'[r] = wire[r]
            BY <1>7, <1>a, <2>1, <2>3 DEF SendCurrent
        <3> QED
            BY <1>1, <2>1, <3>1
    <2> QED
        BY <2>2, <2>3
<1>8. ASSUME NEW s \in Streams, ForwardUpdate(s) PROVE Newest(r)' = lastBroadcast'
    <2>1. /\ r \in Subscribed /\ r \in reached /\ listener[r] = "listening"
          /\ lastBroadcast' = lastBroadcast /\ seen' = seen
        BY <1>8 DEF ForwardUpdate, Subscribed, histVars
    <2>2. CASE r = s
        <3>1. r \notin ctxDone
            BY <1>a, <1>b, <2>1 DEF StreamFlow
        <3>2. chan[r][1] \in Nat /\ chan[r] # <<>> /\ wire[r] \in Seq(Nat)
            BY <1>8, <1>a, <2>2 DEF ForwardUpdate
        <3>3. chan'[r] = <<>> /\ wire'[r] = Append(wire[r], chan[r][1])
            BY <1>8, <1>a, <2>2, <3>1 DEF ForwardUpdate
        <3>4. wire'[r] # <<>> /\ wire'[r][Len(wire'[r])] = chan[r][1]
            BY <3>2, <3>3
        <3> QED
            BY <1>c, <2>1, <3>2, <3>3, <3>4 DEF Newest
    <2>3. CASE r # s
        <3>1. wire'[r] = wire[r] /\ chan'[r] = chan[r]
            BY <1>8, <1>a, <2>1, <2>3 DEF ForwardUpdate
        <3> QED
            BY <1>1, <2>1, <3>1
    <2> QED
        BY <2>2, <2>3
<1>9. ASSUME NEW s \in Streams, Unsubscribe(s) PROVE Newest(r)' = lastBroadcast'
    <2>1. PICK v \in DOMAIN subscribers' : r = subscribers'[v]
        BY DEF Subscribed
    <2>2. v \in DOMAIN subscribers /\ v # s[1] /\ r = subscribers[v]
        BY <1>9, <2>1 DEF Unsubscribe
    <2>3. r \in Subscribed /\ r # s
        BY <2>2, <1>b DEF Subscribed, OpenChannels
    <2>4. chan'[r] = chan[r]
        BY <1>9, <1>a, <2>3 DEF Unsubscribe
    <2> QED
        BY <1>1, <1>9, <2>3, <2>4 DEF Unsubscribe, histVars
<1>10. ASSUME NEW s \in Streams, ListenerGoesOn(s) PROVE Newest(r)' = lastBroadcast'
    <2>1. /\ r \in Subscribed /\ r \in reached /\ listener[r] = "listening"
          /\ lastBroadcast' = lastBroadcast /\ chan' = chan
        BY <1>10 DEF ListenerGoesOn, Subscribed, bcastVars
    <2>2. CASE r # s
        <3>1. wire'[r] = wire[r] /\ seen'[r] = seen[r]
            BY <1>10, <1>a, <2>1, <2>2 DEF ListenerGoesOn
        <3> QED
            BY <1>1, <2>1, <3>1
    <2>3. CASE r = s /\ chan[r] # <<>>
        BY <1>c, <2>1, <2>3 DEF Newest
    <2>4. CASE r = s /\ chan[r] = <<>>
        <3>1. wire[r] \in Seq(Nat) /\ wire[r] # <<>>
            BY <1>10, <1>a, <2>4 DEF ListenerGoesOn
        <3>2. wire'[r] = Tail(wire[r]) /\ seen'[r] = Head(wire[r])
            BY <1>10, <1>a, <2>4 DEF ListenerGoesOn
        <3>3. wire[r][Len(wire[r])] = lastBroadcast
            BY <1>c, <2>1, <2>4, <3>1 DEF Newest
        <3>4. CASE Len(wire[r]) = 1
            <4>1. wire'[r] = <<>> /\ seen'[r] = lastBroadcast
                BY <3>1, <3>2, <3>3, <3>4, TailLast
            <4> QED
                BY <2>1, <2>4, <4>1 DEF Newest
        <3>5. CASE Len(wire[r]) # 1
            <4>1. wire'[r] # <<>> /\ wire'[r][Len(wire'[r])] = wire[r][Len(wire[r])]
                BY <3>1, <3>2, <3>5, TailLast
            <4> QED
                BY <2>1, <2>4, <3>3, <4>1 DEF Newest
        <3> QED
            BY <3>4, <3>5
    <2> QED
        BY <2>2, <2>3, <2>4
<1>11. ASSUME NEW s \in Streams, ListenerBreaks(s) \/ StreamEnds(s)
       PROVE  Newest(r)' = lastBroadcast'
    <2>1. r \in Subscribed /\ r \in reached /\ lastBroadcast' = lastBroadcast /\ chan' = chan
        BY <1>11 DEF ListenerBreaks, StreamEnds, Subscribed, bcastVars
    <2>2. r # s
        BY <1>11, <1>a DEF ListenerBreaks, StreamEnds
    <2>3. listener[r] = "listening" /\ wire'[r] = wire[r] /\ seen'[r] = seen[r]
        BY <1>11, <1>a, <2>1, <2>2 DEF ListenerBreaks, StreamEnds
    <2> QED
        BY <1>1, <2>1, <2>3
<1>12. ASSUME NEW w \in Workers,
              SubmitCount(w) \/ SubmitOther(w) \/ ReadOldTimeout(w) \/ ReadNewTimeout(w)
       PROVE  Newest(r)' = lastBroadcast'
    BY <1>1, <1>12 DEF SubmitCount, SubmitOther, ReadOldTimeout, ReadNewTimeout, Subscribed,
                       bcastVars, streamVars, histVars
<1>13. ASSUME NEW w \in Workers, NEW d \in Durations[w], RecordCompletion(w, d)
       PROVE  Newest(r)' = lastBroadcast'
    BY <1>1, <1>13 DEF RecordCompletion, Subscribed, bcastVars, streamVars, histVars
<1>14. ASSUME NextFile \/ ReadFileTimeout
       PROVE  Newest(r)' = lastBroadcast'
    BY <1>1, <1>14 DEF NextFile, ReadFileTimeout, Subscribed, bcastVars, streamVars, histVars
<1>15. CASE BroadcastFile
    <2>1. chan'[r] = <<fileTimeout>>
        BY <1>15, <1>d DEF BroadcastFile
    <2> QED
        BY <1>15, <2>1 DEF Newest, BroadcastFile
<1>16. CASE UNCHANGED vars
    BY <1>1, <1>16 DEF vars, Subscribed, bcastVars, streamVars, histVars
<1> QED
    BY <1>2, <1>3, <1>4, <1>5, <1>6, <1>7, <1>8, <1>9, <1>10, <1>11, <1>12, <1>13, <1>14,
       <1>15, <1>16, NextCases, Zenon

LEMMA IInvHolds == Spec => []IInv
<1>1. Init => IInv
    BY InitIInv
<1>2. IInv /\ [Next]_vars => IInv'
    BY NextType, NextOpen, NextFlow, NextSlot, NextLast DEF IInv
<1> QED
    BY <1>1, <1>2, PTL DEF Spec

-----------------------------------------------------------------------------
(***************************************************************************)
(* The state of the tracker, of the broadcaster and of the streams keeps   *)
(* its type; in particular the channel of a stream, which has one slot,    *)
(* never holds two values, and the timeout that CurrentTimeoutSec computes *)
(* is a natural number.                                                    *)
(***************************************************************************)
THEOREM TypeCorrect == Spec => []TypeOK
<1>1. IInv => TypeOK
    BY DEF IInv
<1> QED
    BY <1>1, IInvHolds, PTL

(***************************************************************************)
(* Whatever order streams are opened, cancelled and unsubscribed in, the   *)
(* broadcaster's map holds only open channels of the right worker, so that *)
(* neither Broadcast nor Unsubscribe panics.                               *)
(***************************************************************************)
THEOREM ChannelsAreOpen == Spec => []OpenChannels
<1>1. IInv => OpenChannels
    BY DEF IInv
<1> QED
    BY <1>1, IInvHolds, PTL

(***************************************************************************)
(* On every registered stream that a Broadcast has reached, the last value *)
(* broadcast is the last that its listener reads: the one-slot channel     *)
(* and its flush lose only values that were replaced.                      *)
(***************************************************************************)
THEOREM BroadcastsArrive == Spec => []LastBroadcastArrives
<1>1. IInv => LastBroadcastArrives
    BY DEF IInv
<1> QED
    BY <1>1, IInvHolds, PTL
=============================================================================
