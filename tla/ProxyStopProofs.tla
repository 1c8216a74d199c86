--------------------------- MODULE ProxyStopProofs ---------------------------
(***************************************************************************)
(* The event loop uses its pool as Threadpool says it may be used, so what  *)
(* is proved of the pool holds for the whole life of the proxy; with it,    *)
(* stopping an idle proxy is proved safe for any number of workers.         *)
(***************************************************************************)
EXTENDS ProxyStop, ThreadpoolProofs

LEMMA StopStepIsPoolStep == [ProxyStopNext]_stopVars => [PoolNext]_vars
<1> SUFFICES ASSUME [ProxyStopNext]_stopVars PROVE [PoolNext]_vars
  OBVIOUS
<1>1. CASE PoolStarts
  BY <1>1 DEF PoolStarts, PoolNext
<1>2. CASE SetLooping \/ TestLooping \/ WaitReturns \/ Handled \/ Unloop \/ DestroyTables
           \/ \E c \in Consumers : UseDestroyed(c)
  BY <1>2 DEF SetLooping, TestLooping, WaitReturns, Handled, Unloop, DestroyTables, UseDestroyed,
     vars, queueVars, poolVars
<1>3. CASE Handle
  BY <1>3 DEF Handle, HandleStep, PoolNext
<1>4. CASE DestroyPool
  BY <1>4 DEF DestroyPool, PoolNext
<1>5. ASSUME NEW c \in Consumers, Work(c) PROVE PoolNext
  BY <1>5 DEF Work, PoolNext
<1>6. ASSUME NEW t \in Threads, Spurious(t) PROVE PoolNext
  BY <1>6 DEF PoolNext
<1>7. CASE UNCHANGED stopVars
  BY <1>7 DEF stopVars, vars
<1> QED BY <1>1, <1>2, <1>3, <1>4, <1>5, <1>6, <1>7 DEF ProxyStopNext, MainStep

\* EventLoop::loop(), unloop() and the destructors never leave the behaviours
\* the pool is proved about.
THEOREM ProxyStopImplementsPool == ProxyStopSpec => PoolSpec
<1>1. StopInit => PoolInit
  BY DEF StopInit
<1> QED BY <1>1, StopStepIsPoolStep, PTL DEF ProxyStopSpec, PoolSpec

--------------------------------------------------------------------------------
(* What is unfinished when the loop has ended *)

Unfinished == Len(que) + Cardinality(Busy)

LEMMA UnfinishedType ==
    ASSUME QueueInv, QueueInv'
    PROVE  Unfinished \in Nat /\ Unfinished' \in Nat /\ Len(que) \in Nat /\ Len(que') \in Nat
<1>1. Len(que) \in Nat /\ Len(que') \in Nat
  BY DEF QueueInv, TypeOK
<1> QED BY <1>1, BusyFinite DEF Unfinished

\* With conservation, what is unfinished is what was pushed without what was
\* finished, and after the loop nobody pushes.
LEMMA UnfinishedShrinks ==
    ASSUME QueueInv, QueueInv', PoolInv, PoolInv', UNCHANGED pushed, finished' >= finished
    PROVE  Unfinished' <= Unfinished
<1>1. /\ finished + Cardinality(Busy) = Len(taken)
      /\ finished' + Cardinality(Busy') = Len(taken')
      /\ finished \in Nat /\ finished' \in Nat
  BY DEF PoolInv, PoolTypeOK
<1>2. /\ Len(pushed) = Len(taken) + Len(que)
      /\ Len(pushed') = Len(taken') + Len(que')
  <2>1. pushed' \in Seq(Tasks) /\ taken' \in Seq(Tasks) /\ que' \in Seq(Tasks)
        /\ pushed' = taken' \o que'
    BY DEF QueueInv, TypeOK, ContentInv
  <2>2. Len(pushed') = Len(taken') + Len(que')
    BY <2>1, ConcatProperties
  <2> QED BY <2>2, LengthsAddUp
<1> QED BY <1>1, <1>2, UnfinishedType, BusyFinite DEF Unfinished

\* A worker's step and a spurious wakeup push nothing.
LEMMA WorkersPushNothing ==
    ASSUME PoolInv, NEW c \in Consumers, WorkerStep(c)
    PROVE  UNCHANGED <<pushed, mainpc>> /\ finished' >= finished /\ finished \in Nat
BY DEF WorkerStep, WorkerCall, WorkerEnd, WorkerPop, WorkerDone, PopCall, PopLock, Lock, PopTest, PopSleep,
   PopTake, PopNull, queueVars, PoolInv, PoolTypeOK

LEMMA StopInvInit == StopInit => StopInv
<1> SUFFICES ASSUME StopInit PROVE StopInv
  OBVIOUS
<1> QED BY MainThread, ThreadSets DEF StopInit, PoolInit, Init, StopInv, LoopPcs

LEMMA MainStaysOut ==
    ASSUME QueueInv, PoolInv, pc[Main] = "out",
           \/ \E c \in Consumers : WorkerStep(c)
           \/ \E t \in Threads : Spurious(t)
           \/ DestroyPool
           \/ PoolStarts
    PROVE  pc'[Main] = "out"
<1> USE MainThread, ThreadSets
<1>t. TypeOK
  BY DEF QueueInv
<1>1. ASSUME NEW c \in Consumers, WorkerStep(c) PROVE pc'[Main] = "out"
  <2>1. CASE PopTake(c)
    <3>1. PICK W \in NotifyOne(PushSleepers) : pc' = [Woken(W, "pushLock") EXCEPT ![c] = "out"]
      BY <2>1 DEF PopTake
    <3>2. \A p \in W : pc[p] = "pushSleep"
      BY NotifiedOne DEF PushSleepers
    <3> QED BY <3>1, <3>2 DEF Woken
  <2>2. CASE ~PopTake(c)
    BY <1>1, <2>2, <1>t DEF WorkerStep, WorkerCall, WorkerEnd, WorkerPop, WorkerDone, PopCall, PopLock,
       Lock, PopTest, PopSleep, PopNull, queueVars, TypeOK
  <2> QED BY <2>1, <2>2
<1>2. ASSUME NEW t \in Threads, Spurious(t) PROVE pc'[Main] = "out"
  BY <1>2, <1>t DEF Spurious, SpuriousWakeup, Woken, PopSleepers, PushSleepers, TypeOK
<1>3. CASE DestroyPool
  BY <1>3, <1>t DEF DestroyPool, StopCall, StopStep, StopDrained, StopSetExit, StopWakeup, StopJoin,
     WakeupClear, WakeupNotify, Woken, PopSleepers, queueVars, TypeOK
<1>4. CASE PoolStarts
  BY <1>4 DEF PoolStarts, StartOne, StartDone, queueVars
<1> QED BY <1>1, <1>2, <1>3, <1>4

LEMMA StopInvStep ==
    ASSUME QueueInv, QueueInv', PoolInv, PoolInv', StopInv, ProxyStopNext
    PROVE  StopInv'
<1> USE DEF LoopPcs
<1>0. ~crashed
  BY DEF ProxyStopNext
<1>1. CASE PoolStarts
  <2>1. mainpc = "starting" /\ (mainpc' = "starting" <=> looppc' = "starting") /\ crashed' = crashed
    BY <1>1 DEF PoolStarts, StartOne, StartDone
  <2>2. pc'[Main] = "out"
    BY <1>1, MainStaysOut DEF PoolStarts, StopInv
  <2> QED BY <1>1, <2>1, <2>2 DEF PoolStarts, StopInv
<1>2. ASSUME UNCHANGED <<que, pc, wpc, mainpc>>,
             \/ UNCHANGED <<looppc, pending>>
             \/ looppc # "starting" /\ looppc' \in LoopPcs \ {"starting", "left", "destroyed"}
                   /\ (looppc' # "handling" => pc[Main] = "out") /\ pending' = pending
             \/ looppc # "starting" /\ looppc' = "left" /\ pending' = Unfinished /\ pc[Main] = "out"
             \/ looppc = "left" /\ looppc' = "destroyed" /\ pending' = pending,
             crashed' => looppc' = "destroyed" /\ Busy' # {}
      PROVE  StopInv'
  <2>1. Busy' = Busy /\ Unfinished' = Unfinished
    BY <1>2 DEF Busy, Unfinished
  <2> QED BY <1>2, <2>1, UnfinishedType DEF StopInv, Unfinished
<1>3. CASE SetLooping \/ TestLooping \/ WaitReturns \/ Handled \/ Unloop \/ DestroyTables
  <2>1. UNCHANGED <<que, pc, wpc, mainpc, crashed>>
    BY <1>3 DEF SetLooping, TestLooping, WaitReturns, Handled, Unloop, DestroyTables, queueVars, poolVars
  <2>2. CASE SetLooping \/ WaitReturns \/ Handled
    BY <1>0, <1>2, <2>1, <2>2 DEF SetLooping, WaitReturns, Handled, StopInv
  <2>3. CASE TestLooping
    BY <1>0, <1>2, <2>1, <2>3 DEF TestLooping, StopInv, Unfinished
  <2>4. CASE Unloop \/ DestroyTables
    BY <1>0, <1>2, <2>1, <2>4 DEF Unloop, DestroyTables, StopInv
  <2> QED BY <1>3, <2>2, <2>3, <2>4
<1>4. ASSUME NEW c \in Consumers, UseDestroyed(c) PROVE StopInv'
  <2>1. c \in Busy' /\ UNCHANGED <<que, pc, wpc, mainpc, looppc, pending>> /\ looppc = "destroyed"
    BY <1>4 DEF UseDestroyed, Busy, queueVars, poolVars
  <2> QED BY <1>2, <2>1
<1>5. CASE Handle
  <2>1. looppc = "handling" /\ UNCHANGED loopVars /\ mainpc' # "starting"
    BY <1>5 DEF Handle, HandleStep, AddRequest, AddRequestStep, poolVars, StopInv
  <2> QED BY <2>1 DEF StopInv, loopVars
<1>6. ASSUME UNCHANGED loopVars, UNCHANGED pushed, finished' >= finished,
             mainpc' = "starting" <=> mainpc = "starting",
             looppc # "handling" => pc'[Main] = "out"
      PROVE  StopInv'
  <2>1. Unfinished' <= Unfinished
    BY <1>6, UnfinishedShrinks
  <2>2. looppc' \in {"left", "destroyed"} => Unfinished' <= pending'
    <3>1. looppc' = looppc /\ pending' = pending /\ pending \in Nat
      BY <1>6 DEF StopInv, loopVars
    <3>2. looppc \in {"left", "destroyed"} => Unfinished <= pending
      BY DEF StopInv, Unfinished
    <3>3. Unfinished \in Nat /\ Unfinished' \in Nat
      BY UnfinishedType
    <3>4. CASE looppc \in {"left", "destroyed"}
      BY <2>1, <3>1, <3>2, <3>3, <3>4
    <3> QED BY <3>1, <3>4
  <2> QED BY <1>0, <1>6, <2>2 DEF StopInv, loopVars, Unfinished
<1>7. CASE DestroyPool
  <2>1. UNCHANGED <<pushed, finished>> /\ looppc = "destroyed" /\ pc[Main] = "out"
    BY <1>7 DEF DestroyPool, StopCall, StopStep, StopDrained, StopSetExit, StopWakeup, StopJoin, WakeupClear,
       WakeupNotify, queueVars, StopInv
  <2>2. mainpc # "starting" /\ mainpc' # "starting"
    BY <1>7 DEF DestroyPool, StopCall, StopStep, StopDrained, StopSetExit, StopWakeup, StopJoin
  <2>3. finished \in Nat
    BY DEF PoolInv, PoolTypeOK
  <2>4. pc'[Main] = "out"
    BY <1>7, <2>1, MainStaysOut
  <2> QED BY <1>6, <1>7, <2>1, <2>2, <2>3, <2>4 DEF DestroyPool
<1>8. ASSUME NEW c \in Consumers, Work(c) PROVE StopInv'
  <2>1. UNCHANGED <<pushed, mainpc>> /\ finished' >= finished
    BY <1>8, WorkersPushNothing DEF Work
  <2>2. looppc # "handling" => pc'[Main] = "out"
    BY <1>8, MainStaysOut DEF Work, StopInv
  <2> QED BY <1>6, <1>8, <2>1, <2>2 DEF Work
<1>9. ASSUME NEW t \in Threads, Spurious(t), UNCHANGED loopVars PROVE StopInv'
  <2>1. UNCHANGED <<pushed, mainpc, finished>> /\ finished \in Nat
    BY <1>9 DEF Spurious, SpuriousWakeup, poolVars, PoolInv, PoolTypeOK
  <2>2. looppc # "handling" => pc'[Main] = "out"
    BY <1>9, MainStaysOut DEF StopInv
  <2> QED BY <1>6, <1>9, <2>1, <2>2
<1> QED BY <1>1, <1>3, <1>4, <1>5, <1>7, <1>8, <1>9 DEF ProxyStopNext, MainStep

LEMMA StopInvSame == StopInv /\ UNCHANGED stopVars => StopInv'
BY DEF stopVars, StopInv, Busy

\* Where Main is in the loop and what it left behind, in every reachable state.
THEOREM StopInvariant == ProxyStopSpec => []StopInv
<1>1. ProxyStopSpec => []QueueInv
  BY ProxyStopImplementsPool, PoolImplementsQueue, QueueInvariant, PTL
<1>2. ProxyStopSpec => []PoolInv
  BY ProxyStopImplementsPool, PoolInvariant, PTL
<1>3. QueueInv /\ QueueInv' /\ PoolInv /\ PoolInv' /\ StopInv /\ [ProxyStopNext]_stopVars => StopInv'
  BY StopInvStep, StopInvSame
<1> QED BY <1>1, <1>2, <1>3, StopInvInit, PTL DEF ProxyStopSpec

\* EventLoop.hpp:55-56: the tables are destroyed before the workers are joined,
\* but no worker meets a destroyed table unless a request was unfinished when
\* the loop ended, for any number of workers and requests.
THEOREM IdleStopSafe == ProxyStopSpec => []IdleStopIsSafe
<1>1. ProxyStopSpec => []QueueInv
  BY ProxyStopImplementsPool, PoolImplementsQueue, QueueInvariant, PTL
<1>2. QueueInv /\ StopInv => IdleStopIsSafe
  <2> SUFFICES ASSUME QueueInv, StopInv, crashed PROVE pending > 0
    BY DEF IdleStopIsSafe
  <2>1. Len(que) + Cardinality(Busy) <= pending /\ Busy # {} /\ pending \in Nat
    BY DEF StopInv
  <2>2. Cardinality(Busy) # 0
    BY <2>1, BusyFinite, FS_EmptySet
  <2>3. Len(que) \in Nat
    BY LengthsAddUp
  <2> QED BY <2>1, <2>2, <2>3, BusyFinite
<1> QED BY <1>1, <1>2, StopInvariant, PTL
================================================================================
