--------------------------- MODULE ThreadpoolProofs ---------------------------
(***************************************************************************)
(* The pool uses its queue as TaskQueue says it may be used, so what is     *)
(* proved of the queue holds in the pool; with it, what stop() leaves       *)
(* behind is proved for any number of workers, started or not.              *)
(***************************************************************************)
EXTENDS Threadpool, TaskQueueProofs

\* Main is the only thread that is not a worker.
LEMMA MainThread ==
    Main \in Producers /\ Main \in Threads /\ Main \notin Consumers
    /\ \A p \in Producers : p = Main
BY MainAssumption, ThreadSets

\* Whatever the pool does is a step of the queue or leaves the queue alone.
LEMMA PoolStepIsQueueStep == [PoolNext]_vars => [Next]_queueVars
<1> SUFFICES ASSUME [PoolNext]_vars PROVE [Next]_queueVars
  OBVIOUS
<1>1. ASSUME NEW e \in Tasks, AddRequest(e)
      PROVE  Next
  BY <1>1, MainThread DEF AddRequest, Next
<1>2. CASE AddRequestStep
  BY <1>2, MainThread DEF AddRequestStep, Next
<1>3. CASE StopWakeup
  BY <1>3 DEF StopWakeup, Next
<1>4. ASSUME NEW c \in Consumers, WorkerCall(c) \/ WorkerPop(c)
      PROVE  Next
  BY <1>4 DEF WorkerCall, WorkerPop, PopStep, Next
<1>5. ASSUME NEW t \in Threads, Spurious(t)
      PROVE  Next
  BY <1>5 DEF Spurious, Next
<1>6. ASSUME NEW c \in Consumers, StartOne(c) \/ WorkerEnd(c) \/ WorkerDone(c)
      PROVE  UNCHANGED queueVars
  BY <1>6 DEF StartOne, WorkerEnd, WorkerDone
<1>7. CASE StartDone \/ StopCall \/ StopDrained \/ StopSetExit \/ StopJoin
  BY <1>7 DEF StartDone, StopCall, StopDrained, StopSetExit, StopJoin
<1>8. CASE UNCHANGED vars
  BY <1>8 DEF vars, queueVars
<1> QED BY <1>1, <1>2, <1>3, <1>4, <1>5, <1>6, <1>7, <1>8 DEF PoolNext, StopStep, WorkerStep

\* The pool never leaves the behaviours the queue is proved about.
THEOREM PoolImplementsQueue == PoolSpec => Spec
<1>1. PoolInit => Init
  BY DEF PoolInit
<1> QED BY <1>1, PoolStepIsQueueStep, PTL DEF PoolSpec, Spec

--------------------------------------------------------------------------------
(* The workers that hold a request *)

LEMMA BusyFinite ==
    /\ IsFiniteSet(Busy) /\ Cardinality(Busy) \in Nat
    /\ IsFiniteSet(Busy') /\ Cardinality(Busy') \in Nat
<1>1. Busy \in SUBSET Consumers /\ Busy' \in SUBSET Consumers
  BY DEF Busy
<1>2. IsFiniteSet(Busy) /\ IsFiniteSet(Busy')
  BY <1>1, FS_Subset, QueueAssumption
<1> QED BY <1>2, FS_CardinalityType

LEMMA PoolInvInit == PoolInit => PoolInv
<1> SUFFICES ASSUME PoolInit PROVE PoolInv
  OBVIOUS
<1>1. PoolTypeOK
  BY DEF PoolInit, PoolTypeOK, MainPcs, WorkerPcs
<1>2. Busy = {} /\ Cardinality(Busy) = 0
  BY FS_EmptySet DEF PoolInit, Busy
<1>3. Len(taken) = 0
  BY EmptySeq DEF PoolInit, Init
<1> QED BY <1>1, <1>2, <1>3, MainThread, ThreadSets DEF PoolInit, Init, PoolInv

\* One more request is in the hands of a worker, or one less.
LEMMA BusyGrows ==
    ASSUME PoolInv, NEW c \in Consumers, wpc[c] # "busy", wpc' = [wpc EXCEPT ![c] = "busy"]
    PROVE  Cardinality(Busy') = Cardinality(Busy) + 1
<1>1. Busy' = Busy \cup {c} /\ c \notin Busy
  BY DEF Busy, PoolInv, PoolTypeOK
<1> QED BY <1>1, BusyFinite, FS_AddElement

LEMMA BusyShrinks ==
    ASSUME PoolInv, NEW c \in Consumers, wpc[c] = "busy", wpc' = [wpc EXCEPT ![c] = "loop"]
    PROVE  Cardinality(Busy') = Cardinality(Busy) - 1
<1>1. Busy' = Busy \ {c} /\ c \in Busy
  BY DEF Busy, PoolInv, PoolTypeOK
<1> QED BY <1>1, BusyFinite, FS_RemoveElement

LEMMA BusySame ==
    ASSUME PoolInv, NEW c \in Consumers, wpc[c] # "busy", NEW v \in WorkerPcs \ {"busy"},
           wpc' = [wpc EXCEPT ![c] = v]
    PROVE  Busy' = Busy
BY DEF Busy, PoolInv, PoolTypeOK

LEMMA PoolInvStep == QueueInv /\ PoolInv /\ [PoolNext]_vars => PoolInv'
<1> SUFFICES ASSUME QueueInv, PoolInv, [PoolNext]_vars
             PROVE  PoolInv'
  OBVIOUS
<1> USE MainThread, ThreadSets DEF MainPcs, WorkerPcs
<1>t. TypeOK /\ PoolTypeOK
  BY DEF QueueInv, PoolInv
<1>1. ASSUME NEW c \in Consumers, StartOne(c)
      PROVE  PoolInv'
  <2>1. wpc[c] = "none"
    BY <1>1 DEF StartOne, PoolInv
  <2>2. Busy' = Busy
    BY <1>1, <2>1, BusySame DEF StartOne, Busy
  <2>3. wpc' = wpc \/ wpc' = [wpc EXCEPT ![c] = "loop"]
    BY <1>1 DEF StartOne
  <2> QED BY <1>1, <1>t, <2>1, <2>2, <2>3 DEF StartOne, PoolInv, PoolTypeOK, queueVars
<1>2. CASE StartDone \/ StopCall \/ StopDrained \/ StopSetExit
  BY <1>2, <1>t DEF StartDone, StopCall, StopDrained, StopSetExit, Empty, PoolInv, PoolTypeOK,
     Busy, queueVars
<1>3. CASE StopJoin
  <2>1. \A c \in Consumers : wpc[c] \in {"none", "end"}
    BY <1>3 DEF StopJoin, Running
  <2> QED BY <1>3, <2>1, <1>t DEF StopJoin, PoolInv, PoolTypeOK, Busy, queueVars
<1>4. ASSUME NEW e \in Tasks, AddRequest(e)
      PROVE  PoolInv'
  BY <1>4, <1>t DEF AddRequest, PushCall, poolVars, PoolInv, PoolTypeOK, Busy, TypeOK
<1>5. CASE AddRequestStep
  <2>1. CASE PushLock(Main) \/ PushSleep(Main)
    BY <1>5, <2>1, <1>t DEF AddRequestStep, PushLock, Lock, PushSleep, poolVars, PoolInv,
       PoolTypeOK, Busy, TypeOK
  <2>2. CASE PushItem(Main)
    <3>1. PICK W \in NotifyOne(PopSleepers) :
             pc' = [Woken(W, "popLock") EXCEPT ![Main] = "out"]
      BY <2>2 DEF PushItem
    <3>2. \A c \in W : c \in Consumers /\ pc[c] = "popSleep"
      BY NotifiedOne DEF PopSleepers
    <3>3. pc'[Main] = "out" /\ \A c \in Consumers : pc'[c] = "out" <=> pc[c] = "out"
      BY <3>1, <3>2 DEF Woken
    <3>4. mainpc = "serving"
      BY <2>2 DEF PushItem, PoolInv
    <3> QED BY <1>5, <2>2, <3>3, <3>4, <1>t DEF AddRequestStep, PushItem, poolVars, PoolInv,
               PoolTypeOK, Busy
  <2> QED BY <1>5, <2>1, <2>2 DEF AddRequestStep, PushStep
<1>6. CASE StopWakeup
  <2>1. \A t \in Threads : pc'[t] = "out" <=> pc[t] = "out"
    BY <1>6 DEF StopWakeup, WakeupClear, WakeupNotify, Woken, PopSleepers
  <2> QED BY <1>6, <2>1, <1>t DEF StopWakeup, WakeupClear, WakeupNotify, PoolInv, PoolTypeOK, Busy
<1>7. ASSUME NEW c \in Consumers, WorkerCall(c)
      PROVE  PoolInv'
  <2>1. Busy' = Busy
    BY <1>7, BusySame DEF WorkerCall
  <2>2. c \in created /\ Main # c
    BY <1>7 DEF WorkerCall, PoolInv
  <2> QED BY <1>7, <2>1, <2>2, <1>t DEF WorkerCall, PopCall, PoolInv, PoolTypeOK, TypeOK
<1>8. ASSUME NEW c \in Consumers, WorkerEnd(c)
      PROVE  PoolInv'
  <2>1. Busy' = Busy
    BY <1>8, BusySame DEF WorkerEnd
  <2>2. c \in created
    BY <1>8 DEF WorkerEnd, PoolInv
  <2> QED BY <1>8, <2>1, <2>2, <1>t DEF WorkerEnd, PoolInv, PoolTypeOK, TypeOK, queueVars
<1>9. ASSUME NEW c \in Consumers, WorkerPop(c)
      PROVE  PoolInv'
  <2>0. c \in created /\ Main # c
    BY <1>9 DEF WorkerPop, PoolInv
  <2>1. CASE (PopLock(c) \/ PopTest(c) \/ PopSleep(c)) /\ UNCHANGED wpc
    BY <1>9, <2>0, <2>1, <1>t DEF WorkerPop, PopLock, Lock, PopTest, PopSleep, PoolInv, PoolTypeOK,
       Busy, TypeOK
  <2>2. CASE PopTake(c) /\ wpc' = [wpc EXCEPT ![c] = "busy"]
    <3>1. PICK W \in NotifyOne(PushSleepers) :
             pc' = [Woken(W, "pushLock") EXCEPT ![c] = "out"]
      BY <2>2 DEF PopTake
    <3>2. \A p \in W : p \in Producers /\ pc[p] = "pushSleep"
      BY NotifiedOne DEF PushSleepers
    <3>3. /\ pc'[c] = "out" /\ \A d \in Consumers \ {c} : pc'[d] = pc[d]
          /\ pc'[Main] = "out" <=> pc[Main] = "out"
      BY <3>1, <3>2, <2>0 DEF Woken
    <3>4. Cardinality(Busy') = Cardinality(Busy) + 1
      BY <1>9, <2>2, BusyGrows DEF WorkerPop
    <3>5. que # <<>>
      BY <2>2 DEF PopTake, QueueInv, FrontExists
    <3>6. Len(taken') = Len(taken) + 1 /\ Len(taken) \in Nat
      BY <2>2, <3>5, <1>t, HeadTailProperties, AppendProperties, LenProperties DEF PopTake, TypeOK
    <3>7. flag' = flag /\ flag /\ UNCHANGED <<mainpc, created, isExit, finished, torn>>
      BY <1>9, <2>2 DEF WorkerPop, PopTake
    <3>8. /\ mainpc # "stopped"
          /\ mainpc \in {"exiting", "waking", "joining"} => torn
      BY <1>9, <3>5 DEF PoolInv, WorkerPop
    <3>9. finished' + Cardinality(Busy') = Len(taken')
      <4>1. finished + Cardinality(Busy) = Len(taken) /\ finished \in Nat
        BY DEF PoolInv, PoolTypeOK
      <4>2. finished' = finished
        BY <3>7
      <4> QED BY <3>4, <3>6, <4>1, <4>2, BusyFinite
    <3>10. PoolTypeOK'
      BY <2>2, <3>7, <1>t DEF PoolTypeOK
    <3> QED BY <1>9, <2>0, <2>2, <3>3, <3>7, <3>8, <3>9, <3>10, <1>t DEF WorkerPop, PoolInv, PoolTypeOK
  <2>3. CASE PopNull(c) /\ wpc' = [wpc EXCEPT ![c] = "loop"]
    <3>1. Busy' = Busy
      BY <1>9, <2>3, BusySame DEF WorkerPop
    <3> QED BY <1>9, <2>0, <2>3, <3>1, <1>t DEF WorkerPop, PopNull, PoolInv, PoolTypeOK, TypeOK
  <2> QED BY <1>9, <2>1, <2>2, <2>3 DEF WorkerPop
<1>10. ASSUME NEW c \in Consumers, WorkerDone(c)
       PROVE  PoolInv'
  <2>1. Cardinality(Busy') = Cardinality(Busy) - 1 /\ c \in Busy /\ c \in created
    BY <1>10, BusyShrinks DEF WorkerDone, Busy, PoolInv
  <2>2. finished' + Cardinality(Busy') = Len(taken')
    BY <1>10, <2>1, <1>t, BusyFinite DEF WorkerDone, PoolInv, PoolTypeOK, queueVars
  <2>3. mainpc' # "stopped"
    BY <1>10, <2>1 DEF WorkerDone, PoolInv, Busy
  <2> QED BY <1>10, <2>1, <2>2, <2>3, <1>t DEF WorkerDone, PoolInv, PoolTypeOK, queueVars
<1>11. ASSUME NEW t \in Threads, Spurious(t)
       PROVE  PoolInv'
  <2>1. \A u \in Threads : pc'[u] = "out" <=> pc[u] = "out"
    BY <1>11 DEF Spurious, SpuriousWakeup, Woken, PopSleepers, PushSleepers
  <2> QED BY <1>11, <2>1, <1>t DEF Spurious, SpuriousWakeup, poolVars, PoolInv, PoolTypeOK, Busy
<1>12. CASE UNCHANGED vars
  BY <1>12, <1>t DEF vars, PoolInv, PoolTypeOK, Busy
<1> QED BY <1>1, <1>2, <1>3, <1>4, <1>5, <1>6, <1>7, <1>8, <1>9, <1>10, <1>11, <1>12
           DEF PoolNext, StopStep, WorkerStep

\* What stop() established at each of its steps, and how the workers stand to
\* the queue, in every reachable state.
THEOREM PoolInvariant == PoolSpec => []PoolInv
<1>1. PoolSpec => []QueueInv
  BY PoolImplementsQueue, QueueInvariant, PTL
<1> QED BY <1>1, PoolInvInit, PoolInvStep, PTL DEF PoolSpec

LEMMA LengthsAddUp == QueueInv => Len(pushed) = Len(taken) + Len(que) /\ Len(que) \in Nat
BY ConcatProperties, LenProperties DEF QueueInv, TypeOK, ContentInv

\* No request is lost between the queue and the workers.
THEOREM NoRequestLost == PoolSpec => []RequestsConserved
<1>1. QueueInv /\ PoolInv => RequestsConserved
  <2> SUFFICES ASSUME QueueInv, PoolInv PROVE RequestsConserved
    OBVIOUS
  <2>1. finished + Cardinality(Busy) = Len(taken) /\ finished \in Nat
    BY DEF PoolInv, PoolTypeOK
  <2> QED BY <2>1, LengthsAddUp, BusyFinite DEF RequestsConserved
<1>2. PoolSpec => []QueueInv
  BY PoolImplementsQueue, QueueInvariant, PTL
<1> QED BY <1>1, <1>2, PoolInvariant, PTL

\* stop() returns with every task finished (Threadpool.cc:58), for any number
\* of workers, even none, and whatever they were doing when it looked, unless
\* the look itself misread the queue.
THEOREM StopFinishesEverything == PoolSpec => []StopCompletesTasks
<1>1. QueueInv /\ PoolInv => StopCompletesTasks
  <2> SUFFICES ASSUME QueueInv, PoolInv, mainpc = "stopped", ~torn
               PROVE  finished = Len(pushed)
    BY DEF StopCompletesTasks
  <2>1. Busy = {} /\ que = <<>> /\ finished \in Nat
    BY DEF PoolInv, PoolTypeOK, Busy
  <2>2. Cardinality(Busy) = 0 /\ Len(que) = 0
    BY <2>1, FS_EmptySet
  <2>3. finished + Cardinality(Busy) = Len(taken)
    BY DEF PoolInv
  <2> QED BY <2>1, <2>2, <2>3, LengthsAddUp
<1>2. PoolSpec => []QueueInv
  BY PoolImplementsQueue, QueueInvariant, PTL
<1> QED BY <1>1, <1>2, PoolInvariant, PTL

\* No request is in the queue when pop() begins to refuse them, unless stop()
\* misread the queue.
THEOREM NoRequestRefused == PoolSpec => []NothingRefused
<1>1. PoolInv => NothingRefused
  BY DEF PoolInv, NothingRefused
<1> QED BY <1>1, PoolInvariant, PTL
================================================================================
