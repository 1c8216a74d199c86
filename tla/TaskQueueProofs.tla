---------------------------- MODULE TaskQueueProofs ----------------------------
(***************************************************************************)
(* What TLC finds of TaskQueue on a few threads, proved for any finite     *)
(* number of threads, any capacity and any number of calls.                *)
(***************************************************************************)
EXTENDS TaskQueue, TLAPS, FiniteSetTheorems, SequenceTheorems

(* Sequences: the step of an element from the queue to the taken ones. *)

LEMMA AppendToConcat ==
    ASSUME NEW S, NEW s \in Seq(S), NEW t \in Seq(S), NEW e \in S
    PROVE  s \o Append(t, e) = Append(s \o t, e)
<1>1. s \o t \in Seq(S)
  BY ConcatProperties
<1>2. <<e>> \in Seq(S)
  OBVIOUS
<1>3. Append(s \o t, e) = (s \o t) \o <<e>>
  BY <1>1, AppendIsConcat
<1>4. (s \o t) \o <<e>> = s \o (t \o <<e>>)
  BY <1>2, ConcatAssociative
<1>5. Append(t, e) = t \o <<e>>
  BY AppendIsConcat
<1> QED BY <1>3, <1>4, <1>5

LEMMA HeadMoves ==
    ASSUME NEW S, NEW s \in Seq(S), NEW t \in Seq(S), t # <<>>
    PROVE  /\ Append(s, Head(t)) \o Tail(t) = s \o t
           /\ (s \o t)[Len(s) + 1] = Head(t)
<1> DEFINE h == Head(t)
<1>1. h \in S /\ Tail(t) \in Seq(S) /\ Len(Tail(t)) = Len(t) - 1
      /\ \A i \in 1 .. Len(Tail(t)) : Tail(t)[i] = t[i + 1]
  BY HeadTailProperties
<1>2. /\ <<h>> \in Seq(S)
      /\ Len(<<h>>) = 1 /\ <<h>>[1] = h
  BY <1>1
<1>3. Append(s, h) = s \o <<h>>
  BY <1>1, AppendIsConcat
<1>4. (s \o <<h>>) \o Tail(t) = s \o (<<h>> \o Tail(t))
  BY <1>1, <1>2, ConcatAssociative
<1>5. <<h>> \o Tail(t) = t
  <2>1. Len(t) \in Nat /\ Len(t) > 0 /\ h = t[1]
    BY EmptySeq, LenProperties DEF h
  <2>2. /\ <<h>> \o Tail(t) \in Seq(S)
        /\ Len(<<h>> \o Tail(t)) = 1 + (Len(t) - 1)
        /\ \A i \in 1 .. 1 + (Len(t) - 1) :
              (<<h>> \o Tail(t))[i] = IF i <= 1 THEN <<h>>[i] ELSE Tail(t)[i - 1]
    BY <1>1, <1>2, ConcatProperties
  <2>3. \A i \in 1 .. Len(t) : (<<h>> \o Tail(t))[i] = t[i]
    BY <1>1, <1>2, <2>1, <2>2
  <2> QED BY <2>1, <2>2, <2>3, SeqEqual
<1>6. (s \o t)[Len(s) + 1] = h
  <2>1. Len(s) \in Nat /\ Len(t) \in Nat /\ Len(t) > 0 /\ h = t[1]
    BY EmptySeq, LenProperties DEF h
  <2>2. \A i \in 1 .. Len(s) + Len(t) :
           (s \o t)[i] = IF i <= Len(s) THEN s[i] ELSE t[i - Len(s)]
    BY ConcatProperties
  <2>3. Len(s) + 1 \in 1 .. Len(s) + Len(t) /\ ~(Len(s) + 1 <= Len(s))
        /\ (Len(s) + 1) - Len(s) = 1
    BY <2>1
  <2> QED BY <2>1, <2>2, <2>3
<1> QED BY <1>3, <1>4, <1>5, <1>6

--------------------------------------------------------------------------------
(* Types *)

LEMMA ThreadSets ==
    /\ Producers \subseteq Threads /\ Consumers \subseteq Threads
    /\ Producers \cap Consumers = {} /\ NoThread \notin Threads
BY QueueAssumption DEF Threads

\* Who a notification wakes: sleepers, at most one.
LEMMA NotifiedOne ==
    ASSUME NEW S, NEW W \in NotifyOne(S)
    PROVE  /\ W \subseteq S
           /\ S # {} => \E t \in S : W = {t}
           /\ S = {} => W = {}
<1>1. CASE S = {}
  BY <1>1 DEF NotifyOne
<1>2. CASE S # {}
  BY <1>2 DEF NotifyOne
<1> QED BY <1>1, <1>2

LEMMA TypeInit == Init => TypeOK
BY ThreadSets DEF Init, TypeOK, PushPcs, PopPcs

LEMMA TypeStep == TypeOK /\ FrontExists /\ [Next]_queueVars => TypeOK'
<1> SUFFICES ASSUME TypeOK, FrontExists, [Next]_queueVars
             PROVE  TypeOK'
  OBVIOUS
<1> USE ThreadSets DEF TypeOK, PushPcs, PopPcs
<1>1. ASSUME NEW p \in Producers, NEW e \in Tasks, PushCall(p, e)
      PROVE  TypeOK'
  BY <1>1 DEF PushCall
<1>2. ASSUME NEW p \in Producers, PushLock(p)
      PROVE  TypeOK'
  BY <1>2 DEF PushLock, Lock
<1>3. ASSUME NEW p \in Producers, PushSleep(p)
      PROVE  TypeOK'
  BY <1>3 DEF PushSleep
<1>4. ASSUME NEW p \in Producers, PushItem(p)
      PROVE  TypeOK'
  <2>1. PICK W \in NotifyOne(PopSleepers) :
           pc' = [Woken(W, "popLock") EXCEPT ![p] = "out"]
    BY <1>4 DEF PushItem
  <2>2. W \subseteq Consumers
    BY NotifiedOne DEF PopSleepers
  <2>3. arg[p] \in Tasks
    OBVIOUS
  <2>4. que' \in Seq(Tasks) /\ pushed' \in Seq(Tasks)
    BY <1>4, <2>3, AppendProperties DEF PushItem
  <2>5. pc' \in [Threads -> PushPcs \cup PopPcs]
        /\ (\A q \in Producers : pc'[q] \in PushPcs)
        /\ (\A c \in Consumers : pc'[c] \in PopPcs)
    BY <2>1, <2>2 DEF Woken
  <2> QED BY <1>4, <2>4, <2>5 DEF PushItem
<1>5. ASSUME NEW c \in Consumers, PopCall(c)
      PROVE  TypeOK'
  BY <1>5 DEF PopCall
<1>6. ASSUME NEW c \in Consumers, PopLock(c)
      PROVE  TypeOK'
  BY <1>6 DEF PopLock, Lock
<1>7. ASSUME NEW c \in Consumers, PopTest(c)
      PROVE  TypeOK'
  BY <1>7 DEF PopTest
<1>8. ASSUME NEW c \in Consumers, PopSleep(c)
      PROVE  TypeOK'
  BY <1>8 DEF PopSleep
<1>9. ASSUME NEW c \in Consumers, PopTake(c)
      PROVE  TypeOK'
  <2>1. PICK W \in NotifyOne(PushSleepers) :
           pc' = [Woken(W, "pushLock") EXCEPT ![c] = "out"]
    BY <1>9 DEF PopTake
  <2>2. W \subseteq Producers
    BY NotifiedOne DEF PushSleepers
  <2>3. que # <<>>
    BY <1>9 DEF PopTake, FrontExists
  <2>4. Head(que) \in Tasks /\ Tail(que) \in Seq(Tasks)
    BY <2>3, HeadTailProperties
  <2>5. que' \in Seq(Tasks) /\ taken' \in Seq(Tasks)
    BY <1>9, <2>4, AppendProperties DEF PopTake
  <2>6. pc' \in [Threads -> PushPcs \cup PopPcs]
        /\ (\A q \in Producers : pc'[q] \in PushPcs)
        /\ (\A d \in Consumers : pc'[d] \in PopPcs)
    BY <2>1, <2>2 DEF Woken
  <2>7. got' \in [Consumers -> Tasks \cup {NoTask}]
    BY <1>9, <2>4 DEF PopTake
  <2> QED BY <1>9, <2>5, <2>6, <2>7 DEF PopTake
<1>10. ASSUME NEW c \in Consumers, PopNull(c)
       PROVE  TypeOK'
  BY <1>10 DEF PopNull
<1>11. ASSUME WakeupClear
       PROVE  TypeOK'
  BY <1>11 DEF WakeupClear
<1>12. ASSUME WakeupNotify
       PROVE  TypeOK'
  BY <1>12 DEF WakeupNotify, Woken, PopSleepers
<1>13. ASSUME NEW t \in Threads, SpuriousWakeup(t)
       PROVE  TypeOK'
  BY <1>13 DEF SpuriousWakeup, Woken, PopSleepers, PushSleepers
<1>14. ASSUME UNCHANGED queueVars
       PROVE  TypeOK'
  BY <1>14 DEF queueVars
<1> QED BY <1>1, <1>2, <1>3, <1>4, <1>5, <1>6, <1>7, <1>8, <1>9, <1>10, <1>11, <1>12,
           <1>13, <1>14 DEF Next, PushStep, PopStep

--------------------------------------------------------------------------------
(* The mutex, and what it protects *)

\* At most one thread is inside a critical section, and owner names it.
LEMMA MutexStep == TypeOK /\ MutexInv /\ [Next]_queueVars => MutexInv'
<1> SUFFICES ASSUME TypeOK, MutexInv, [Next]_queueVars
             PROVE  MutexInv'
  OBVIOUS
<1> USE ThreadSets DEF TypeOK, PushPcs, PopPcs, HeldPcs, MutexInv
<1>1. ASSUME NEW p \in Producers, NEW e \in Tasks, PushCall(p, e)
      PROVE  MutexInv'
  BY <1>1 DEF PushCall
<1>2. ASSUME NEW p \in Producers, PushStep(p)
      PROVE  MutexInv'
  <2>1. CASE PushLock(p)
    BY <2>1 DEF PushLock, Lock
  <2>2. CASE PushSleep(p)
    BY <2>2 DEF PushSleep
  <2>3. CASE PushItem(p)
    <3>1. PICK W \in NotifyOne(PopSleepers) :
             pc' = [Woken(W, "popLock") EXCEPT ![p] = "out"]
      BY <2>3 DEF PushItem
    <3>2. \A t \in W : t \in Consumers /\ pc[t] = "popSleep"
      BY NotifiedOne DEF PopSleepers
    <3> QED BY <2>3, <3>1, <3>2 DEF PushItem, Woken
  <2> QED BY <1>2, <2>1, <2>2, <2>3 DEF PushStep
<1>3. ASSUME NEW c \in Consumers, PopStep(c)
      PROVE  MutexInv'
  <2>1. CASE PopLock(c)
    BY <2>1 DEF PopLock, Lock
  <2>2. CASE PopTest(c)
    BY <2>2 DEF PopTest
  <2>3. CASE PopSleep(c)
    BY <2>3 DEF PopSleep
  <2>4. CASE PopTake(c)
    <3>1. PICK W \in NotifyOne(PushSleepers) :
             pc' = [Woken(W, "pushLock") EXCEPT ![c] = "out"]
      BY <2>4 DEF PopTake
    <3>2. \A t \in W : t \in Producers /\ pc[t] = "pushSleep"
      BY NotifiedOne DEF PushSleepers
    <3> QED BY <2>4, <3>1, <3>2 DEF PopTake, Woken
  <2>5. CASE PopNull(c)
    BY <2>5 DEF PopNull
  <2> QED BY <1>3, <2>1, <2>2, <2>3, <2>4, <2>5 DEF PopStep
<1>4. ASSUME NEW c \in Consumers, PopCall(c)
      PROVE  MutexInv'
  BY <1>4 DEF PopCall
<1>5. CASE WakeupClear
  BY <1>5 DEF WakeupClear
<1>6. CASE WakeupNotify
  BY <1>6 DEF WakeupNotify, Woken, PopSleepers
<1>7. ASSUME NEW t \in Threads, SpuriousWakeup(t)
      PROVE  MutexInv'
  BY <1>7 DEF SpuriousWakeup, Woken, PopSleepers, PushSleepers
<1>8. CASE UNCHANGED queueVars
  BY <1>8 DEF queueVars
<1> QED BY <1>1, <1>2, <1>3, <1>4, <1>5, <1>6, <1>7, <1>8 DEF Next

\* Nothing is lost, duplicated or reordered, and the bound is kept.
LEMMA ContentStep == TypeOK /\ FrontExists /\ ContentInv /\ [Next]_queueVars => ContentInv'
<1> SUFFICES ASSUME TypeOK, FrontExists, ContentInv, [Next]_queueVars
             PROVE  ContentInv'
  OBVIOUS
<1>1. ASSUME NEW p \in Producers, PushItem(p)
      PROVE  ContentInv'
  <2>1. arg[p] \in Tasks /\ que \in Seq(Tasks) /\ taken \in Seq(Tasks)
    BY DEF TypeOK
  <2>2. pushed' = taken' \o que'
    <3>1. taken \o Append(que, arg[p]) = Append(taken \o que, arg[p])
      BY <2>1, AppendToConcat
    <3> QED BY <1>1, <3>1 DEF PushItem, ContentInv
  <2>3. Len(que') = Len(que) + 1 /\ Len(que) \in Nat
    BY <1>1, <2>1, AppendProperties, LenProperties DEF PushItem
  <2>4. Len(que') <= QueSize
    BY <1>1, <2>3, QueueAssumption DEF PushItem, Full, ContentInv
  <2> QED BY <2>2, <2>4 DEF ContentInv
<1>2. ASSUME NEW c \in Consumers, PopTake(c)
      PROVE  ContentInv'
  <2>1. que # <<>> /\ que \in Seq(Tasks) /\ taken \in Seq(Tasks)
    BY <1>2 DEF TypeOK, FrontExists, PopTake
  <2>2. pushed' = taken' \o que'
    BY <1>2, <2>1, HeadMoves DEF PopTake, ContentInv
  <2>3. Len(que') = Len(que) - 1 /\ Len(que) \in Nat
    BY <1>2, <2>1, HeadTailProperties, LenProperties DEF PopTake
  <2>4. Len(que') <= QueSize
    BY <2>3, QueueAssumption DEF ContentInv
  <2> QED BY <2>2, <2>4 DEF ContentInv
<1>3. CASE UNCHANGED <<que, pushed, taken>>
  BY <1>3 DEF ContentInv
<1> QED BY <1>1, <1>2, <1>3 DEF Next, PushStep, PopStep, PushCall, PushLock, PushSleep, PopCall,
           PopLock, PopTest, PopSleep, PopNull, WakeupClear, WakeupNotify, SpuriousWakeup, Lock,
           queueVars

\* What pop() read of the queue is still true when it acts on it: nobody else
\* changes the queue while it holds the mutex, and _flag only goes down.
LEMMA TestedStep ==
    TypeOK /\ MutexInv /\ TestedInv /\ FrontExists /\ [Next]_queueVars
    => TestedInv' /\ FrontExists'
<1> SUFFICES ASSUME TypeOK, MutexInv, TestedInv, FrontExists, [Next]_queueVars
             PROVE  TestedInv' /\ FrontExists'
  OBVIOUS
<1> USE ThreadSets DEF TypeOK, PushPcs, PopPcs, HeldPcs, TestedInv, FrontExists
<1>1. ASSUME NEW p \in Producers, PushItem(p)
      PROVE  TestedInv' /\ FrontExists'
  <2>1. PICK W \in NotifyOne(PopSleepers) :
           pc' = [Woken(W, "popLock") EXCEPT ![p] = "out"]
    BY <1>1 DEF PushItem
  <2>2. \A t \in W : t \in Consumers /\ pc[t] = "popSleep"
    BY NotifiedOne DEF PopSleepers
  <2>3. \A c \in Consumers : pc[c] \notin {"popWait", "popReady"}
    BY <1>1 DEF PushItem, MutexInv
  <2>4. \A c \in Consumers : pc'[c] \notin {"popWait", "popReady"}
    BY <2>1, <2>2, <2>3 DEF Woken
  <2> QED BY <2>4
<1>2. ASSUME NEW c \in Consumers, PopTake(c)
      PROVE  TestedInv' /\ FrontExists'
  <2>1. PICK W \in NotifyOne(PushSleepers) :
           pc' = [Woken(W, "pushLock") EXCEPT ![c] = "out"]
    BY <1>2 DEF PopTake
  <2>2. W \subseteq Producers
    BY NotifiedOne DEF PushSleepers
  <2>3. \A d \in Consumers \ {c} : pc[d] \notin {"popWait", "popReady"}
    BY <1>2 DEF PopTake, MutexInv
  <2>4. \A d \in Consumers : pc'[d] \notin {"popWait", "popReady"}
    BY <2>1, <2>2, <2>3 DEF Woken
  <2> QED BY <2>4
<1>3. ASSUME NEW c \in Consumers, PopTest(c)
      PROVE  TestedInv' /\ FrontExists'
  BY <1>3 DEF PopTest, Empty
<1>4. ASSUME UNCHANGED que, flag' => flag,
             \A c \in Consumers : pc'[c] \in {"popWait", "popReady"} => pc'[c] = pc[c]
      PROVE  TestedInv' /\ FrontExists'
  BY <1>4
<1>5. ASSUME NEW p \in Producers, NEW e \in Tasks, PushCall(p, e)
      PROVE  TestedInv' /\ FrontExists'
  BY <1>5 DEF PushCall
<1>6. ASSUME NEW t \in Threads, \E from, to \in {"pushLock", "pushHeld", "popLock", "popHeld"} : Lock(t, from, to)
      PROVE  TestedInv' /\ FrontExists'
  BY <1>4, <1>6 DEF Lock
<1>7. ASSUME NEW p \in Producers, PushSleep(p)
      PROVE  TestedInv' /\ FrontExists'
  BY <1>7 DEF PushSleep
<1>8. ASSUME NEW c \in Consumers, PopCall(c) \/ PopSleep(c) \/ PopNull(c)
      PROVE  TestedInv' /\ FrontExists'
  BY <1>4, <1>8 DEF PopCall, PopSleep, PopNull
<1>9. CASE WakeupClear \/ WakeupNotify
  BY <1>4, <1>9 DEF WakeupClear, WakeupNotify, Woken, PopSleepers
<1>10. ASSUME NEW t \in Threads, SpuriousWakeup(t)
       PROVE  TestedInv' /\ FrontExists'
  BY <1>4, <1>10 DEF SpuriousWakeup, Woken, PopSleepers, PushSleepers
<1>11. CASE UNCHANGED queueVars
  BY <1>11 DEF queueVars
<1> QED BY <1>1, <1>2, <1>3, <1>5, <1>6, <1>7, <1>8, <1>9, <1>10, <1>11
           DEF Next, PushStep, PopStep, PushLock, PopLock

--------------------------------------------------------------------------------
(* Enough threads are awake *)

LEMMA AwakeFinite ==
    /\ IsFiniteSet(AwakePoppers) /\ Cardinality(AwakePoppers) \in Nat
    /\ IsFiniteSet(AwakePushers) /\ Cardinality(AwakePushers) \in Nat
<1>1. AwakePoppers \in SUBSET Consumers /\ AwakePushers \in SUBSET Producers
  BY DEF AwakePoppers, AwakePushers
<1>2. IsFiniteSet(AwakePoppers) /\ IsFiniteSet(AwakePushers)
  BY <1>1, FS_Subset, QueueAssumption
<1> QED BY <1>2, FS_CardinalityType

\* Every notify_one() that adds a task to the queue adds a consumer to look at
\* it, and a consumer falls asleep only over an empty queue.
LEMMA ConsumersStep ==
    TypeOK /\ TestedInv /\ FrontExists /\ ConsumersSuffice /\ [Next]_queueVars
    => ConsumersSuffice'
<1> SUFFICES ASSUME TypeOK, TestedInv, FrontExists, ConsumersSuffice, [Next]_queueVars
             PROVE  ConsumersSuffice'
  OBVIOUS
<1> DEFINE Awake  == AwakePoppers
           Asleep == PopSleepers
<1>1. /\ IsFiniteSet(Awake) /\ Cardinality(Awake) \in Nat
      /\ IsFiniteSet(Awake') /\ Cardinality(Awake') \in Nat
      /\ Len(que) \in Nat
  <2>1. IsFiniteSet(Awake') /\ Cardinality(Awake') \in Nat
    <3>1. Awake' \in SUBSET Consumers
      BY DEF AwakePoppers
    <3>2. IsFiniteSet(Awake')
      BY <3>1, FS_Subset, QueueAssumption
    <3> QED BY <3>2, FS_CardinalityType
  <2> QED BY <2>1, AwakeFinite, LenProperties DEF TypeOK
<1>2. ASSUME NEW p \in Producers, PushItem(p)
      PROVE  ConsumersSuffice'
  <2>1. PICK W \in NotifyOne(Asleep) : pc' = [Woken(W, "popLock") EXCEPT ![p] = "out"]
    BY <1>2 DEF PushItem
  <2>2. \A c \in Consumers : pc'[c] = IF c \in W THEN "popLock" ELSE pc[c]
    BY <2>1, ThreadSets DEF Woken
  <2>3. Len(que') = Len(que) + 1 /\ flag' = flag
    BY <1>2, AppendProperties DEF PushItem, TypeOK
  <2>4. CASE Asleep = {}
    <3>1. Asleep' = {}
      BY <2>2, <2>4, NotifiedOne DEF PopSleepers
    <3> QED BY <3>1 DEF ConsumersSuffice
  <2>5. CASE Asleep # {}
    <3>1. PICK t \in Asleep : W = {t}
      BY <2>5, NotifiedOne
    <3>2. Awake' = Awake \cup {t} /\ t \notin Awake
      BY <2>2, <3>1 DEF AwakePoppers, PopSleepers
    <3>3. Cardinality(Awake') = Cardinality(Awake) + 1
      BY <1>1, <3>2, FS_AddElement
    <3> QED BY <1>1, <2>3, <2>5, <3>3 DEF ConsumersSuffice
  <2> QED BY <2>4, <2>5
<1>3. ASSUME NEW c \in Consumers, PopTake(c)
      PROVE  ConsumersSuffice'
  <2>1. PICK W \in NotifyOne(PushSleepers) :
           pc' = [Woken(W, "pushLock") EXCEPT ![c] = "out"]
    BY <1>3 DEF PopTake
  <2>2. W \subseteq Producers
    BY NotifiedOne DEF PushSleepers
  <2>3. \A d \in Consumers : pc'[d] = IF d = c THEN "out" ELSE pc[d]
    BY <2>1, <2>2, ThreadSets DEF Woken, TypeOK
  <2>4. pc[c] = "popReady"
    BY <1>3 DEF PopTake
  <2>5. Awake' = Awake \ {c} /\ c \in Awake /\ Asleep' = Asleep
    BY <2>3, <2>4 DEF AwakePoppers, PopSleepers
  <2>6. Cardinality(Awake') = Cardinality(Awake) - 1
    BY <1>1, <2>5, FS_RemoveElement
  <2>7. Len(que') = Len(que) - 1 /\ flag' = flag
    BY <1>3, HeadTailProperties DEF PopTake, TypeOK, FrontExists
  <2> QED BY <1>1, <2>5, <2>6, <2>7 DEF ConsumersSuffice
<1>4. ASSUME NEW c \in Consumers, PopSleep(c)
      PROVE  ConsumersSuffice'
  <2>1. Len(que') = 0
    BY <1>4 DEF PopSleep, TestedInv
  <2> QED BY <1>1, <2>1 DEF ConsumersSuffice
<1>5. ASSUME NEW c \in Consumers, PopNull(c)
      PROVE  ConsumersSuffice'
  BY <1>5 DEF PopNull, ConsumersSuffice
<1>6. ASSUME UNCHANGED que, flag' => flag, Asleep' \subseteq Asleep, Awake \subseteq Awake'
      PROVE  ConsumersSuffice'
  <2>1. Cardinality(Awake) <= Cardinality(Awake')
    BY <1>1, <1>6, FS_Subset
  <2> QED BY <1>1, <1>6, <2>1 DEF ConsumersSuffice
<1> DEFINE Calm == \A c \in Consumers :
              \/ pc'[c] = pc[c]
              \/ pc'[c] \in {"popLock", "popHeld", "popWait", "popReady"}
<1>7. ASSUME UNCHANGED que, flag' => flag, Calm
      PROVE  ConsumersSuffice'
  <2>1. Asleep' \subseteq Asleep /\ Awake \subseteq Awake'
    BY <1>7 DEF AwakePoppers, PopSleepers
  <2> QED BY <1>6, <1>7, <2>1
<1> HIDE DEF Awake, Asleep
<1>8. ASSUME NEW p \in Producers, PushLock(p) \/ PushSleep(p) \/ \E e \in Tasks : PushCall(p, e)
      PROVE  ConsumersSuffice'
  BY <1>7, <1>8, ThreadSets DEF PushLock, PushSleep, PushCall, Lock, TypeOK
<1>9. ASSUME NEW c \in Consumers, PopLock(c) \/ PopTest(c) \/ PopCall(c)
      PROVE  ConsumersSuffice'
  BY <1>7, <1>9, ThreadSets DEF PopLock, PopTest, PopCall, Lock, TypeOK
<1>10. CASE WakeupClear \/ WakeupNotify
  BY <1>7, <1>10, ThreadSets DEF WakeupClear, WakeupNotify, Woken, PopSleepers, TypeOK
<1>11. ASSUME NEW t \in Threads, SpuriousWakeup(t)
       PROVE  ConsumersSuffice'
  BY <1>7, <1>11, ThreadSets DEF SpuriousWakeup, Woken, PopSleepers, PushSleepers, TypeOK
<1>12. CASE UNCHANGED queueVars
  BY <1>7, <1>12 DEF queueVars
<1> QED BY <1>2, <1>3, <1>4, <1>5, <1>8, <1>9, <1>10, <1>11, <1>12 DEF Next, PushStep, PopStep

\* Every notify_one() that frees a slot adds a producer to look at it, and a
\* producer falls asleep only beside a full queue.
LEMMA ProducersStep ==
    TypeOK /\ FrontExists /\ ContentInv /\ ProducersSuffice /\ [Next]_queueVars
    => ProducersSuffice'
<1> SUFFICES ASSUME TypeOK, FrontExists, ContentInv, ProducersSuffice, [Next]_queueVars
             PROVE  ProducersSuffice'
  OBVIOUS
<1> DEFINE Awake  == AwakePushers
           Asleep == PushSleepers
<1>1. /\ IsFiniteSet(Awake) /\ Cardinality(Awake) \in Nat
      /\ IsFiniteSet(Awake') /\ Cardinality(Awake') \in Nat
      /\ Len(que) \in Nat /\ QueSize \in Nat
  <2>1. IsFiniteSet(Awake') /\ Cardinality(Awake') \in Nat
    <3>1. Awake' \in SUBSET Producers
      BY DEF AwakePushers
    <3>2. IsFiniteSet(Awake')
      BY <3>1, FS_Subset, QueueAssumption
    <3> QED BY <3>2, FS_CardinalityType
  <2> QED BY <2>1, AwakeFinite, LenProperties, QueueAssumption DEF TypeOK
<1>2. ASSUME NEW c \in Consumers, PopTake(c)
      PROVE  ProducersSuffice'
  <2>1. PICK W \in NotifyOne(Asleep) : pc' = [Woken(W, "pushLock") EXCEPT ![c] = "out"]
    BY <1>2 DEF PopTake
  <2>2. \A p \in Producers : pc'[p] = IF p \in W THEN "pushLock" ELSE pc[p]
    BY <2>1, ThreadSets DEF Woken
  <2>3. Len(que') = Len(que) - 1
    BY <1>2, HeadTailProperties DEF PopTake, TypeOK, FrontExists
  <2>4. CASE Asleep = {}
    <3>1. Asleep' = {}
      BY <2>2, <2>4, NotifiedOne DEF PushSleepers
    <3> QED BY <3>1 DEF ProducersSuffice
  <2>5. CASE Asleep # {}
    <3>1. PICK t \in Asleep : W = {t}
      BY <2>5, NotifiedOne
    <3>2. Awake' = Awake \cup {t} /\ t \notin Awake
      BY <2>2, <3>1 DEF AwakePushers, PushSleepers
    <3>3. Cardinality(Awake') = Cardinality(Awake) + 1
      BY <1>1, <3>2, FS_AddElement
    <3> QED BY <1>1, <2>3, <2>5, <3>3 DEF ProducersSuffice
  <2> QED BY <2>4, <2>5
<1>3. ASSUME NEW p \in Producers, PushItem(p)
      PROVE  ProducersSuffice'
  <2>1. PICK W \in NotifyOne(PopSleepers) :
           pc' = [Woken(W, "popLock") EXCEPT ![p] = "out"]
    BY <1>3 DEF PushItem
  <2>2. W \subseteq Consumers
    BY NotifiedOne DEF PopSleepers
  <2>3. \A q \in Producers : pc'[q] = IF q = p THEN "out" ELSE pc[q]
    BY <2>1, <2>2, ThreadSets DEF Woken, TypeOK
  <2>4. pc[p] = "pushHeld"
    BY <1>3 DEF PushItem
  <2>5. Awake' = Awake \ {p} /\ p \in Awake /\ Asleep' = Asleep
    BY <2>3, <2>4 DEF AwakePushers, PushSleepers
  <2>6. Cardinality(Awake') = Cardinality(Awake) - 1
    BY <1>1, <2>5, FS_RemoveElement
  <2>7. Len(que') = Len(que) + 1
    BY <1>3, AppendProperties DEF PushItem, TypeOK
  <2> QED BY <1>1, <2>5, <2>6, <2>7 DEF ProducersSuffice
<1>4. ASSUME NEW p \in Producers, PushSleep(p)
      PROVE  ProducersSuffice'
  BY <1>1, <1>4 DEF PushSleep, Full, ProducersSuffice
<1>5. ASSUME UNCHANGED que, Asleep' \subseteq Asleep, Awake \subseteq Awake'
      PROVE  ProducersSuffice'
  <2>1. Cardinality(Awake) <= Cardinality(Awake')
    BY <1>1, <1>5, FS_Subset
  <2> QED BY <1>1, <1>5, <2>1 DEF ProducersSuffice
<1> DEFINE Calm == \A p \in Producers : pc'[p] = pc[p] \/ pc'[p] \in {"pushLock", "pushHeld"}
<1>6. ASSUME UNCHANGED que, Calm
      PROVE  ProducersSuffice'
  <2>1. Asleep' \subseteq Asleep /\ Awake \subseteq Awake'
    BY <1>6 DEF AwakePushers, PushSleepers
  <2> QED BY <1>5, <1>6, <2>1
<1> HIDE DEF Awake, Asleep
<1>7. ASSUME NEW p \in Producers, PushLock(p) \/ \E e \in Tasks : PushCall(p, e)
      PROVE  ProducersSuffice'
  BY <1>6, <1>7, ThreadSets DEF PushLock, PushCall, Lock, TypeOK
<1>8. ASSUME NEW c \in Consumers,
             PopLock(c) \/ PopTest(c) \/ PopSleep(c) \/ PopNull(c) \/ PopCall(c)
      PROVE  ProducersSuffice'
  BY <1>6, <1>8, ThreadSets DEF PopLock, PopTest, PopSleep, PopNull, PopCall, Lock, TypeOK
<1>9. CASE WakeupClear \/ WakeupNotify
  BY <1>6, <1>9, ThreadSets DEF WakeupClear, WakeupNotify, Woken, PopSleepers, TypeOK
<1>10. ASSUME NEW t \in Threads, SpuriousWakeup(t)
       PROVE  ProducersSuffice'
  BY <1>6, <1>10, ThreadSets DEF SpuriousWakeup, Woken, PopSleepers, PushSleepers, TypeOK
<1>11. CASE UNCHANGED queueVars
  BY <1>6, <1>11 DEF queueVars
<1> QED BY <1>2, <1>3, <1>4, <1>7, <1>8, <1>9, <1>10, <1>11 DEF Next, PushStep, PopStep

--------------------------------------------------------------------------------
(* The invariant, and what follows from it *)

LEMMA QueueInvInit == Init => QueueInv
<1> SUFFICES ASSUME Init PROVE QueueInv
  OBVIOUS
<1>1. TypeOK
  BY TypeInit
<1>2. \A t \in Threads : pc[t] = "out"
  BY DEF Init
<1>3. PushSleepers = {} /\ PopSleepers = {}
  BY <1>2, ThreadSets DEF PushSleepers, PopSleepers
<1>4. MutexInv
  BY <1>2, ThreadSets DEF Init, MutexInv, HeldPcs
<1>5. ContentInv
  <2>1. <<>> \in Seq(Tasks) /\ Len(<<>>) = 0
    BY EmptySeq
  <2>2. <<>> \o <<>> = <<>>
    BY <2>1, ConcatEmptySeq
  <2> QED BY <2>1, <2>2, QueueAssumption DEF Init, ContentInv
<1>6. TestedInv /\ FrontExists
  BY <1>2, ThreadSets DEF TestedInv, FrontExists
<1> QED BY <1>1, <1>3, <1>4, <1>5, <1>6 DEF QueueInv, ConsumersSuffice, ProducersSuffice

LEMMA QueueInvStep == QueueInv /\ [Next]_queueVars => QueueInv'
BY TypeStep, MutexStep, ContentStep, TestedStep, ConsumersStep, ProducersStep DEF QueueInv

\* The inductive invariant holds in every reachable state of the queue, with
\* any number of threads calling push(), pop() and wakeup() in any order.
THEOREM QueueInvariant == Spec => []QueueInv
BY QueueInvInit, QueueInvStep, PTL DEF Spec

\* Every variable keeps its type.
THEOREM QueueTypeCorrect == Spec => []TypeOK
<1>1. QueueInv => TypeOK
  BY DEF QueueInv
<1> QED BY <1>1, QueueInvariant, PTL

\* pop() never takes the front of an empty queue.
THEOREM FrontAlwaysExists == Spec => []FrontExists
<1>1. QueueInv => FrontExists
  BY DEF QueueInv
<1> QED BY <1>1, QueueInvariant, PTL

\* No notification on _notEmpty is lost while the queue is open.
THEOREM NoConsumerStranded == Spec => []ConsumersNotStranded
<1>1. QueueInv => ConsumersNotStranded
  <2> SUFFICES ASSUME QueueInv, flag, que # <<>>, PopSleepers # {}, AwakePoppers = {}
               PROVE  FALSE
    BY DEF ConsumersNotStranded
  <2>1. Len(que) \in Nat /\ Len(que) > 0
    BY EmptySeq DEF QueueInv, TypeOK
  <2>2. Cardinality(AwakePoppers) = 0
    BY FS_EmptySet
  <2> QED BY <2>1, <2>2 DEF QueueInv, ConsumersSuffice
<1> QED BY <1>1, QueueInvariant, PTL

\* No notification on _notFull is lost, before or after wakeup().
THEOREM NoProducerStranded == Spec => []ProducersNotStranded
<1>1. QueueInv => ProducersNotStranded
  <2> SUFFICES ASSUME QueueInv, Len(que) < QueSize, PushSleepers # {}, AwakePushers = {}
               PROVE  FALSE
    BY DEF ProducersNotStranded
  <2>1. Len(que) \in Nat /\ QueSize \in Nat
    BY LenProperties, QueueAssumption DEF QueueInv, TypeOK
  <2>2. Cardinality(AwakePushers) = 0
    BY FS_EmptySet
  <2> QED BY <2>1, <2>2 DEF QueueInv, ProducersSuffice
<1> QED BY <1>1, QueueInvariant, PTL

--------------------------------------------------------------------------------
(* Refinement *)

\* A step of the queue is a step of the FIFO or leaves it alone: the body of
\* push() accepts, the body of pop() delivers, wakeup() closes.
LEMMA FifoStep == QueueInv /\ [Next]_queueVars => [Fifo!FifoNext]_(Fifo!fifoVars)
<1> SUFFICES ASSUME QueueInv, [Next]_queueVars
             PROVE  [Fifo!FifoNext]_(Fifo!fifoVars)
  OBVIOUS
<1>1. /\ que \in Seq(Tasks) /\ taken \in Seq(Tasks) /\ pushed = taken \o que
      /\ Len(que) \in Nat /\ Len(taken) \in Nat /\ Len(pushed) = Len(taken) + Len(que)
      /\ Len(que) <= QueSize /\ QueSize \in Nat
  BY ConcatProperties, LenProperties, QueueAssumption DEF QueueInv, TypeOK, ContentInv
<1>2. Fifo!Stored = Len(que)
  BY <1>1 DEF Fifo!Stored
<1>3. ASSUME NEW p \in Producers, PushItem(p)
      PROVE  Fifo!FifoNext
  <2>1. arg[p] \in Tasks
    BY DEF QueueInv, TypeOK
  <2>2. Fifo!Accept(arg[p])
    BY <1>1, <1>2, <1>3 DEF PushItem, Full, Fifo!Accept
  <2> QED BY <2>1, <2>2 DEF Fifo!FifoNext
<1>4. ASSUME NEW c \in Consumers, PopTake(c)
      PROVE  Fifo!FifoNext
  <2>1. que # <<>>
    BY <1>4 DEF PopTake, QueueInv, FrontExists
  <2>2. Len(que) > 0 /\ pushed[Len(taken) + 1] = Head(que)
    BY <1>1, <2>1, EmptySeq, HeadMoves
  <2>3. Fifo!Deliver
    BY <1>2, <1>4, <2>2 DEF PopTake, Fifo!Deliver
  <2> QED BY <2>3 DEF Fifo!FifoNext
<1>5. CASE WakeupClear
  BY <1>5 DEF WakeupClear, Fifo!Close, Fifo!FifoNext
<1>6. CASE UNCHANGED <<pushed, taken, flag>>
  BY <1>6 DEF Fifo!fifoVars
<1> QED BY <1>3, <1>4, <1>5, <1>6 DEF Next, PushStep, PopStep, PushCall, PushLock, PushSleep,
           PopCall, PopLock, PopTest, PopSleep, PopNull, WakeupNotify, SpuriousWakeup, Lock,
           queueVars

\* The queue implements a bounded FIFO: what comes out is what went in, in
\* order and once, never above the capacity, and nothing once it is closed.
THEOREM QueueImplementsFifo == Spec => ImplementsFifo
<1>1. Init => Fifo!FifoInit
  BY DEF Init, Fifo!FifoInit
<1> QED BY <1>1, FifoStep, QueueInvariant, PTL DEF Spec, ImplementsFifo, Fifo!FifoSpec
================================================================================
