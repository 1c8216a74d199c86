------------------------------- MODULE TaskQueue -------------------------------
(***************************************************************************)
(* wd::TaskQueue (threadpool/TaskQueue.hpp): the bounded queue between the *)
(* event loop and the worker threads, built from one mutex, the two        *)
(* condition variables _notFull and _notEmpty, and the boolean _flag that  *)
(* wakeup() clears without taking the mutex.                               *)
(*                                                                         *)
(* A thread's program counter says where it is inside push() or pop(); the *)
(* threads asleep on a condition variable are those whose program counter  *)
(* is "pushSleep" or "popSleep", so a wait set is not a variable.  What is *)
(* done in one critical section, and seen by nobody before the unlock, is  *)
(* one step; pop() reads _flag twice, and wakeup() may run in between.     *)
(*                                                                         *)
(* FullUnreached, PushSleepNotEmpty, PushItemSilent, PopTestFlagOnly,      *)
(* PopTakeKeeps and PopTakeSilent are mistaken forms of the next           *)
(* definition that is not one: no part of the specification, they show     *)
(* that the properties can fail.                                           *)
(***************************************************************************)
EXTENDS Naturals, Sequences, FiniteSets

CONSTANTS Producers,    \* threads that call push()
          Consumers,    \* threads that call pop()
          Tasks,        \* what is pushed: TcpConnPtr in the proxy
          QueSize,      \* the constructor's argument sz
          NoTask,       \* the null pointer pop() returns once _flag is cleared
          NoThread,     \* the mutex is free
          MaxPush,      \* bound: no push() starts after this many
          MaxSpurious   \* bound: how many spurious wakeups there are

ASSUME QueueAssumption ==
    /\ IsFiniteSet(Producers) /\ IsFiniteSet(Consumers)
    /\ Producers \cap Consumers = {}
    /\ NoThread \notin Producers \cup Consumers
    /\ NoTask \notin Tasks
    /\ QueSize \in Nat /\ MaxPush \in Nat /\ MaxSpurious \in Nat

VARIABLES que,       \* _que
          flag,      \* _flag
          owner,     \* the thread that holds _mutex
          pc,        \* where each thread is
          arg,       \* the argument of each producer's push()
          got,       \* what each consumer's last pop() returned
          waker,     \* progress of wakeup(): "idle", "cleared", "done"
          pushed,    \* history: every task push() has put in, in order
          taken,     \* history: every task pop() has handed out, in order
          spurious   \* spurious wakeups so far

queueVars == <<que, flag, owner, pc, arg, got, waker, pushed, taken, spurious>>

Threads == Producers \cup Consumers

PushPcs == {"out", "pushLock", "pushHeld", "pushSleep"}
PopPcs  == {"out", "popLock", "popHeld", "popWait", "popReady", "popSleep"}

\* Where a thread holds the mutex.
HeldPcs == {"pushHeld", "popHeld", "popWait", "popReady"}

PushSleepers == {p \in Producers : pc[p] = "pushSleep"}
PopSleepers  == {c \in Consumers : pc[c] = "popSleep"}

\* Inside push() or pop() and on the way to another look at the queue.
AwakePushers == {p \in Producers : pc[p] \in {"pushLock", "pushHeld"}}
AwakePoppers == {c \in Consumers : pc[c] \in {"popLock", "popHeld", "popWait", "popReady"}}

--------------------------------------------------------------------------------
Init ==
    /\ que = <<>> /\ flag = TRUE /\ owner = NoThread
    /\ pc = [t \in Threads |-> "out"]
    /\ arg \in [Producers -> Tasks]
    /\ got = [c \in Consumers |-> NoTask]
    /\ waker = "idle" /\ spurious = 0
    /\ pushed = <<>> /\ taken = <<>>

FullUnreached == Len(que) > QueSize
Full == Len(que) = QueSize

Empty == que = <<>>

\* notify_one: the sets of sleepers it may wake; nothing when nobody sleeps.
NotifyOne(S) == IF S = {} THEN {{}} ELSE {{t} : t \in S}

\* The program counters once the threads of W are on their way back to the mutex.
Woken(W, at) == [t \in Threads |-> IF t \in W THEN at ELSE pc[t]]

\* unique_lock's constructor, or the end of a wait.
Lock(t, from, to) ==
    /\ pc[t] = from
    /\ owner = NoThread
    /\ owner' = t
    /\ pc' = [pc EXCEPT ![t] = to]
    /\ UNCHANGED <<que, flag, arg, got, waker, pushed, taken, spurious>>

--------------------------------------------------------------------------------
(* push(e) *)

PushCall(p, e) ==
    /\ pc[p] = "out"
    /\ Len(pushed) < MaxPush
    /\ arg' = [arg EXCEPT ![p] = e]
    /\ pc' = [pc EXCEPT ![p] = "pushLock"]
    /\ UNCHANGED <<que, flag, owner, got, waker, pushed, taken, spurious>>

PushLock(p) == Lock(p, "pushLock", "pushHeld")

PushSleepNotEmpty(p) ==
    /\ pc[p] = "pushHeld"
    /\ Full
    /\ owner' = NoThread
    /\ pc' = [pc EXCEPT ![p] = "popSleep"]
    /\ UNCHANGED <<que, flag, arg, got, waker, pushed, taken, spurious>>

\* while(full()) _notFull.wait(guard)
PushSleep(p) ==
    /\ pc[p] = "pushHeld"
    /\ Full
    /\ owner' = NoThread
    /\ pc' = [pc EXCEPT ![p] = "pushSleep"]
    /\ UNCHANGED <<que, flag, arg, got, waker, pushed, taken, spurious>>

PushItemSilent(p) ==
    /\ pc[p] = "pushHeld"
    /\ ~Full
    /\ que' = Append(que, arg[p])
    /\ pushed' = Append(pushed, arg[p])
    /\ owner' = NoThread
    /\ pc' = [pc EXCEPT ![p] = "out"]
    /\ UNCHANGED <<flag, arg, got, waker, taken, spurious>>

\* _que.push(e); _notEmpty.notify_one(); the guard unlocks on return.
PushItem(p) ==
    /\ pc[p] = "pushHeld"
    /\ ~Full
    /\ que' = Append(que, arg[p])
    /\ pushed' = Append(pushed, arg[p])
    /\ owner' = NoThread
    /\ \E W \in NotifyOne(PopSleepers) :
          pc' = [Woken(W, "popLock") EXCEPT ![p] = "out"]
    /\ UNCHANGED <<flag, arg, got, waker, taken, spurious>>

--------------------------------------------------------------------------------
(* pop() *)

PopCall(c) ==
    /\ pc[c] = "out"
    /\ pc' = [pc EXCEPT ![c] = "popLock"]
    /\ UNCHANGED <<que, flag, owner, arg, got, waker, pushed, taken, spurious>>

PopLock(c) == Lock(c, "popLock", "popHeld")

\* while(_flag && empty()): the condition is read here, the wait begins in PopSleep.
PopTestFlagOnly(c) ==
    /\ pc[c] = "popHeld"
    /\ pc' = [pc EXCEPT ![c] = "popReady"]
    /\ UNCHANGED <<que, flag, owner, arg, got, waker, pushed, taken, spurious>>
PopTest(c) ==
    /\ pc[c] = "popHeld"
    /\ pc' = [pc EXCEPT ![c] = IF flag /\ Empty THEN "popWait" ELSE "popReady"]
    /\ UNCHANGED <<que, flag, owner, arg, got, waker, pushed, taken, spurious>>

\* _notEmpty.wait(guard): joins the wait set and unlocks in one step.
PopSleep(c) ==
    /\ pc[c] = "popWait"
    /\ owner' = NoThread
    /\ pc' = [pc EXCEPT ![c] = "popSleep"]
    /\ UNCHANGED <<que, flag, arg, got, waker, pushed, taken, spurious>>

PopTakeKeeps(c) ==
    /\ pc[c] = "popReady"
    /\ flag
    /\ got' = [got EXCEPT ![c] = Head(que)]
    /\ taken' = Append(taken, Head(que))
    /\ owner' = NoThread
    /\ \E W \in NotifyOne(PushSleepers) :
          pc' = [Woken(W, "pushLock") EXCEPT ![c] = "out"]
    /\ UNCHANGED <<que, flag, arg, waker, pushed, spurious>>

PopTakeSilent(c) ==
    /\ pc[c] = "popReady"
    /\ flag
    /\ got' = [got EXCEPT ![c] = Head(que)]
    /\ que' = Tail(que)
    /\ taken' = Append(taken, Head(que))
    /\ owner' = NoThread
    /\ pc' = [pc EXCEPT ![c] = "out"]
    /\ UNCHANGED <<flag, arg, waker, pushed, spurious>>

\* if(_flag): front(), pop(), _notFull.notify_one(), return the task.
PopTake(c) ==
    /\ pc[c] = "popReady"
    /\ flag
    /\ got' = [got EXCEPT ![c] = Head(que)]
    /\ que' = Tail(que)
    /\ taken' = Append(taken, Head(que))
    /\ owner' = NoThread
    /\ \E W \in NotifyOne(PushSleepers) :
          pc' = [Woken(W, "pushLock") EXCEPT ![c] = "out"]
    /\ UNCHANGED <<flag, arg, waker, pushed, spurious>>

\* else return 0
PopNull(c) ==
    /\ pc[c] = "popReady"
    /\ ~flag
    /\ got' = [got EXCEPT ![c] = NoTask]
    /\ owner' = NoThread
    /\ pc' = [pc EXCEPT ![c] = "out"]
    /\ UNCHANGED <<que, flag, arg, waker, pushed, taken, spurious>>

--------------------------------------------------------------------------------
(* wakeup() runs without the mutex: the flag first, then the notification. *)

WakeupClear ==
    /\ waker = "idle"
    /\ flag' = FALSE
    /\ waker' = "cleared"
    /\ UNCHANGED <<que, owner, pc, arg, got, pushed, taken, spurious>>

WakeupNotify ==
    /\ waker = "cleared"
    /\ waker' = "done"
    /\ pc' = Woken(PopSleepers, "popLock")
    /\ UNCHANGED <<que, flag, owner, arg, got, pushed, taken, spurious>>

\* wait() may return without a notification, which is why both loops are whiles.
SpuriousWakeup(t) ==
    /\ spurious < MaxSpurious
    /\ \/ t \in PushSleepers /\ pc' = Woken({t}, "pushLock")
       \/ t \in PopSleepers /\ pc' = Woken({t}, "popLock")
    /\ spurious' = spurious + 1
    /\ UNCHANGED <<que, flag, owner, arg, got, waker, pushed, taken>>

--------------------------------------------------------------------------------
PushStep(p) == PushLock(p) \/ PushSleep(p) \/ PushItem(p)
PopStep(c)  == PopLock(c) \/ PopTest(c) \/ PopSleep(c) \/ PopTake(c) \/ PopNull(c)

Next ==
    \/ \E p \in Producers : PushStep(p) \/ \E e \in Tasks : PushCall(p, e)
    \/ \E c \in Consumers : PopStep(c) \/ PopCall(c)
    \/ WakeupClear \/ WakeupNotify
    \/ \E t \in Threads : SpuriousWakeup(t)

Spec == Init /\ [][Next]_queueVars

\* A thread that holds the mutex runs on; a free mutex is given to one of the
\* threads that ask for it, with no promise to any particular one; the consumers
\* are threads that call pop() again; wakeup() runs to its end once called.
Fairness ==
    /\ WF_queueVars((\E p \in Producers : PushLock(p)) \/ (\E c \in Consumers : PopLock(c)))
    /\ \A p \in Producers : WF_queueVars(PushSleep(p) \/ PushItem(p))
    /\ \A c \in Consumers :
          WF_queueVars(PopTest(c) \/ PopSleep(c) \/ PopTake(c) \/ PopNull(c) \/ PopCall(c))
    /\ WF_queueVars(WakeupNotify)

FairSpec == Spec /\ Fairness

--------------------------------------------------------------------------------
(* Properties *)

TypeOK ==
    /\ que \in Seq(Tasks) /\ pushed \in Seq(Tasks) /\ taken \in Seq(Tasks)
    /\ flag \in BOOLEAN
    /\ owner \in Threads \cup {NoThread}
    /\ pc \in [Threads -> PushPcs \cup PopPcs]
    /\ \A p \in Producers : pc[p] \in PushPcs
    /\ \A c \in Consumers : pc[c] \in PopPcs
    /\ arg \in [Producers -> Tasks]
    /\ got \in [Consumers -> Tasks \cup {NoTask}]
    /\ waker \in {"idle", "cleared", "done"}
    /\ spurious \in Nat

\* pop() never calls front() on an empty queue, although wakeup() clears _flag
\* between its two reads and another consumer may have emptied the queue
\* between the notification and the lock.
FrontExists == \A c \in Consumers : pc[c] = "popReady" /\ flag => que # <<>>

\* No lost notification on _notEmpty: while the queue is open, tasks are not
\* left in it with every consumer of pop() asleep.
ConsumersNotStranded == flag /\ que # <<>> /\ PopSleepers # {} => AwakePoppers # {}

\* No lost notification on _notFull: a push() does not sleep beside a free
\* slot with no other push() awake to look at it.
ProducersNotStranded == Len(que) < QueSize /\ PushSleepers # {} => AwakePushers # {}

\* The parts of the inductive invariant behind the properties above.  Mutual
\* exclusion; the queue is what was pushed and not yet taken, within its bound;
\* what pop() read of the queue stays true while it holds the mutex.
MutexInv   == \A t \in Threads : pc[t] \in HeldPcs <=> owner = t
ContentInv == pushed = taken \o que /\ Len(que) <= QueSize
TestedInv  == \A c \in Consumers : pc[c] = "popWait" => que = <<>>

\* While somebody sleeps on a condition variable, the threads that are awake
\* are enough to take every task, respectively to fill every free slot.
ConsumersSuffice == flag /\ PopSleepers # {} => Len(que) <= Cardinality(AwakePoppers)
ProducersSuffice == PushSleepers # {} => QueSize <= Len(que) + Cardinality(AwakePushers)

\* The inductive invariant of the queue.
QueueInv ==
    /\ TypeOK /\ MutexInv /\ ContentInv /\ TestedInv /\ FrontExists
    /\ ConsumersSuffice /\ ProducersSuffice

\* The queue implements the FIFO it stands for: order, no loss, no duplicate,
\* never above its capacity, and nothing handed out after wakeup().
Fifo == INSTANCE BoundedFifo WITH Elements <- Tasks, Capacity <- QueSize,
                                  accepted <- pushed, delivered <- taken,
                                  closed <- ~flag
ImplementsFifo == Fifo!FifoSpec

\* Every pushed task is handed out, unless wakeup() closes the queue first.
TaskDelivered ==
    \A n \in 1 .. MaxPush + Cardinality(Producers) :
        Len(pushed) >= n ~> Len(taken) >= n \/ ~flag

\* A push() that found the queue full returns, unless wakeup() closes the queue.
PushReturns ==
    \A p \in Producers : pc[p] = "pushSleep" ~> pc[p] = "out" \/ ~flag
================================================================================
