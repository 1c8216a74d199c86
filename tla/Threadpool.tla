------------------------------ MODULE Threadpool ------------------------------
(***************************************************************************)
(* wd::Threadpool and wd::Thread (threadpool/Threadpool.cc, Thread.cc) on   *)
(* top of TaskQueue: the event loop's thread starts the workers, pushes     *)
(* connections with addRequest() and ends the pool with stop(); each worker *)
(* loops on getRequest() and processes what it got.                         *)
(*                                                                         *)
(* The only thread that pushes is Main, so Producers = {Main}; Consumers    *)
(* are the Thread objects of _threads, whether or not pthread_create gave   *)
(* them a thread.  process() is one long step here; ProxyServer opens it.   *)
(*                                                                         *)
(* StopDrainedUnchecked, StopSetExitMissing and StopJoinNone are mistaken  *)
(* forms of the definition after each: no part of the specification, they  *)
(* show that the properties can fail.                                      *)
(***************************************************************************)
EXTENDS TaskQueue

CONSTANTS Main,  \* the thread that runs EventLoop::loop() and ~Threadpool()
          Block  \* how many tasks a block of std::deque holds (32 with libstdc++)

ASSUME MainAssumption == Producers = {Main}

VARIABLES mainpc,    \* where Main is in start(), in service, or in stop()
          created,   \* the Thread objects on which start() was called
          wpc,       \* where each worker is in Threadpool::threadFunc
          isExit,    \* _isExit
          finished,  \* how many calls of process() have returned
          torn       \* history: stop() has taken a queue with tasks for an empty one

poolVars == <<mainpc, created, wpc, isExit, finished, torn>>
vars == <<que, flag, owner, pc, arg, got, waker, pushed, taken, spurious,
          mainpc, created, wpc, isExit, finished, torn>>

MainPcs   == {"starting", "serving", "draining", "exiting", "waking", "joining", "stopped"}
WorkerPcs == {"none", "loop", "pop", "busy", "end"}

\* The Thread objects whose _isRunning is TRUE: they have a thread to join.
Running == {c \in Consumers : wpc[c] # "none"}
Busy    == {c \in Consumers : wpc[c] = "busy"}

--------------------------------------------------------------------------------
PoolInit ==
    /\ Init
    /\ mainpc = "starting" /\ created = {} /\ isExit = FALSE /\ finished = 0 /\ torn = FALSE
    /\ wpc = [c \in Consumers |-> "none"]

(* start() *)

\* Thread::start: when pthread_create fails the loop goes on to the next one.
StartOne(c) ==
    /\ mainpc = "starting"
    /\ c \notin created
    /\ created' = created \cup {c}
    /\ wpc' \in {wpc, [wpc EXCEPT ![c] = "loop"]}
    /\ UNCHANGED <<queueVars, mainpc, isExit, finished, torn>>

StartDone ==
    /\ mainpc = "starting"
    /\ created = Consumers
    /\ mainpc' = "serving"
    /\ UNCHANGED <<queueVars, created, wpc, isExit, finished, torn>>

(* addRequest() *)

AddRequest(e) ==
    /\ mainpc = "serving"
    /\ PushCall(Main, e)
    /\ UNCHANGED poolVars

AddRequestStep == PushStep(Main) /\ UNCHANGED poolVars

(* stop() *)

StopCall ==
    /\ mainpc = "serving"
    /\ pc[Main] = "out"
    /\ mainpc' = "draining"
    /\ UNCHANGED <<queueVars, created, wpc, isExit, finished, torn>>

\* The loop on _taskque.empty() is left on the first look that finds it empty.
\* The look takes no mutex: while a worker is inside _que.pop() and moves the
\* front from one block of the deque to the next, the size computed from both
\* halves is short of one block, so that one block of tasks looks like none.
Misread == Len(que) = Block /\ \E c \in Consumers : pc[c] = "popReady" /\ flag

StopDrainedUnchecked ==
    /\ mainpc = "draining"
    /\ mainpc' = "exiting"
    /\ UNCHANGED <<queueVars, created, wpc, isExit, finished, torn>>
StopDrained ==
    /\ mainpc = "draining"
    /\ \/ Empty /\ UNCHANGED torn
       \/ Misread /\ torn' = TRUE
    /\ mainpc' = "exiting"
    /\ UNCHANGED <<queueVars, created, wpc, isExit, finished>>

StopSetExitMissing ==
    /\ mainpc = "exiting"
    /\ mainpc' = "waking"
    /\ UNCHANGED <<queueVars, created, wpc, isExit, finished, torn>>
StopSetExit ==
    /\ mainpc = "exiting"
    /\ isExit' = TRUE
    /\ mainpc' = "waking"
    /\ UNCHANGED <<queueVars, created, wpc, finished, torn>>

StopWakeup ==
    /\ mainpc = "waking"
    /\ \/ WakeupClear /\ UNCHANGED mainpc
       \/ WakeupNotify /\ mainpc' = "joining"
    /\ UNCHANGED <<created, wpc, isExit, finished, torn>>

\* Thread::join on every thread that runs; one that never started is skipped.
StopJoinNone ==
    /\ mainpc = "joining"
    /\ mainpc' = "stopped"
    /\ UNCHANGED <<queueVars, created, wpc, isExit, finished, torn>>
StopJoin ==
    /\ mainpc = "joining"
    /\ \A c \in Running : wpc[c] = "end"
    /\ mainpc' = "stopped"
    /\ UNCHANGED <<queueVars, created, wpc, isExit, finished, torn>>

(* threadFunc() *)

WorkerCall(c) ==
    /\ wpc[c] = "loop"
    /\ ~isExit
    /\ PopCall(c)
    /\ wpc' = [wpc EXCEPT ![c] = "pop"]
    /\ UNCHANGED <<mainpc, created, isExit, finished, torn>>

WorkerEnd(c) ==
    /\ wpc[c] = "loop"
    /\ isExit
    /\ wpc' = [wpc EXCEPT ![c] = "end"]
    /\ UNCHANGED <<queueVars, mainpc, created, isExit, finished, torn>>

\* Inside getRequest(); if(conn) is decided as soon as pop() returns.
WorkerPop(c) ==
    /\ wpc[c] = "pop"
    /\ \/ (PopLock(c) \/ PopTest(c) \/ PopSleep(c)) /\ UNCHANGED wpc
       \/ PopTake(c) /\ wpc' = [wpc EXCEPT ![c] = "busy"]
       \/ PopNull(c) /\ wpc' = [wpc EXCEPT ![c] = "loop"]
    /\ UNCHANGED <<mainpc, created, isExit, finished, torn>>

\* conn->process() returns.
WorkerDone(c) ==
    /\ wpc[c] = "busy"
    /\ finished' = finished + 1
    /\ wpc' = [wpc EXCEPT ![c] = "loop"]
    /\ UNCHANGED <<queueVars, mainpc, created, isExit, torn>>

Spurious(t) == SpuriousWakeup(t) /\ UNCHANGED poolVars

--------------------------------------------------------------------------------
StopStep == StopDrained \/ StopSetExit \/ StopWakeup \/ StopJoin
WorkerStep(c) == WorkerCall(c) \/ WorkerEnd(c) \/ WorkerPop(c) \/ WorkerDone(c)

PoolNext ==
    \/ \E c \in Consumers : StartOne(c)
    \/ StartDone
    \/ \E e \in Tasks : AddRequest(e)
    \/ AddRequestStep
    \/ StopCall \/ StopStep
    \/ \E c \in Consumers : WorkerStep(c)
    \/ \E t \in Threads : Spurious(t)

PoolSpec == PoolInit /\ [][PoolNext]_vars

--------------------------------------------------------------------------------
(* Properties *)

PoolTypeOK ==
    /\ mainpc \in MainPcs /\ created \subseteq Consumers
    /\ wpc \in [Consumers -> WorkerPcs]
    /\ isExit \in BOOLEAN /\ finished \in Nat /\ torn \in BOOLEAN

\* No request is lost between the queue and the workers: each one pushed is in
\* the queue, in the hands of one worker, or finished.
RequestsConserved == Len(pushed) = Len(que) + Cardinality(Busy) + finished

\* Threadpool.cc:58: before the pool is left every task is finished, although
\* stop() looks at the queue only, without the mutex, and not at the workers.
\* A look that misread the queue is the one exception.
StopCompletesTasks == mainpc = "stopped" /\ ~torn => finished = Len(pushed)

\* pop() refuses a task once _flag is FALSE; unless stop() misread the queue
\* there is none left by then.
NothingRefused == ~flag /\ ~torn => que = <<>>

\* The inductive invariant: how the pool's variables follow the queue's, and
\* what stop() established at each of its steps.
PoolInv ==
    /\ PoolTypeOK
    /\ \A c \in Consumers \ created : wpc[c] = "none"
    /\ \A c \in Consumers : wpc[c] = "pop" <=> pc[c] # "out"
    /\ finished + Cardinality(Busy) = Len(taken)
    /\ mainpc # "serving" => pc[Main] = "out"
    /\ mainpc \in {"exiting", "waking", "joining", "stopped"} => que = <<>> \/ torn
    /\ ~flag => mainpc \in {"waking", "joining", "stopped"}
    /\ mainpc = "stopped" => \A c \in Consumers : wpc[c] \in {"none", "end"}
================================================================================
