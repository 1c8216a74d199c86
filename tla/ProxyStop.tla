------------------------------ MODULE ProxyStop ------------------------------
(***************************************************************************)
(* The life of the proxy from ProxyServer::start() to the end of            *)
(* ~EventLoop: EventLoop::loop() and unloop() (event_loop/EventLoop.cc)     *)
(* around the pool of Threadpool.  ProxyServer::stop() is called by another *)
(* thread; when the loop has ended, the members of EventLoop are destroyed  *)
(* in the reverse order of EventLoop.hpp:47-56, the two tables of numbers   *)
(* before the pool, whose destructor stops it.                             *)
(*                                                                         *)
(* WaitForEver, UnloopTearsDown and WorkerGivesUp are mistaken forms of the *)
(* definition after each: no part of ProxyStopNext.                        *)
(***************************************************************************)
EXTENDS Threadpool

CONSTANT MaxStops   \* bound: calls of ProxyServer::stop()

ASSUME MaxStops \in Nat

VARIABLES looppc,      \* where Main is in loop() and ~EventLoop
          isLooping,   \* _isLooping, a bool that two threads access without a lock
          stops,       \* how many times stop() was called
          overwritten, \* history: a stop() was undone by loop()
          pending,     \* history: requests unfinished when the loop ended
          crashed      \* the process ended in process() on a table that is gone

loopVars == <<looppc, isLooping, stops, overwritten, pending, crashed>>
stopVars == <<que, flag, owner, pc, arg, got, waker, pushed, taken, spurious,
              mainpc, created, wpc, isExit, finished, torn,
              looppc, isLooping, stops, overwritten, pending, crashed>>

LoopPcs == {"starting", "setting", "testing", "waiting", "handling", "left", "destroyed"}

StopInit ==
    /\ PoolInit
    /\ looppc = "starting" /\ isLooping = FALSE
    /\ stops = 0 /\ overwritten = FALSE /\ pending = 0 /\ crashed = FALSE

--------------------------------------------------------------------------------
(* loop() *)

\* _threadpool.start()
PoolStarts ==
    /\ looppc = "starting"
    /\ \/ (\E c \in Consumers : StartOne(c)) /\ UNCHANGED looppc
       \/ StartDone /\ looppc' = "setting"
    /\ UNCHANGED <<isLooping, stops, overwritten, pending, crashed>>

\* _isLooping = true, whatever a stop() has written before.
SetLooping ==
    /\ looppc = "setting"
    /\ isLooping' = TRUE
    /\ overwritten' = (stops > 0)
    /\ looppc' = "testing"
    /\ UNCHANGED <<queueVars, poolVars, stops, pending, crashed>>

TestLooping ==
    /\ looppc = "testing"
    /\ \/ isLooping /\ looppc' = "waiting" /\ UNCHANGED pending
       \/ ~isLooping /\ looppc' = "left" /\ pending' = Len(que) + Cardinality(Busy)
    /\ UNCHANGED <<queueVars, poolVars, isLooping, stops, overwritten, crashed>>

\* epoll_wait returns with events, an error, or nothing after five seconds.
WaitForEver ==
    /\ looppc = "waiting"
    /\ Len(pushed) < MaxPush
    /\ looppc' = "handling"
    /\ UNCHANGED <<queueVars, poolVars, isLooping, stops, overwritten, pending, crashed>>
WaitReturns ==
    /\ looppc = "waiting"
    /\ looppc' = "handling"
    /\ UNCHANGED <<queueVars, poolVars, isLooping, stops, overwritten, pending, crashed>>

\* One addRequest() for each event that has a connection.
HandleStep == looppc = "handling" /\ AddRequestStep /\ UNCHANGED loopVars
Handle ==
    \/ looppc = "handling" /\ (\E e \in Tasks : AddRequest(e)) /\ UNCHANGED loopVars
    \/ HandleStep

Handled ==
    /\ looppc = "handling" /\ pc[Main] = "out"
    /\ looppc' = "testing"
    /\ UNCHANGED <<queueVars, poolVars, isLooping, stops, overwritten, pending, crashed>>

--------------------------------------------------------------------------------
(* stop(), and what follows the loop *)

\* ProxyServer::stop() and EventLoop::unloop()
UnloopTearsDown ==
    /\ stops < MaxStops
    /\ isLooping' = FALSE
    /\ stops' = stops + 1
    /\ looppc' = IF looppc \in {"waiting", "testing"} THEN "destroyed" ELSE looppc
    /\ UNCHANGED <<queueVars, poolVars, overwritten, pending, crashed>>
Unloop ==
    /\ stops < MaxStops
    /\ isLooping' = FALSE
    /\ stops' = stops + 1
    /\ UNCHANGED <<queueVars, poolVars, looppc, overwritten, pending, crashed>>

\* ~EventLoop: _forwardingTable and _clientTable are gone first.
DestroyTables ==
    /\ looppc = "left"
    /\ looppc' = "destroyed"
    /\ UNCHANGED <<queueVars, poolVars, isLooping, stops, overwritten, pending, crashed>>

\* ~Threadpool calls stop().
DestroyPool == looppc = "destroyed" /\ (StopCall \/ StopStep) /\ UNCHANGED loopVars

\* process() looks into a table: one that is gone may end the process.
UseDestroyed(c) ==
    /\ looppc = "destroyed" /\ wpc[c] = "busy"
    /\ crashed' = TRUE
    /\ UNCHANGED <<queueVars, poolVars, looppc, isLooping, stops, overwritten, pending>>

WorkerGivesUp(c) ==
    /\ \/ WorkerCall(c) /\ isLooping
       \/ WorkerEnd(c) \/ WorkerPop(c) \/ WorkerDone(c)
    /\ UNCHANGED loopVars
Work(c) == WorkerStep(c) /\ UNCHANGED loopVars
Pops(c) == WorkerPop(c) /\ UNCHANGED loopVars

--------------------------------------------------------------------------------
MainStep == PoolStarts \/ SetLooping \/ TestLooping \/ WaitReturns \/ Handled
            \/ DestroyTables \/ DestroyPool

ProxyStopNext ==
    /\ ~crashed
    /\ \/ MainStep \/ Handle \/ Unloop
       \/ \E c \in Consumers : Work(c) \/ UseDestroyed(c)
       \/ \E t \in Threads : Spurious(t) /\ UNCHANGED loopVars

ProxyStopSpec == StopInit /\ [][ProxyStopNext]_stopVars

\* Threads run on, process() and epoll_wait() return, and a mutex that is free is
\* taken by some thread that asks for it.  Nothing makes anybody call stop(),
\* and no event need ever come.
StopFairness ==
    /\ WF_stopVars(~crashed /\ MainStep)
    /\ WF_stopVars(~crashed /\ owner = NoThread /\ (HandleStep \/ \E c \in Consumers : Pops(c)))
    /\ WF_stopVars(~crashed /\ owner = Main /\ HandleStep)
    /\ \A c \in Consumers :
          /\ WF_stopVars(~crashed /\ owner = c /\ Pops(c))
          /\ WF_stopVars(~crashed /\ wpc[c] # "pop" /\ Work(c))

ProxyStopFairSpec == ProxyStopSpec /\ StopFairness

--------------------------------------------------------------------------------
(* Properties *)

\* EventLoop.hpp:55-56: a worker meets a destroyed table only with a request that
\* was unfinished when the loop ended: to stop a proxy that is idle is safe.
IdleStopIsSafe == crashed => pending > 0

\* The inductive invariant behind it: nothing is pushed once the loop has ended.
StopInv ==
    /\ looppc \in LoopPcs /\ pending \in Nat
    /\ looppc \in {"left", "destroyed"} => Len(que) + Cardinality(Busy) <= pending
    /\ looppc # "starting" <=> mainpc # "starting"
    /\ looppc # "handling" => pc[Main] = "out"
    /\ crashed => looppc = "destroyed" /\ Busy # {}

\* Every request is processed once a worker runs, whether the proxy is stopped
\* or not; the exceptions are a stop() that misread the queue and a worker that
\* found its tables destroyed.
RequestServed ==
    \A n \in 1 .. MaxPush :
        (mainpc # "starting" /\ Running # {} /\ Len(pushed) >= n)
            ~> (finished >= n \/ torn \/ crashed)

\* ProxyServer::stop() ends the proxy, even one that gets no more events, with
\* every worker joined, unless loop() undid it, a worker went to sleep between
\* the two halves of wakeup() and missed it (the lost wakeup of TaskQueue), or a
\* worker found its tables destroyed.
StopEndsProxy ==
    (stops > 0 /\ mainpc # "starting" /\ Running # {})
        ~> (mainpc = "stopped" \/ overwritten \/ (waker = "done" /\ PopSleepers # {}) \/ crashed)
================================================================================
