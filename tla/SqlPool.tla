-------------------------------- MODULE SqlPool --------------------------------
(***************************************************************************)
(* The business servers' pool of MySQL connections: connection_pool and     *)
(* sem (http_server/sql_connection_pool.cpp, sem.h).  A semaphore counts    *)
(* the connections in a std::list.  ReleaseConnection locks a mutex around  *)
(* the list; GetConnection does not, and reads the last element before it   *)
(* removes one, so that other threads' accesses can come in between.        *)
(*                                                                         *)
(* Connections are the numbers 1 .. opened, in the order init() opened      *)
(* them.  An access to the list is a step; two accesses about to happen at  *)
(* the same time, one of them a write, and not both under the mutex, are a  *)
(* data race, whose outcomes are those of the two orders, or the end of     *)
(* the process.                                                             *)
(*                                                                         *)
(* SemUnchecked and PopFront are mistaken forms of the definition after     *)
(* each: no part of the specification, they show that the properties can    *)
(* fail.                                                                    *)
(***************************************************************************)
EXTENDS Integers, Sequences, FiniteSets

CONSTANTS Threads,   \* the server's I/O threads, which run the requests
          MaxConn,   \* sql_num
          Openable   \* how many connections init() may manage to open

ASSUME SqlAssumption ==
    /\ IsFiniteSet(Threads)
    /\ MaxConn \in Nat /\ Openable \subseteq 0 .. MaxConn

VARIABLES opened,    \* how many connections init() opened
          connList,  \* connList
          reserve,   \* the semaphore's count
          ppc,       \* where each thread is in GetConnection or ReleaseConnection
          conn,      \* the caller's conn, set by GetConnection; 0 before
          torn,      \* history: the list changed hands between a back() and its pop_back()
          crashed    \* the process has ended before its time

sqlVars == <<opened, connList, reserve, ppc, conn, torn, crashed>>

NoConn == 0

\* Past the semaphore and not yet done with the list.
Taking  == {t \in Threads : ppc[t] \in {"back", "popBack"}}
Posting == {t \in Threads : ppc[t] = "post"}

PoolStep(t, from, to) == ~crashed /\ ppc[t] = from /\ ppc' = [ppc EXCEPT ![t] = to]

\* An access to the list by t while another thread is between its two.
Tears(t) == torn' = (torn \/ \E u \in Threads \ {t} : ppc[u] = "popBack")

--------------------------------------------------------------------------------
\* init() stops at the first connection MySQL refuses, and main() goes on.
SqlInit ==
    /\ opened \in Openable
    /\ connList = [i \in 1 .. opened |-> i]
    /\ reserve = opened
    /\ ppc = [t \in Threads |-> "out"]
    /\ conn = [t \in Threads |-> NoConn]
    /\ torn = FALSE /\ crashed = FALSE

(* GetConnection *)

GetCall(t) ==
    /\ PoolStep(t, "out", "wait")
    /\ UNCHANGED <<opened, connList, reserve, conn, torn, crashed>>

SemUnchecked(t) ==
    /\ PoolStep(t, "wait", "back")
    /\ reserve' = IF reserve > 0 THEN reserve - 1 ELSE 0
    /\ UNCHANGED <<opened, connList, conn, torn, crashed>>
SemWait(t) ==
    /\ PoolStep(t, "wait", "back")
    /\ reserve > 0
    /\ reserve' = reserve - 1
    /\ UNCHANGED <<opened, connList, conn, torn, crashed>>

Back(t) ==
    /\ PoolStep(t, "back", "popBack")
    /\ conn' = [conn EXCEPT ![t] = connList[Len(connList)]]
    /\ Tears(t)
    /\ UNCHANGED <<opened, connList, reserve, crashed>>

PopFront(t) ==
    /\ PoolStep(t, "popBack", "held")
    /\ connList' = Tail(connList)
    /\ Tears(t)
    /\ UNCHANGED <<opened, reserve, conn, crashed>>
PopBack(t) ==
    /\ PoolStep(t, "popBack", "held")
    /\ connList' = SubSeq(connList, 1, Len(connList) - 1)
    /\ Tears(t)
    /\ UNCHANGED <<opened, reserve, conn, crashed>>

(* ReleaseConnection: the mutex is held for the push_back alone. *)

ReleaseCall(t) ==
    /\ PoolStep(t, "held", "push")
    /\ UNCHANGED <<opened, connList, reserve, conn, torn, crashed>>

Push(t) ==
    /\ PoolStep(t, "push", "post")
    /\ connList' = Append(connList, conn[t])
    /\ Tears(t)
    /\ UNCHANGED <<opened, reserve, conn, crashed>>

Post(t) ==
    /\ PoolStep(t, "post", "out")
    /\ reserve' = reserve + 1
    /\ UNCHANGED <<opened, connList, conn, torn, crashed>>

ListRace ==
    \E t \in Taking : \E u \in Threads \ {t} :
        \/ ppc[u] \in {"popBack", "push"}
        \/ ppc[u] = "back" /\ ppc[t] = "popBack"

ListRaceCrash ==
    /\ ~crashed /\ ListRace
    /\ crashed' = TRUE
    /\ UNCHANGED <<opened, connList, reserve, ppc, conn, torn>>

GetStep(t)     == SemWait(t) \/ Back(t) \/ PopBack(t)
ReleaseStep(t) == Push(t) \/ Post(t)

SqlNext ==
    \/ \E t \in Threads : GetCall(t) \/ GetStep(t) \/ ReleaseCall(t) \/ ReleaseStep(t)
    \/ ListRaceCrash

SqlSpec == SqlInit /\ [][SqlNext]_sqlVars

--------------------------------------------------------------------------------
(* Properties *)

SqlTypeOK ==
    /\ opened \in Nat /\ reserve \in Nat
    /\ connList \in Seq(Nat)
    /\ ppc \in [Threads -> {"out", "wait", "back", "popBack", "held", "push", "post"}]
    /\ conn \in [Threads -> Nat]
    /\ torn \in BOOLEAN /\ crashed \in BOOLEAN

\* The semaphore counts the list: an element for every permit given out and not
\* yet used, whatever the order in which threads get at the list.
PermitsBacked == Len(connList) = reserve + Cardinality(Taking) + Cardinality(Posting)

\* back() and pop_back() never meet an empty list, although nothing but the
\* semaphore protects them.
BackExists == Taking # {} => connList # <<>>

\* Each connection is in the list or with one caller, and only once, as long as
\* nobody gets at the list between another thread's back() and pop_back().
OwnedOnce ==
    ~torn => \A m \in 1 .. opened :
        Cardinality({i \in DOMAIN connList : connList[i] = m})
          + Cardinality({t \in Threads : ppc[t] \in {"held", "push"} /\ conn[t] = m}) = 1

\* The inductive invariant.
SqlInv == SqlTypeOK /\ PermitsBacked
================================================================================
