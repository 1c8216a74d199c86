---------------------------------- MODULE Shop ----------------------------------
(***************************************************************************)
(* The business server: Task (http_server/server1.cc and server2.cc, which  *)
(* differ in the table's name and in the scope of the guard) on SqlPool.    *)
(* An I/O thread runs one request at a time, from onRequest to the answer:  *)
(* do_buy checks the stock and takes from it, do_show lists the table.      *)
(*                                                                         *)
(* The amount is a text, read twice: stoi() takes the number in front of it *)
(* for the check, the database the whole of it for the UPDATE.  The id goes *)
(* into both statements as it is, too.                                      *)
(*                                                                         *)
(* connectionRAII(&conn, pool); builds a temporary, destroyed at the end of *)
(* the statement: the connection is back in the pool before it is used, and *)
(* threads use the same one at the same time.  A query on a connection      *)
(* whose last result nobody has fetched fails.  Two calls on one connection *)
(* at the same time are a data race in the client library: they come one    *)
(* after the other, or end the process, or the connection is mixed up from  *)
(* then on, a call on it getting the answer to another or none.             *)
(*                                                                         *)
(* GuardMissing, StoreKeepsGuard and SoldOnError are mistaken forms of the  *)
(* definition after each: no part of the specification, they show that the  *)
(* properties can fail.                                                     *)
(***************************************************************************)
EXTENDS SqlPool

CONSTANTS Rows,        \* the ids the table has a row for
          Initial,     \* the stock of each row when the server starts
          Orders,      \* what the texts of a buyer's commodity_id and num come to
          Show,        \* the other request
          Readings,    \* what atoi() may find in the answer to another call
          MaxRequests, \* bound: requests in all
          NoThread     \* the mutex is free

\* finds: the rows the SELECT returns;
\* asked: what stoi() makes of num;
\* takes: what the UPDATE takes off each row.
OrderRecords == [finds : SUBSET Rows, asked : Int, takes : [Rows -> Int]]

ASSUME ShopAssumption ==
    /\ Initial \in [Rows -> Nat]
    /\ Orders \subseteq OrderRecords /\ Show \notin Orders
    /\ Readings \subseteq Int /\ MaxRequests \in Nat
    /\ NoThread \notin Threads

VARIABLES tpc,       \* where each thread is in its request
          req,       \* the request of each thread
          seen,      \* the stock in the row each thread's SELECT returned
          connMutex, \* conn_mutex: the thread that holds it
          pending,   \* connections with a result nobody has fetched
          mixed,     \* connections on which two calls ran into each other
          stock,     \* the table in the database
          sold,      \* history: what buyers were told they got, when asked was positive
          added,     \* history: what negative amounts put into the stock
          spoilt,    \* history: rows reached by an UPDATE that the check did not fit
          requests   \* requests so far

tableVars == <<stock, sold, added, spoilt>>
taskVars == <<tpc, req, seen, connMutex, pending, mixed, stock, sold, added, spoilt, requests>>
vars == <<opened, connList, reserve, ppc, conn, torn, crashed,
          tpc, req, seen, connMutex, pending, mixed, stock, sold, added, spoilt, requests>>

\* A text of one number, and an id of one row: the check is for what is taken.
Plain(o) == \E i \in Rows : /\ o.finds = {i}
                            /\ o.takes = [j \in Rows |-> IF j = i THEN o.asked ELSE 0]

Touched(o) == o.finds \cup {i \in Rows : o.takes[i] # 0}

\* Inside a call to the database, or between two of them.
Operating == {t \in Threads : tpc[t] \in {"select", "store", "update", "query", "rows"}}

Goto(t, from, to) == ~crashed /\ tpc[t] = from /\ tpc' = [tpc EXCEPT ![t] = to]

\* lock_guard's destructor, on each way out of do_buy.
Unlock == connMutex' = NoThread

\* mysql_query finds no result left over, or cannot tell any more.
InSync(t) == conn[t] \notin pending \/ conn[t] \in mixed

--------------------------------------------------------------------------------
ShopInit ==
    /\ SqlInit
    /\ tpc = [t \in Threads |-> "idle"]
    /\ req = [t \in Threads |-> Show]
    /\ seen = [t \in Threads |-> 0]
    /\ connMutex = NoThread /\ pending = {} /\ mixed = {}
    /\ stock = Initial /\ spoilt = {}
    /\ sold = [i \in Rows |-> 0] /\ added = [i \in Rows |-> 0]
    /\ requests = 0

\* onRequest: the path chooses, and the statement that takes a connection begins.
OnRequest(t, r) ==
    /\ requests < MaxRequests
    /\ Goto(t, "idle", "raii")
    /\ GetCall(t)
    /\ req' = [req EXCEPT ![t] = r]
    /\ requests' = requests + 1
    /\ UNCHANGED <<seen, connMutex, pending, mixed, tableVars>>

\* Another path, or a buy whose commodity_id or num is empty, is answered at once.
OnBadRequest(t) ==
    /\ requests < MaxRequests
    /\ Goto(t, "idle", "idle")
    /\ requests' = requests + 1
    /\ UNCHANGED <<sqlVars, req, seen, connMutex, pending, mixed, tableVars>>

ProcessEnds ==
    /\ ~crashed /\ crashed' = TRUE
    /\ UNCHANGED <<opened, connList, reserve, ppc, conn, torn, taskVars>>

\* getQuery compares the end of querys_ with the end of headers_, so that a
\* name that is missing is read behind the end.  What is there may be an empty
\* string (OnBadRequest), some other text (OnRequest), or no string at all.
MissingQuery(t) ==
    /\ requests < MaxRequests
    /\ tpc[t] = "idle"
    /\ ProcessEnds

\* connectionRAII's constructor, and its destructor right after.
Raii(t) ==
    /\ tpc[t] = "raii"
    /\ GetStep(t) \/ ReleaseCall(t) \/ Push(t)
    /\ UNCHANGED taskVars

RaiiDone(t) ==
    /\ Goto(t, "raii", IF req[t] = Show THEN "query" ELSE "lock")
    /\ Post(t)
    /\ UNCHANGED <<req, seen, connMutex, pending, mixed, tableVars, requests>>

--------------------------------------------------------------------------------
(* do_buy *)

GuardMissing(t) ==
    /\ Goto(t, "lock", "select")
    /\ connMutex' = t
    /\ UNCHANGED <<sqlVars, req, seen, pending, mixed, tableVars, requests>>
BuyLock(t) ==
    /\ Goto(t, "lock", "select")
    /\ connMutex = NoThread
    /\ connMutex' = t
    /\ UNCHANGED <<sqlVars, req, seen, pending, mixed, tableVars, requests>>

\* mysql_query(SELECT): the connection may fail, or have another's result pending.
BuySelect(t) ==
    /\ \/ /\ Goto(t, "select", "store")
          /\ InSync(t)
          /\ pending' = pending \cup {conn[t]}
          /\ \/ \E i \in req[t].finds : seen' = [seen EXCEPT ![t] = stock[i]]
             \/ req[t].finds = {} /\ UNCHANGED seen
          /\ UNCHANGED connMutex
       \/ Goto(t, "select", "idle") /\ Unlock /\ UNCHANGED <<pending, seen>>
    /\ UNCHANGED <<sqlVars, req, mixed, tableVars, requests>>

\* What mysql_store_result and mysql_fetch_row return: the row of the SELECT, or
\* one of the answer to another call.
Fetched(t) == IF conn[t] \in mixed THEN Readings
              ELSE IF req[t].finds # {} THEN {seen[t]} ELSE {}

\* mysql_store_result, mysql_fetch_row, stoi(num) > stock: each may end the request.
StoreKeepsGuard(t) ==
    /\ \/ Goto(t, "store", "update") /\ \E k \in Fetched(t) : req[t].asked <= k
       \/ Goto(t, "store", "idle")
    /\ pending' = pending \ {conn[t]}
    /\ UNCHANGED <<sqlVars, req, seen, connMutex, mixed, tableVars, requests>>
BuyStore(t) ==
    /\ \/ /\ Goto(t, "store", "update")
          /\ \E k \in Fetched(t) : req[t].asked <= k
          /\ UNCHANGED connMutex
       \/ Goto(t, "store", "idle") /\ Unlock
    /\ pending' = pending \ {conn[t]}
    /\ UNCHANGED <<sqlVars, req, seen, mixed, tableVars, requests>>

\* stoi() throws for a num that does not begin with a number, and nobody catches it.
BadNumber(t) ==
    /\ tpc[t] = "store"
    /\ Fetched(t) # {}
    /\ ProcessEnds

\* The UPDATE reaches the table: num=num-<the text of num>.
Take(t) ==
    LET takes == req[t].takes IN
    /\ InSync(t)
    /\ stock' = [i \in Rows |-> stock[i] - takes[i]]
    /\ added' = [i \in Rows |-> IF takes[i] < 0 THEN added[i] - takes[i] ELSE added[i]]

\* The buyer is told of as many as were asked for.
Sell(t) ==
    sold' = [i \in Rows |-> IF i \in req[t].finds /\ req[t].asked > 0
                            THEN sold[i] + req[t].asked ELSE sold[i]]

\* The check was for other goods than the UPDATE takes, or the stock it looked
\* at, or the answer given, may belong to another call.
Spoil(t) ==
    spoilt' = IF Plain(req[t]) /\ conn[t] \notin mixed THEN spoilt ELSE spoilt \cup Touched(req[t])

\* mysql_query(UPDATE), and the answer.  An error tells the buyer of a failure,
\* whether or not the table had been written when the connection failed.
SoldOnError(t) ==
    /\ Goto(t, "update", "idle")
    /\ Take(t) \/ UNCHANGED <<stock, added>>
    /\ Sell(t)
    /\ Spoil(t)
    /\ Unlock
    /\ UNCHANGED <<sqlVars, req, seen, pending, mixed, requests>>
BuyUpdate(t) ==
    /\ Goto(t, "update", "idle")
    /\ \/ Take(t) /\ Sell(t)
       \/ Take(t) /\ UNCHANGED sold
       \/ Sell(t) /\ conn[t] \in mixed /\ UNCHANGED <<stock, added>>
       \/ UNCHANGED <<stock, sold, added>>
    /\ Spoil(t)
    /\ Unlock
    /\ UNCHANGED <<sqlVars, req, seen, pending, mixed, requests>>

(* do_show, which takes no mutex *)

ShowQuery(t) ==
    /\ \/ /\ Goto(t, "query", "rows")
          /\ InSync(t)
          /\ pending' = pending \cup {conn[t]}
       \/ Goto(t, "query", "idle") /\ UNCHANGED pending
    /\ UNCHANGED <<sqlVars, req, seen, connMutex, mixed, tableVars, requests>>

ShowRows(t) ==
    /\ Goto(t, "rows", "idle")
    /\ pending' = pending \ {conn[t]}
    /\ UNCHANGED <<sqlVars, req, seen, connMutex, mixed, tableVars, requests>>

--------------------------------------------------------------------------------
\* Two threads about to call the client library on the same connection.
Overlapping(t, u) == {t, u} \subseteq Operating /\ t # u /\ conn[t] = conn[u]
CallRace == \E t, u \in Threads : Overlapping(t, u)

\* Such a call may also wait for an answer that is not to come.
OnMixedUp(t) == t \in Operating /\ conn[t] \in mixed

RaceCrash ==
    /\ ListRace \/ CallRace \/ \E t \in Threads : OnMixedUp(t)
    /\ ProcessEnds

MixUp ==
    /\ ~crashed
    /\ \E t, u \in Threads : Overlapping(t, u) /\ mixed' = mixed \cup {conn[t]}
    /\ UNCHANGED <<sqlVars, tpc, req, seen, connMutex, pending, tableVars, requests>>

ThreadStep(t) ==
    Raii(t) \/ RaiiDone(t) \/ BuyLock(t) \/ BuySelect(t) \/ BuyStore(t) \/ BuyUpdate(t)
    \/ ShowQuery(t) \/ ShowRows(t)

ShopNext ==
    \/ \E t \in Threads :
          \/ ThreadStep(t) \/ OnBadRequest(t) \/ \E r \in Orders \cup {Show} : OnRequest(t, r)
          \/ MissingQuery(t) \/ BadNumber(t)
    \/ RaceCrash \/ MixUp

ShopSpec == ShopInit /\ [][ShopNext]_vars

\* The threads run on; requests need not come.  With MaxRequests bounding the
\* requests, a thread that waits for a mutex or a permit is in the end alone.
ShopFairSpec == ShopSpec /\ \A t \in Threads : WF_vars(~OnMixedUp(t) /\ ThreadStep(t))

--------------------------------------------------------------------------------
(* Properties *)

ShopTypeOK ==
    /\ tpc \in [Threads -> {"idle", "raii", "lock", "select", "store", "update", "query", "rows"}]
    /\ req \in [Threads -> Orders \cup {Show}]
    /\ seen \in [Threads -> Int]
    /\ connMutex \in Threads \cup {NoThread}
    /\ pending \subseteq Nat /\ mixed \subseteq Nat
    /\ stock \in [Rows -> Int] /\ sold \in [Rows -> Nat] /\ added \in [Rows -> Nat]
    /\ spoilt \subseteq Rows
    /\ requests \in Nat

\* The stock never goes below zero, although it is read in one call and taken in
\* another, and the calls of different buyers share connections.  The exception
\* is a row that an UPDATE has reached whose text the two readers of it
\* understand differently, or whose connection was mixed up.
StockNeverNegative == \A i \in Rows \ spoilt : stock[i] >= 0

\* The buyers who were told they got something were not told so of more than
\* there was, whatever failed on the way; with the same exception.
NeverOversold == \A i \in Rows \ spoilt : sold[i] <= Initial[i] + added[i]

\* The inductive invariant: conn_mutex covers do_buy's calls, and what the
\* SELECT returned is still so at the UPDATE, unless the connection is mixed up.
ShopInv ==
    /\ ShopTypeOK
    /\ \A t \in Threads : tpc[t] \in {"select", "store", "update"} <=> connMutex = t
    /\ \A t \in Threads : tpc[t] \in {"lock", "select", "store", "update"} => req[t] \in Orders
    /\ \A t \in Threads : tpc[t] \in {"store", "update"} /\ req[t].finds # {}
                             => \E i \in req[t].finds : seen[t] = stock[i]
    /\ \A t \in Threads : tpc[t] = "update" /\ conn[t] \notin mixed
                             => req[t].finds # {} /\ req[t].asked <= seen[t]
    /\ StockNeverNegative
    /\ \A i \in Rows \ spoilt : stock[i] + sold[i] <= Initial[i] + added[i]

AtomicStore == INSTANCE Store WITH Nums <- {o.asked : o \in {p \in Orders : Plain(p)}}

\* do_buy's SELECT, its comparison and its UPDATE are three calls with other
\* threads' between them, and still a purchase is one step: the stock it was
\* allowed by is the stock it is taken from, and the answer is of that step.
\* One with an odd text, or on a mixed-up connection, reaches only the rows it
\* names or takes from, and every other row goes on as before.
ImplementsStore == AtomicStore!StoreSpec

\* Every request is answered, if the pool has a connection, nothing ends the
\* process and no connection is mixed up: neither the semaphore nor the mutex is
\* kept on any way out.
RequestAnswered ==
    \A t \in Threads : (tpc[t] # "idle" /\ opened > 0) ~> (tpc[t] = "idle" \/ crashed \/ mixed # {})
================================================================================
