# A TLA+ verification project for micro-business-server

The repository holds two programs in C++.

* `src/proxy_server`: a reverse proxy. One thread (the event loop) waits on an edge-triggered epoll,
  accepts clients and hands each readable connection to a pool of worker threads; a worker reads the
  connection and forwards what it read, from a client to a business server or back.
* `src/http_server`: the business servers (`server1`, `server2`), on the muduo library: an incremental
  HTTP parser, a pool of MySQL connections, and a `Task` per request that sells from, or lists, one table.

This directory models their concurrent cores, checks the models with TLC and proves the central facts with
TLAPS. Paths below are relative to `src/`.

## 1. Inventory

| Component | State it keeps | Operations | What makes it correct |
|---|---|---|---|
| `TaskQueue` (`proxy_server/threadpool/TaskQueue.hpp`) | deque, capacity, mutex, two condition variables, `_flag` | `push`, `pop`, `wakeup`, `empty`, `full` | FIFO, nothing lost or handed out twice, `front()` never on an empty queue, no notification lost |
| `Threadpool`, `Thread` | workers, `_isExit`, whether each has a thread | `start`, `addRequest`, `stop`, the worker loop, `join` | each request processed once; `stop()` returns, and only when all is done |
| `EventLoop` | `_clientConns`, `_serverConns`, `_clientTable`, `_forwardingTable`, epoll's event list, `_isLooping` | `connectToBusinessServer`, `loop`, `unloop`, `waitEpollfd`, `handleNewConnection`, `handleMessage`, the destructor | the tables name open connections; no edge is lost; each location has its servers; `stop()` ends the loop |
| `TcpConnection`, `SocketIO` | the socket, `_read_buf` | `process`: `do_client2server`, `do_server2client`; `readn`, `writen` | requests in order, responses to the client they name, closed connections freed |
| Routing: `find_forward_path` | none (a loop over the path) | one call | the longest location that ends at a boundary of the path |
| `Acceptor`, `Socket`, `ProxyServer`, `main` | listening socket, descriptors | `ready`, `accept`, `start` | the listening socket is served for as long as somebody waits |
| Proxy configuration `Parser` (`config.h`) | which block, which brackets, the tables so far | `parse`, `parse_server`, `parse_location`, `parse_upstream` | the tables it builds are those of the file; a damaged file is refused or read as it stands |
| Connection pool: `connection_pool`, `sem` (`http_server`) | list of connections, semaphore, mutex | `init`, `GetConnection`, `ReleaseConnection` | the semaphore counts the list, one owner per connection |
| `Task` (`server1.cc`, `server2.cc`) | `conn_mutex`, the table in MySQL | `onRequest`, `do_buy`, `do_show` | the stock is never oversold; every request is answered |
| `HttpContext`, `HttpRequest`, `HttpServer`, `HttpResponse` | parser state, the request so far | `parseRequest`, `reset`, `onMessage` | a request parses the same however its bytes are split |
| Configuration of the business servers, value classes, queue test | none of their own | | |

How they interact. The event loop's thread and the workers meet in the queue (a mutex and two condition
variables) and in the four tables (no lock at all). A connection object lives as long as some
`shared_ptr` to it: in a table, in the queue, in a thread's hands; its destructor closes the descriptor,
which the kernel then gives to the next client. Clients and business servers are processes that connect,
send and close when they like. In a business server muduo's I/O threads run `Task`s that share the connection pool
(a semaphore, and a mutex on one of its two sides) and `conn_mutex`.

What is hard here: notifications lost between a test and a wait; the same connection in two workers at
once; numbers (descriptors) that outlive what they named; an edge of epoll that is announced once only;
tables updated one by one by different threads; a database connection that is used after it was given back;
calls that fail half-way (`accept()`, a `write()` into a full socket, a database query); an object destroyed
while threads use its members. `PROJECT.json` lists each such place under `hazards` with its line and the
properties aimed at it.

## 2. Modules

```
BoundedFifo            what a bounded queue promises (abstract)
   ^ implements
TaskQueue <--extends-- Threadpool <--extends-- ProxyStop    TaskQueueProofs, ThreadpoolProofs, ProxyStopProofs
ProxyConfig <--extends-- ProxyStart             MCProxyStart; ProxyStartProofs
Sockets     <--extends-- ProxyServer            MCProxyServer; ProxyServerProofs
FindForwardPath                                 MCFindForwardPath; FindForwardPathProofs
HttpServer                                      MCHttpServer; HttpServerProofs
SqlPool     <--extends-- Shop                   MCShop; ShopProofs
                          v implements
                         Store                  what a buyer may rely on (abstract)
```

`ProxyStart`, `ProxyServer` and `ProxyStop` are the life of the proxy: the first ends with the tables the second begins with, the
third is the loop around both.

**BoundedFifo** is the abstract queue: what was accepted, what was delivered, at most `Capacity` between them,
and whether it is closed. `TaskQueue` is shown to implement it with `accepted <- pushed`, `delivered <- taken`,
`closed <- ~flag`.

**TaskQueue** gives each thread a program counter inside `push()` or `pop()`. A critical section nobody can look
into is one step; `pop()` is two, because `_flag` is read twice and `wakeup()` writes it without the
mutex, and going to sleep is a step of its own for the same reason. A wait set is the set of threads whose
program counter says "asleep". Spurious wakeups are an action. `pushed` and `taken` are history.

**Threadpool** extends the queue with `start()` (each `pthread_create` may fail), `addRequest()`, `stop()` in its
four stages and the worker's loop. Each of its steps is a step of `TaskQueue` or leaves the queue's variables
alone, so the queue's theorems hold in the pool. `process()` is one long step here. `stop()` reads the size of the deque without
the mutex while a worker pops, and a deque's size is computed from two iterators: when the element popped is the last of its
block the read can come out as zero (`Misread`, `Block`), and `stop()` then ends with tasks in the queue (`torn`).

**ProxyStop** puts `EventLoop::loop()`, `unloop()` and the destructor around the pool. `_isLooping` is a plain `bool` that the thread calling
`ProxyServer::stop()` clears and `loop()` sets: a call before the loop has begun is undone (`overwritten`). After the
loop the members go in the reverse order of their declaration, `_clientTable` and `_forwardingTable` before `_threadpool`
has joined, so that a worker still in `process()` may meet a destroyed table (`UseDestroyed`).

**ProxyConfig** is `Parser::parse` and its three methods, line by line and within a block word by word, with the code's brackets and
states, including what they forget to reset. `stoi` and the split at the colon are functions given by the instance, which throw
outside their domains. The reference reads the file without a state machine (`ToldPass`, `ToldServers`, `Named`): it counts the
headers and the brackets (`Depth`, `Waiting`) and looks for the last header before a line (`Mark`). It holds for *plain* files
(`Plain`): the words the parser knows stand first on their lines, but for the bracket behind a header and what follows that on the
same line, which nobody reads. A file with two directives on one line is not plain, and of such files only the other properties
speak. *Well-formed* (`WellFormed`) is what `proxyserver.conf` shows: each line is one that may follow those before it.

**ProxyStart** goes on from the parsed tables: the constructors (the port becomes an `unsigned short`, a negative number of threads is too
large for `reserve`, a size nobody set is any number), `ready()` (when `bind()` fails, `listen()` is called all the same and
takes a port of its own), and `connectToBusinessServer` over all locations and their servers.

**FindForwardPath** follows the loop of `find_forward_path` with the `int` indices of the code, -1 for
`npos`; the reference is a definition without a loop (`Matches`: the locations that are a prefix of the path
ending at its end or before a slash, other than the one-character location).

**Sockets** is external: the kernel's sockets, epoll and the peers, from how the proxy uses them. Bytes travel in
segments, the unit one `recv()` returns; a segment of a client begins with a good or a bad request line, a
response is the `Client:` line it carries or none.

**ProxyServer** opens `process()`: each access of a thread to a shared table is a step, descriptors are numbers
that the kernel reuses as soon as the last `shared_ptr` is gone (`Alive`, `FreeFds`), and a null pointer,
a SIGPIPE or a data race ends the process (`crashed`). `accept()` may fail: nobody looks at its result, so the
connection is entered under the number -1 (`AcceptFails`, `Phantom`). A peer that does not read
fills its socket, and `writen` gives up in the middle of a message (`Arriving`, `CountCut`). Conflicting unlocked accesses have the outcomes of
their two orders, or the end of the process (`RaceCrash`). Two events of one connection are two entries of the queue, and two workers may take
them at the same time; `doubled` remembers for which connections that has happened, because they share `_read_buf` then. The queue between the threads is the
bounded FIFO, which `QueueImplementsFifo` justifies.

**SqlPool** is `connection_pool` with its semaphore. `GetConnection` reads the last element and then removes one, without
the mutex; other threads' accesses come in between, and a race may end the process (`ListRaceCrash`).

**HttpServer** is one connection of a business server: `onMessage`, the turns of `parseRequest`'s loop, the request it fills in, and
`reset()`. The stream is a sequence of lines reduced to what the parser tells apart; half a line may have arrived. The
reference (`After`, `Starts`, `Ends`) reads the stream as a whole. A request line with a known method that is refused leaves
the method set, and the next message runs into `setMethod`'s assertion (`AssertFails`); `swap()` leaves the parameters of
the last request in `querys_` (`Swapped`).

**Shop** is a request from `onRequest` to its answer on top of `SqlPool`. `connectionRAII(&conn, pool);` is a
temporary, so the connection is back in the pool before the first query and threads share it; any query may fail, an UPDATE may
fail after it reached the table, and a connection with an unfetched result refuses the next query. The amount is a text with two readers:
`stoi` takes the number in front of it, with its sign, for the check and the answer, and the database the whole text for the UPDATE. The id goes
into both statements as it is. An order is therefore a record: the rows its SELECT finds, the amount asked for as `stoi` reads it, and what
its UPDATE takes off each row. A *plain* order (`Plain`) finds one row and takes from it what was asked; any other is odd.
For a text that does not begin with a number `stoi` throws, and for a parameter that is missing `getQuery`
reads behind the end of a map: both may end the process (`BadNumber`, `MissingQuery`). `conn_mutex` keeps buyers apart, but `do_show` does not
take it: when its calls meet another thread's on one connection (`CallRace`), they come one after the other, or end the process, or leave the connection
mixed up (`MixUp`). A call on a mixed-up connection may read the answer to another one (`Fetched`, `Readings`), believe in an UPDATE that did
not happen, end the process, or never return. `spoilt` remembers the rows reached by an UPDATE that was odd or on such a connection.

**Store** is the abstract shop: what is left of each row, what buyers were told they got, what negative amounts put back. A purchase looks
at the stock and takes from it in one step. It promises nothing for a row that is spoilt, and spoiling one row leaves all others alone. `Shop` is shown
to implement it, its variables of the same names being the interface: the purchase is the UPDATE, and the calls before it are stutters.

`MC*` modules give the constants the small values a `.cfg` cannot write, and the symmetry set. A definition that a module's header lists as
"mistaken" (for instance `PopTestFlagOnly` before `PopTest`) is not part of the specification: `PROJECT.json` pairs
each property with one of them, and the property fails once it replaces the correct definition.

## 3. Runs

All bounds are constants; `CHECK_DEADLOCK FALSE` is there because each system may really stop (no
producer left, pool stopped, peers silent).

| Run | Bounds | What it shows |
|---|---|---|
| `queue` | 2 producers, 2 consumers, capacity 1, 2 tasks, no push begins after 2, 1 spurious wakeup, fair threads | the inductive invariant, `front()` never on an empty queue, no stranded consumer or producer, the refinement to `BoundedFifo`; tasks are handed out and blocked pushes return until `wakeup()` |
| `pool` | Main, 2 workers that may fail to start, capacity 2, blocks of 2, 3 requests, 1 call of `stop()` at any time besides the destructor's, 1 spurious wakeup, fair threads | from `start()` to the end of `~EventLoop`: each request in one place and processed once a worker runs; the proxy ends, with all of them processed, and an idle one without touching a destroyed table; the exceptions (`torn`, `overwritten`, a missed wakeup, `crashed`) are named |
| `path` | every path of up to 5 characters over `/`, `a`, `b`; every table of up to 2 locations of up to 3 | the longest location is found and the loop ends |
| `config` | 12 files in the layouts of the shipped one, 17 odd ones, each also cut after, without, with twice and with another word for any one line; any of 3 endpoints may answer; one thread, fair (165 thousand states) | what is accepted is balanced and gives the tables its lines say; a well-formed file is not refused; each location gets the connection, or -1, for each server of its upstream, in order, and no other's; start-up ends |
| `proxy_tables` | 2 clients, 1 server, 2 workers, 1 segment each, 3 closes by anyone, `accept()` may fail (2.4 million states with symmetry) | the tables name open connections, the two client tables agree, no edge is lost; a response goes to the client it was looked up for, or that one has closed |
| `proxy_order` | 1 client with 2 good or bad segments, 2 servers, each up or down at start-up, responses with or without the `Client:` line, 2 workers, 2 closes, 1 write cut short (6.3 million states with symmetry) | until two workers have a connection at once its segments are forwarded once and in order, none skipped while the servers are there; the second server gets requests only after the first has left |
| `proxy_live` | 2 clients, 1 worker, 1 close, good or bad segments, `accept()` may fail, 1 write cut short, fair threads (140 thousand states) | requests are forwarded, connections of closed peers freed |
| `http` | every stream of 5 lines out of 10 (requests with and without a parameter, HTTP/1.0, a bad version, headers, `Connection` with three values, an empty line), cut anywhere (5.0 million states) | the requests handed on are those of the stream read as a whole; each message answers one if one is complete; a parameter a request names is never replaced by an older one; answers are held back behind a close and only there |
| `shop` | 2 threads, 2 connections of which 0 to 2 open, 2 rows with a stock of 2 and of 1; orders of -1 and 2 of the one and 1 of the other, one without a row, one of the text `1e1`; a strange answer reads 0 or 2; 3 requests, failing calls, fair threads (1.3 million states) | the semaphore counts the list; a connection has one owner unless the list changes hands between `back()` and `pop_back()`; in rows that are not spoilt the stock stays positive and is not oversold; the refinement to `Store`; no way out keeps the permit or the mutex |
| `proxy_backup` (violation) | 2 servers, the first may be down | requests go to the -1 in the table with the backup up |
| `proxy_coalesced` (violation) | 2 clients, 1 worker | two responses read together go to one client |
| `http_assert` (violation) | every stream of 2 lines | a refused request line leaves the method set, and the next message fails the assertion of `setMethod` |

Why the bounds are enough to be interesting. In the queue, capacity 1 with two threads on each side fills and
empties it and puts two threads to sleep on the same condition variable, and one spurious wakeup makes
a thread take what another was woken for. In the proxy, two clients are what it takes to reuse a
number and to share a server connection; two workers are what it takes
to run `process()` on one connection twice at once; a queue of 2 fills with two clients and a server
active. In the shop, a stock of 2 is sold out by one purchase of 2 while the
other thread buys, lists or gives back; the second row has to go on while the first is spoilt, and `1e1`, which the check reads as 1 and
the database as 10 (the run takes 3, as much more than the stock as it needs), spoils it. In the pool, a block of 2 is the
smallest deque on which a pop crosses the end of a block with a task left. In the configuration, one damaged line is enough to
open, close or repeat each kind of block out of turn. For every safety property of the passing runs
the theorems below remove the bounds.

The three violations are each a disagreement between what a comment, a configuration file or an assertion of the
repository says and what the code does; `PROJECT.json` quotes both lines. More weaknesses show in the
shape of passing properties instead:

* `StopEndsProxy` names the states in which `stop()` does not end the proxy: `wakeup()` clears `_flag` and notifies without the
  mutex, so a worker between its test and its wait sleeps through the notification; a call before `loop()` sets `_isLooping` is
  undone. `StopCompletesTasks` excepts the misread size, `IdleStopIsSafe` says that only a proxy with work left meets a destroyed table.
* `TablesNameLiveConns` and `ClientTablesAgree` carry the -1 a failed `accept()` leaves: it stays in both tables, and a response for
  a client whose entry is -1 is lost.
* `do_show` uses the database without `conn_mutex`, which `server1.cc:27` says is for that.
* `StockNeverNegative` and `NeverOversold` except the rows in `spoilt`: the check and the UPDATE read the text of the order each in its own way, and
  a call of `do_show` can mix up the connection of a purchase. They, and `ImplementsStore`, say that nothing else goes wrong: not when two buyers want the last
  piece, not when a call fails between the others, and not in the rows beside a spoilt one. A query on a connection with an unread result is refused.
* `LookupValidUntilClosed` says when a response goes to the wrong client by the reuse of a number: with two workers the look-up and the send are two unlocked
  steps, and the number may go to another client in between, but only if the first has closed its connection.
* `ForwardedInOrder` speaks of the clients whose connection never was with two workers at once (`doubled`). Those two workers share one `_read_buf`, and
  what they send may be lost, repeated or in another order.
* `RequestForwarded` also excepts a client in the backlog: one `accept()` is made per edge of the listening socket, so that a second
  connection that completes before the event is handled waits for a third.
* `RequestForwarded` excepts connections whose buffer begins with a bad line: after a 404 `_read_buf` keeps it. In the same way, a
  response for a client that has left stays in the server connection's buffer, ahead of all later ones.

### Fairness

* `TaskQueue`: the thread that holds the mutex runs on; a free mutex is taken by some thread that asks for it,
  with no promise to any one (POSIX mutexes promise no more); consumers call `pop()` again, as the worker loop does;
  `wakeup()`, once begun, ends. Nothing makes anybody push or call `wakeup()`.
* `ProxyStop`: the main thread and the workers run on, `process()` returns, `epoll_wait` returns at the latest after its five seconds, and a free
  mutex is taken by some thread that asks for it. Nothing makes anybody connect or call `stop()`.
* `ProxyStart`: the one thread runs on.
* `ProxyServer`: weak fairness of the main thread and of each worker, as the scheduler of the operating
  system gives; none for clients and servers, who may stay silent for ever.
* `Shop`: weak fairness of each thread, but for one whose call is on a mixed-up connection, which may wait for an answer that does not come; `MaxRequests` bounds the requests, so that a thread waiting for the mutex
  is in the end the only one, and a mutex without a queue is enough.
* `FindForwardPath`: the loop runs on. `HttpServer` has no liveness property: that a message is over with nothing left to
  answer is the invariant `MessageAnswersOne`.

## 4. Proofs

All theorems are for every value of the constants that the modules' `ASSUME`s allow. Those say: the sets of threads
are finite, producers and consumers are disjoint, the special values (`NoThread`, `NoTask`, `Phantom`, `Nobody`) are not
threads, tasks or peers, sizes are natural numbers, the first character of a location in the table is a slash, no server is
twice in the upstream; in the pool, `Producers = {Main}`; in the shop, the initial stock is natural, and an order finds any rows, asks for any integer and takes any integer off each row; in the configuration, the text of a
number or an address is no word the parser knows (`stoi` refuses those words, and none has a colon). TLC evaluates them on
every run. Several inductive invariants are larger than a run needs to check at every state and are only proved
(`PoolInv`, `StopInv`, `StartInv`, `PathInv`, `ShopInv`, those of `ProxyServerProofs`, `HttpServerProofs` and `ProxyStartProofs`).

* **TaskQueueProofs.** `QueueInv` is inductive: mutual exclusion (`MutexInv`), the queue is what was pushed and not
  taken (`ContentInv`), what `pop()` read stays true while it holds the mutex (`TestedInv`, `FrontExists`), and two counting
  invariants. `ConsumersNotStranded` alone is not inductive: a step that takes a task could leave one more behind
  than there are threads awake. `ConsumersSuffice` (while somebody sleeps, at least as many consumers are awake
  as there are tasks) and `ProducersSuffice` (the same with free slots) are; each `notify_one` adds one awake thread for the
  one task or slot it announces. From it: `FrontAlwaysExists`, `NoConsumerStranded`, `NoProducerStranded`, and
  `QueueImplementsFifo` (the initial state maps to an initial state, every step to a step of `BoundedFifo` or
  a stutter).
* **ThreadpoolProofs.** `PoolImplementsQueue`: every step of the pool is a step of the queue, so `[]QueueInv` holds there too.
  `PoolInv` then ties the workers' program counters to the queue's and counts the requests in flight; `NoRequestLost`,
  `StopFinishesEverything` and `NoRequestRefused` follow, the last two unless the size was misread.
* **ProxyStopProofs.** `ProxyStopImplementsPool`: the loop and the destructors use the pool as it may be used, so the pool's theorems hold
  for the life of the proxy. `StopInv` says that nothing is pushed once the loop has ended, so that what is unfinished can only
  shrink; with it `IdleStopSafe`.
* **ProxyStartProofs.** The parser enters a location before it is the current one (`ParserNamesExist`), and the numbers given out are the
  interval from `FirstFd` on, each to one connection (`StartInv`), so that no two entries of the forwarding table share one
  (`StartEntriesOwnTheirConns`). What the parser makes of a file needs an invariant that goes along with the lines: `ParseInv` says
  that the state follows from some first lines of the file, those handled so far (`ReadTo`). The block and its brackets are what these
  lines leave open (`Stands`), the current name is that of the last header (`Marks`), the tables are what they say (`Tells`). For each definition of the
  reference a lemma says what one more line makes of it (`MarkMore`, `LinesInMore`, `DepthMore`, `ListsMore`, ...), for each step of the
  parser another that the state follows it (`ServerNameFollows`, `CloseBlockFollows`, ...). The words of a line are no matter
  of an invariant over words: on a plain line the first word is the only one that counts, and what is left behind it is `Quiet`. When
  the file is accepted all lines have been handled (`ParsedInv`): `ParserFollowsFile` and `ParserAcceptsBalanced`. `RowsInv`
  carries this to the forwarding table, row by row and place by place, with the start-up in any order of the locations:
  `StartedLocationsHaveTheirServers`. For `ProperFilesStart` the invariant gives that the next line of a well-formed file suits the block the
  parser is in (`NextFits`), so that each method finds a word it knows, the value it wants, and nothing behind it; the start-up throws
  nothing since every endpoint in the tables stands on a line of the file. The theorems have no hypothesis beyond those of the
  properties: `Plain(Lines)`, and `WellFormed(Lines)` with `Startable(Lines)`.
* **ProxyServerProofs.** That the tables name open connections is not inductive: it rests on the numbers of open connections being
  distinct and at least `FirstFd` (`FdInv`: nothing is opened twice, the backlog holds nobody with a number), on what the main
  thread has in its hand between two insertions (`MainInv`), on every connection a worker holds being open, and closed ones being
  forgotten only by the worker that saw the end (`WorkInv`), and on the two pairs of tables naming nothing else (`ClientInv`,
  `ServerInv`). Together with the types they are `TablesInv`; `NumbersMeanConnections` and `ClientTablesMatch` follow, with any number
  of workers. `NothingStranded` adds that a connection not yet in the tables is announced too (`StrandedInv`), `BackupLast` that the numbers
  left in the forwarding table are in the order of the configuration (`ServersInOrder`) and a request about to be sent goes to the
  first of them (`SendsToFirst`). `LookupsHoldUntilClosed` needs that between
  look-up and send the number is still that of the connection found, or that connection's end of stream has been read (`Found`, `LookupInv`); a worker forgets
  a client only then. `OrderInv` follows each segment of a connection in `Single` (never with two workers at once) through inbox, buffer, message and history:
  each part is in order, and the last of each comes before the first of the next. A step of a worker that has another connection in its hands leaves
  all four alone (`OtherClients`, `OthersMsg`), so that `OrderHolds` is for any number of workers.
* **FindForwardPathProofs.** `PathInv` says that no boundary skipped so far ends a matching location
  (`NothingSkipped`); at the end that is `LongestMatch`.
* **HttpServerProofs.** The reference `After` is a recursive function; the proofs need only its value at 0 and how each value follows from
  the one before, which `AfterUnfolds` shows for a stream of any length (a smallest length without such a function would have one).
  `StreamInv` is the invariant: `state_` is the reference's state after the lines read (`StateInv`), the requests begun and ended in
  what has been read are counted by the answers (`CountInv`), and the request under construction has the headers since its own request
  line (`HeadersInv`). From it `AnswersAreTheStreams`; with `Stuck` (a refused line stays in the buffer, and nothing is
  answered any more) `ClosedOnlyWhenTold` and `EveryMessageAnswersOne`; with where each parameter came from `OwnParamsFirst`.
* **ShopProofs.** `PermitsBacked`: the list is as long as the semaphore's count plus the threads between the
  semaphore and the list. It is inductive although the list is raced over, because every access changes the length by one whoever's
  element it takes; hence `ListNeverEmptyAtBack`. `OneOwner`: until a list has changed hands between a `back()` and its
  `pop_back()`, what `back()` returned is still the last element, nothing is in the list twice, and what is not in it has one holder (`OwnInv`).
  `ShopInv` says that `conn_mutex` covers the three calls of `do_buy`, that the stock its SELECT returned
  is still that of a row it found, and, unless the connection is mixed up, that what was asked for is there. For an UPDATE that is plain and not mixed up
  that is enough (`PlainUpdate`, `StillEnough`); any other one adds the rows it reaches to `spoilt` and leaves the others alone
  (`OtherRows`, `UpdateStep`). With it the stock stays positive (`StockStaysPositive`) and
  `NothingOversold` counts what buyers were told against what there was. `PoolSteps` shows that every step of the shop
  is one of the pool, leaves it alone, or ends the process, so the pool's invariants hold in the shop.
  `ShopImplementsStore` (`StoreStep`): `BuyUpdate` is a purchase of the store, because `ShopInv` has the stock of the SELECT unchanged and
  checked, or the step `SpoilRows` of the rows it reaches; every other step leaves the table alone. No theorem of the module has a hypothesis about the orders.

Only model-checked: liveness, under fairness and so out of the prover's reach (`PushReturns`, `RequestServed`, `StopEndsProxy`, `SearchEnds`,
`StartEnds`, `RequestForwarded`, `ClosedPeerReleased`, `RequestAnswered`), and the refutations. Every safety property of a passing run
is stated by a theorem.

## 5. Abstractions, and what is not modelled

* A segment is what one `recv()` returns, and a response is one segment; a segment's text is "good" or "bad", decided as the code
  does by the first line of `_read_buf`. One location, to which every good path leads; the search itself is `FindForwardPath`, and the tables
  for several locations are `ProxyStart`.
* Half a segment in `_read_buf`, and the loop that looks for the end of a line at `TcpConnection.cc:109`, are not modelled: a segment begins
  with a whole line.
* Each client connects once; the bounds are `MaxSegments`, `MaxCloses`, `MaxCuts`, `MaxPush`, `MaxSpurious`, `MaxStops`, `MaxRequests`.
* A peer closes both directions at once. A business server closes its connection to the proxy at any time; that it does so because a
  client asked for `Connection: close` is one of those closes. `epoll_ctl` failing for an open socket is not modelled.
* A data race on a map or a list is one of the two orders, or the end of the process; so is one on `_read_buf`, `_path` or `_business_code` when two workers
  have one connection. `ResponseToItsClient` is refuted with one worker, so not by such a race; the liveness properties of
  `proxy_live` speak of one worker only, since two that share a connection may lose a request.
* `stop()` and the destructors are modelled around the pool, with `process()` as one step (`ProxyStop`), not inside `ProxyServer`; no
  program of the repository calls `stop()`.
* In the configuration a word is a string and the text of comments is left out; a word glued to a bracket is a word of its own, as in the code.
* The database answers each call with success or failure, nondeterministically. What an odd text may do is limited to a fixed amount off each row: one that
  would set other columns, or an amount that depends on the stock, is not modelled. The wording of pages and memory not freed
  (the result of `do_buy` at `server1.cc:77`) are left out.
* A client's line has one parameter name at most in the instance; the map of headers is the set of lines it was made from.
  `HttpServer` and `Shop` are not composed: `Shop` takes any request at any time, so it covers those that `HttpServer` hands on.
* Not to be modelled: `getopt` into three integers (`http_server/config.cpp`), the singleton's destructor at the end of the business servers,
  value classes without state (`InetAddress`, `Noncopyable`), socket options, functions without a caller (`shutdownWrite`,
  `isClosed`, `receive`), log lines and the layout of responses, the test programs.

## 6. Plan

Done: every component of both programs that keeps state has a module, a run and a proof. Left:

1. `process()` opened inside `ProxyStop`, to tell which of its accesses meet a destroyed table; today any may.
2. Two locations with one client each in `ProxyServer`: `do_server2client` takes a lost connection out of every location.
3. Half segments and lines that are cut by a `recv()`, with the search for the end of the line at `TcpConnection.cc:109`.
4. `HttpServer` and `Shop` composed through a queue of requests, and both with `ProxyServer` in place of the servers in `Sockets`.
5. A theorem that the tables `ProxyStart` ends with are those `ProxyServer` begins with, for the one location `ProxyServer` has.
