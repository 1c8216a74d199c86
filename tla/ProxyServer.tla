------------------------------ MODULE ProxyServer ------------------------------
(***************************************************************************)
(* The reverse proxy: EventLoop (the main thread: epoll, accept, dispatch), *)
(* TcpConnection::process (the worker threads) and the four tables they     *)
(* share without a lock.  The queue between them is the bounded FIFO that   *)
(* TaskQueue is proved to implement; the pool is not stopped, as in main(). *)
(*                                                                         *)
(* A TcpConnection is named by its peer, and a table holds names where the  *)
(* code holds shared_ptrs.  File descriptors are numbers, reused by the     *)
(* kernel, in _clientTable, in _forwardingTable, in epoll's event list and  *)
(* in the workers' locals: there they outlive the connection they came      *)
(* from.  The configuration has one location, to which every "good" path    *)
(* leads (FindForwardPath models the search).                               *)
(*                                                                         *)
(* Each access of a thread to a shared table is a step of its own.  Two     *)
(* threads about to make conflicting accesses to the same object are a data *)
(* race, whose outcomes are those of the two orders, or the end of the      *)
(* process.                                                                 *)
(*                                                                         *)
(* WaitEventsHup, AddressWithoutPort, FindServerConn, AddRequestUnbounded,  *)
(* RecvOnce, ClientGoneKeeps, ClientRemembered, BackServer,                 *)
(* ServerRemembered and BufferKept are mistaken forms of the definition     *)
(* after each: no part of ProxyNext, they show that the properties can fail.*)
(***************************************************************************)
EXTENDS Sockets

CONSTANTS Workers,    \* the threads of the pool
          QueSize,    \* the capacity of the task queue
          FirstFd,    \* the lowest number the kernel can give to a connection
          ListenFd,   \* the listening socket's number
          Reachable,  \* the sets of servers that may answer connect() at start-up
          Phantom,    \* the connection object made from a failed accept()
          AcceptMayFail, \* whether accept() may fail, as it does without a free descriptor
          MaxCuts,    \* bound: writes that find the socket's buffer full
          Nobody      \* no connection

ASSUME ProxyAssumption ==
    /\ QueSize \in Nat /\ FirstFd \in Nat /\ ListenFd \in Nat /\ ListenFd < FirstFd
    /\ Reachable \subseteq SUBSET Servers
    /\ Nobody \notin Conns /\ Phantom \notin Conns \cup {Nobody}
    /\ AcceptMayFail \in BOOLEAN /\ MaxCuts \in Nat

VARIABLES clientConns,  \* _clientConns: number -> connection
          serverConns,  \* _serverConns: number -> connection
          clientTable,  \* _clientTable: client address -> number
          forwarding,   \* _forwardingTable[location]: numbers in configuration order
          mpc,          \* where the main thread is
          events,       \* what is left of the event list epoll_wait returned
          hand,         \* the connection the main thread is working on
          que,          \* the task queue
          readBuf,      \* _read_buf of each connection
          wpc,          \* where each worker is
          job,          \* the connection each worker processes
          msg,          \* new_message of each worker: the segments it forwards
          local,        \* the worker's local variables client and fd
          crashed       \* "no", or how the process ended

VARIABLES forwarded,    \* history: the segments of each client that reached a server
          delivered,    \* history: responses written to a client
          lost,         \* history: requests written to a number that is no connection
          cut,          \* history: messages of which the end was dropped
          doubled       \* history: connections two workers have had in hand at once

tableVars == <<clientConns, serverConns, clientTable, forwarding>>
mainVars  == <<mpc, events, hand>>
workVars  == <<readBuf, wpc, job, msg, local>>
histVars  == <<forwarded, delivered, lost, cut, doubled>>
vars == <<backlog, fd, inbox, fin, rst, ready, sends, atServer,
          clientConns, serverConns, clientTable, forwarding, mpc, events, hand, que,
          readBuf, wpc, job, msg, local, crashed, forwarded, delivered, lost, cut, doubled>>

\* A connection object exists as long as a shared_ptr to it does: in a table,
\* in the queue, in the main thread's or a worker's hands.  Its socket is open,
\* and watched by epoll, exactly as long (Socket::~Socket closes it).
Alive == Conns \cap (Range(clientConns) \cup Range(serverConns) \cup ToSet(que)
                       \cup Range(job) \cup {hand})

\* The number no open socket has, with none free below it.
FreeFds == {n \in FirstFd .. FirstFd + Cardinality(Conns) :
               /\ \A c \in Alive : fd[c] # n
               /\ \A m \in FirstFd .. n - 1 : \E c \in Alive : fd[c] = m}

NoLocals == [client |-> NoClient, fd |-> NoFd]

Without(f, k) == Restrict(f, DOMAIN f \ {k})
With(f, k, v) == [x \in DOMAIN f \cup {k} |-> IF x = k THEN v ELSE f[x]]

--------------------------------------------------------------------------------
(* Start-up: connectToBusinessServer, then the pool and the loop. *)

\* connectToOneBusinessServer gives -1 for a server that does not answer, and
\* the table, epoll and the connection map get the -1 like any number.
StartFd(up) ==
    [i \in DOMAIN Upstream |->
        IF Upstream[i] \in up
        THEN FirstFd + Cardinality({j \in 1 .. i - 1 : Upstream[j] \in up})
        ELSE NoFd]

ProxyInit ==
    \E up \in Reachable :
        LET at == StartFd(up) IN
        /\ fd = [c \in Conns \cup {Phantom} |-> IF c \in up THEN at[CHOOSE i \in DOMAIN Upstream : Upstream[i] = c]
                                 ELSE NoFd]
        /\ forwarding = at
        \* map::insert keeps the first connection inserted under a number.
        /\ serverConns = [n \in Range(at) |->
               Upstream[CHOOSE i \in DOMAIN at : at[i] = n /\ \A j \in 1 .. i - 1 : at[j] # n]]
        /\ clientConns = <<>> /\ clientTable = <<>>
        /\ backlog = <<>> /\ ready = <<>> /\ fin = {} /\ rst = {}
        /\ inbox = [c \in Conns |-> <<>>] /\ sends = [c \in Clients |-> 0]
        /\ atServer = [x \in Servers |-> <<>>]
        /\ mpc = "wait" /\ events = <<>> /\ hand = Nobody
        /\ que = <<>> /\ readBuf = [c \in Conns |-> <<>>]
        /\ wpc = [w \in Workers |-> "pop"] /\ job = [w \in Workers |-> Nobody]
        /\ msg = [w \in Workers |-> <<>>]
        /\ local = [w \in Workers |-> NoLocals]
        /\ crashed = "no" /\ lost = 0 /\ cut = 0 /\ delivered = {} /\ doubled = {}
        /\ forwarded = [c \in Clients |-> <<>>]

--------------------------------------------------------------------------------
(* The main thread: EventLoop *)

NextEvent == mpc' = "dispatch" /\ events' = Tail(events)

\* waitEpollfd: all that is ready, in order.  An event that is not exactly
\* EPOLLIN (a reset adds EPOLLERR and EPOLLHUP) is left out by the loop; nor is
\* there one for a socket that has been closed since.
NoEvent == -2
Reported(x, dropped) ==
    IF x = Listener THEN ListenFd ELSE IF x \in Alive \ dropped THEN fd[x] ELSE NoEvent

WaitEventsHup ==
    /\ mpc = "wait"
    /\ ready # <<>>
    /\ events' = [i \in DOMAIN ready |-> Reported(ready[i], fin)]
    /\ ready' = <<>>
    /\ mpc' = "dispatch"
    /\ UNCHANGED <<backlog, fd, inbox, fin, rst, sends, atServer, tableVars, hand, que, workVars,
                   crashed, histVars>>
WaitEvents ==
    /\ mpc = "wait"
    /\ ready # <<>>
    /\ events' = [i \in DOMAIN ready |-> Reported(ready[i], rst)]
    /\ ready' = <<>>
    /\ mpc' = "dispatch"
    /\ UNCHANGED <<backlog, fd, inbox, fin, rst, sends, atServer, tableVars, hand, que, workVars,
                   crashed, histVars>>

EventsDone ==
    /\ mpc = "dispatch"
    /\ events = <<>>
    /\ mpc' = "wait"
    /\ UNCHANGED <<netVars, tableVars, events, hand, que, workVars, crashed, histVars>>

\* handleNewConnection, one accept() for one event: the new socket is watched
\* from here on, and what it already holds is an edge.
Accept ==
    /\ mpc = "dispatch"
    /\ events # <<>> /\ Head(events) = ListenFd
    /\ backlog # <<>>
    /\ LET c == Head(backlog) IN
          /\ \E n \in FreeFds : fd' = [fd EXCEPT ![c] = n]
          /\ hand' = c
          /\ ready' = IF inbox[c] # <<>> \/ c \in fin THEN Edge(c) ELSE ready
    /\ backlog' = Tail(backlog)
    /\ mpc' = "insert"
    /\ UNCHANGED <<inbox, fin, rst, sends, atServer, tableVars, events, que, workVars, crashed,
                   histVars>>

\* accept() returns -1, the client stays in the backlog, and a connection is
\* made of the -1 like of any number.
AcceptFails ==
    /\ AcceptMayFail
    /\ mpc = "dispatch"
    /\ events # <<>> /\ Head(events) = ListenFd
    /\ hand' = Phantom
    /\ mpc' = "insert"
    /\ UNCHANGED <<netVars, tableVars, events, que, workVars, crashed, histVars>>

\* _clientConns.insert
InsertConn ==
    /\ mpc = "insert"
    /\ clientConns' = IF fd[hand] \in DOMAIN clientConns THEN clientConns
                      ELSE With(clientConns, fd[hand], hand)
    /\ mpc' = "table"
    /\ UNCHANGED <<netVars, serverConns, clientTable, forwarding, events, hand, que, workVars,
                   crashed, histVars>>

\* _clientTable[ip_port] = peerfd.  getpeername(-1) leaves the address as it was
\* on the stack: some client's, that of the last one for instance, or nobody's.
AddressWithoutPort ==
    /\ mpc = "table"
    /\ clientTable' = [c \in (DOMAIN clientTable \cup {hand}) \ {Phantom} |-> fd[hand]]
    /\ hand' = Nobody
    /\ NextEvent
    /\ UNCHANGED <<netVars, clientConns, serverConns, forwarding, que, workVars, crashed, histVars>>
SetClientTable ==
    /\ mpc = "table"
    /\ \/ hand # Phantom /\ clientTable' = With(clientTable, hand, fd[hand])
       \/ /\ hand = Phantom
          /\ clientTable' \in {clientTable} \cup {With(clientTable, c, NoFd) : c \in Clients}
    /\ hand' = Nobody
    /\ NextEvent
    /\ UNCHANGED <<netVars, clientConns, serverConns, forwarding, que, workVars, crashed, histVars>>

\* handleMessage: the number is looked up among the clients, then the servers.
FindServerConn ==
    /\ mpc = "dispatch"
    /\ events # <<>> /\ Head(events) # ListenFd
    /\ LET n == Head(events) IN
          \/ /\ n \in DOMAIN serverConns
             /\ hand' = serverConns[n] /\ mpc' = "push" /\ UNCHANGED events
          \/ n \notin DOMAIN serverConns /\ NextEvent /\ UNCHANGED hand
    /\ UNCHANGED <<netVars, tableVars, que, workVars, crashed, histVars>>
FindMessageConn ==
    /\ mpc = "dispatch"
    /\ events # <<>> /\ Head(events) # ListenFd
    /\ LET n == Head(events) IN
          \/ /\ n \in DOMAIN clientConns
             /\ hand' = clientConns[n] /\ mpc' = "push" /\ UNCHANGED events
          \/ /\ n \notin DOMAIN clientConns /\ n \in DOMAIN serverConns
             /\ hand' = serverConns[n] /\ mpc' = "push" /\ UNCHANGED events
          \/ /\ n \notin DOMAIN clientConns \cup DOMAIN serverConns
             /\ NextEvent /\ UNCHANGED hand
    /\ UNCHANGED <<netVars, tableVars, que, workVars, crashed, histVars>>

\* addRequest: the loop stops here while the queue is full.
AddRequestUnbounded ==
    /\ mpc = "push"
    /\ que' = Append(que, hand)
    /\ hand' = Nobody
    /\ NextEvent
    /\ UNCHANGED <<netVars, tableVars, workVars, crashed, histVars>>
AddRequest ==
    /\ mpc = "push"
    /\ Len(que) < QueSize
    /\ que' = Append(que, hand)
    /\ hand' = Nobody
    /\ NextEvent
    /\ UNCHANGED <<netVars, tableVars, workVars, crashed, histVars>>

--------------------------------------------------------------------------------
(* A worker: TcpConnection::process, one step per shared access *)

Goto(w, l) == wpc' = [wpc EXCEPT ![w] = l]

\* process() returns: its locals are gone and the worker drops its shared_ptr.
Done(w) ==
    /\ Goto(w, "pop")
    /\ job' = [job EXCEPT ![w] = Nobody]
    /\ msg' = [msg EXCEPT ![w] = <<>>]
    /\ local' = [local EXCEPT ![w] = NoLocals]

\* write() on connection c: a peer that has closed answers with a reset, and
\* the write after that raises SIGPIPE, which nobody handles.
Written(c) ==
    /\ rst' = IF c \in fin THEN rst \cup {c} ELSE rst
    /\ crashed' = IF c \in rst THEN "sigpipe" ELSE crashed
Reaches(c) == fd[c] # NoFd /\ c \notin fin

\* writen: what arrives of a message.  When the socket's buffer is full write()
\* fails with EAGAIN, and the rest is dropped; the caller does not look.
Arriving(m) == {m} \cup {p \in {SubSeq(m, 1, k) : k \in 0 .. Len(m) - 1} : cut < MaxCuts}
CountCut(m, part) == cut' = IF part = m THEN cut ELSE cut + 1

WorkerPop(w) ==
    /\ wpc[w] = "pop"
    /\ que # <<>>
    /\ job' = [job EXCEPT ![w] = Head(que)]
    /\ que' = Tail(que)
    /\ doubled' = IF Head(que) \in Range(job) THEN doubled \cup {Head(que)} ELSE doubled
    /\ Goto(w, "recv")
    /\ UNCHANGED <<netVars, tableVars, mainVars, readBuf, msg, local, crashed, forwarded, delivered,
                   lost, cut>>

\* SocketIO::readn: what is there is read; then EAGAIN, or the end of the stream.
RecvOnce(w) ==
    /\ wpc[w] = "recv"
    /\ LET c == job[w] IN
          \/ /\ inbox[c] # <<>>
             /\ readBuf' = [readBuf EXCEPT ![c] = Append(@, Head(inbox[c]))]
             /\ inbox' = [inbox EXCEPT ![c] = Tail(@)]
             /\ Goto(w, "parse")
          \/ /\ inbox[c] = <<>> /\ c \notin fin
             /\ Goto(w, "parse")
             /\ UNCHANGED <<readBuf, inbox>>
          \/ /\ inbox[c] = <<>> /\ c \in fin
             /\ Goto(w, IF c \in Clients THEN "clientGone" ELSE "serverGone")
             /\ UNCHANGED <<readBuf, inbox>>
    /\ UNCHANGED <<backlog, fd, fin, rst, ready, sends, atServer, tableVars, mainVars, que, job, msg,
                   local, crashed, histVars>>
Recv(w) ==
    /\ wpc[w] = "recv"
    /\ LET c == job[w] IN
          \/ /\ inbox[c] # <<>>
             /\ readBuf' = [readBuf EXCEPT ![c] = Append(@, Head(inbox[c]))]
             /\ inbox' = [inbox EXCEPT ![c] = Tail(@)]
             /\ UNCHANGED wpc
          \/ /\ inbox[c] = <<>> /\ c \notin fin
             /\ Goto(w, "parse")
             /\ UNCHANGED <<readBuf, inbox>>
          \/ /\ inbox[c] = <<>> /\ c \in fin
             /\ Goto(w, IF c \in Clients THEN "clientGone" ELSE "serverGone")
             /\ UNCHANGED <<readBuf, inbox>>
    /\ UNCHANGED <<backlog, fd, fin, rst, ready, sends, atServer, tableVars, mainVars, que, job, msg,
                   local, crashed, histVars>>

(* do_client2server *)

\* _clientConns.erase(_sock.fd())
ClientGoneKeeps(w) ==
    /\ wpc[w] = "clientGone"
    /\ Goto(w, "clientForget")
    /\ UNCHANGED <<netVars, tableVars, mainVars, que, readBuf, job, msg, local, crashed, histVars>>
ClientGone(w) ==
    /\ wpc[w] = "clientGone"
    /\ clientConns' = Without(clientConns, fd[job[w]])
    /\ Goto(w, "clientForget")
    /\ UNCHANGED <<netVars, serverConns, clientTable, forwarding, mainVars, que, readBuf, job, msg,
                   local, crashed, histVars>>

\* _clientTable.erase(_peerAddr.ip_port()); return
ClientRemembered(w) ==
    /\ wpc[w] = "clientForget"
    /\ Done(w)
    /\ UNCHANGED <<netVars, tableVars, mainVars, que, readBuf, crashed, histVars>>
ClientForget(w) ==
    /\ wpc[w] = "clientForget"
    /\ clientTable' = Without(clientTable, job[w])
    /\ Done(w)
    /\ UNCHANGED <<netVars, clientConns, serverConns, forwarding, mainVars, que, readBuf, crashed,
                   histVars>>

\* error_handle: the answer is 404, and _read_buf keeps what is in it.
NotFound(w) ==
    /\ Written(job[w])
    /\ Done(w)
    /\ UNCHANGED <<backlog, fd, inbox, fin, ready, sends, atServer, tableVars, mainVars, que,
                   readBuf, histVars>>

\* parse_request_line looks at the first line only; an empty buffer has none.
GoodRequest(buf) == buf # <<>> /\ Head(buf).kind = "good"

ParseRequest(w) ==
    /\ wpc[w] = "parse" /\ job[w] \in Clients
    /\ \/ /\ GoodRequest(readBuf[job[w]])
          /\ msg' = [msg EXCEPT ![w] = readBuf[job[w]]]
          /\ Goto(w, "front")
          /\ UNCHANGED <<netVars, tableVars, mainVars, que, readBuf, job, local, crashed, histVars>>
       \/ ~GoodRequest(readBuf[job[w]]) /\ NotFound(w)

\* _forwardingTable[_business_code]: size(), then front()
BackServer(w) ==
    /\ wpc[w] = "front"
    /\ \/ /\ forwarding # <<>>
          /\ local' = [local EXCEPT ![w] = [client |-> @.client, fd |-> Last(forwarding)]]
          /\ Goto(w, "send")
          /\ UNCHANGED <<netVars, tableVars, mainVars, que, readBuf, job, msg, crashed, histVars>>
       \/ forwarding = <<>> /\ NotFound(w)
FrontServer(w) ==
    /\ wpc[w] = "front"
    /\ \/ /\ forwarding # <<>>
          /\ local' = [local EXCEPT ![w] = [client |-> @.client, fd |-> Head(forwarding)]]
          /\ Goto(w, "send")
          /\ UNCHANGED <<netVars, tableVars, mainVars, que, readBuf, job, msg, crashed, histVars>>
       \/ forwarding = <<>> /\ NotFound(w)

\* _serverConns[fd]->send(new_message): a number the map has no connection for
\* gives a null pointer.
SendToServer(w) ==
    /\ wpc[w] = "send" /\ job[w] \in Clients
    /\ LET n == local[w].fd
           c == job[w]
       IN  \/ /\ n \notin DOMAIN serverConns
              /\ crashed' = "null"
              /\ UNCHANGED <<netVars, workVars, histVars>>
           \/ /\ n \in DOMAIN serverConns
              /\ LET s == serverConns[n] IN
                    /\ Written(s)
                    /\ \/ /\ Reaches(s)
                          /\ \E part \in Arriving(msg[w]) :
                                /\ atServer' = IF part = <<>> THEN atServer
                                               ELSE [atServer EXCEPT ![s] = Append(@, c)]
                                /\ forwarded' = [forwarded EXCEPT ![c] =
                                      @ \o [i \in DOMAIN part |-> [n |-> part[i].n, to |-> s]]]
                                /\ CountCut(msg[w], part)
                          /\ UNCHANGED lost
                       \/ /\ ~Reaches(s)
                          /\ lost' = IF fd[s] = NoFd THEN lost + 1 ELSE lost
                          /\ UNCHANGED <<atServer, forwarded, cut>>
              /\ Goto(w, "clear")
              /\ UNCHANGED <<backlog, fd, inbox, fin, ready, sends, readBuf, job, msg, local, delivered,
                             doubled>>
    /\ UNCHANGED <<tableVars, mainVars, que>>

(* do_server2client *)

\* _serverConns.erase(_sock.fd())
ServerGone(w) ==
    /\ wpc[w] = "serverGone"
    /\ serverConns' = Without(serverConns, fd[job[w]])
    /\ Goto(w, "serverForget")
    /\ UNCHANGED <<netVars, clientConns, clientTable, forwarding, mainVars, que, readBuf, job, msg,
                   local, crashed, histVars>>

\* The number leaves the forwarding table; the method goes on with what was read.
ServerRemembered(w) ==
    /\ wpc[w] = "serverForget"
    /\ Goto(w, "parse")
    /\ UNCHANGED <<netVars, tableVars, mainVars, que, readBuf, job, msg, local, crashed, histVars>>
ServerForget(w) ==
    /\ wpc[w] = "serverForget"
    /\ forwarding' = RemoveFirst(forwarding, fd[job[w]])
    /\ Goto(w, "parse")
    /\ UNCHANGED <<netVars, clientConns, serverConns, clientTable, mainVars, que, readBuf, job, msg,
                   local, crashed, histVars>>

\* The first "Client:" line of the buffer; without one the method returns and
\* the buffer stays.
ParseResponse(w) ==
    /\ wpc[w] = "parse" /\ job[w] \in Servers
    /\ LET buf == readBuf[job[w]] IN
          \/ \E i \in DOMAIN buf :
                /\ buf[i] # NoClient /\ \A j \in 1 .. i - 1 : buf[j] = NoClient
                /\ local' = [local EXCEPT ![w] = [client |-> buf[i], fd |-> @.fd]]
                /\ Goto(w, "find") /\ UNCHANGED <<job, msg>>
          \/ ToSet(buf) \subseteq {NoClient} /\ Done(w)
    /\ UNCHANGED <<netVars, tableVars, mainVars, que, readBuf, crashed, histVars>>

\* _clientTable.find(client): an unknown client leaves the buffer as it is.
FindClient(w) ==
    /\ wpc[w] = "find"
    /\ \/ /\ local[w].client \in DOMAIN clientTable
          /\ local' = [local EXCEPT ![w] = [client |-> @.client, fd |-> clientTable[@.client]]]
          /\ Goto(w, "send") /\ UNCHANGED <<job, msg>>
       \/ local[w].client \notin DOMAIN clientTable /\ Done(w)
    /\ UNCHANGED <<netVars, tableVars, mainVars, que, readBuf, crashed, histVars>>

\* _clientConns[fd]->send(_read_buf): all that is in the buffer.
SendToClient(w) ==
    /\ wpc[w] = "send" /\ job[w] \in Servers
    /\ LET n == local[w].fd
           s == job[w]
       IN  \/ /\ n \notin DOMAIN clientConns
              /\ crashed' = "null"
              /\ UNCHANGED <<netVars, workVars, histVars>>
           \/ /\ n \in DOMAIN clientConns
              /\ Written(clientConns[n])
              /\ \/ /\ Reaches(clientConns[n])
                    /\ \E part \in Arriving(readBuf[s]) :
                          /\ delivered' = delivered \cup {[to |-> l, looked |-> local[w].client,
                                                  at |-> clientConns[n]] : l \in ToSet(part)}
                          /\ CountCut(readBuf[s], part)
                 \/ ~Reaches(clientConns[n]) /\ UNCHANGED <<delivered, cut>>
              /\ Goto(w, "clear")
              /\ UNCHANGED <<backlog, fd, inbox, fin, ready, sends, atServer, readBuf, job, msg, local,
                             forwarded, lost, doubled>>
    /\ UNCHANGED <<tableVars, mainVars, que>>

\* _read_buf = "": the last statement of both methods.
BufferKept(w) ==
    /\ wpc[w] = "clear"
    /\ Done(w)
    /\ UNCHANGED <<netVars, tableVars, mainVars, que, readBuf, crashed, histVars>>
ClearBuffer(w) ==
    /\ wpc[w] = "clear"
    /\ readBuf' = [readBuf EXCEPT ![job[w]] = <<>>]
    /\ Done(w)
    /\ UNCHANGED <<netVars, tableVars, mainVars, que, crashed, histVars>>

--------------------------------------------------------------------------------
(* Data races *)

Main == "main"

\* What a thread is about to access, and whether it writes it.
Touches(t) ==
    IF t = Main
    THEN CASE mpc = "insert" -> {<<"clientConns", TRUE>>}
           [] mpc = "table"  -> {<<"clientTable", TRUE>>}
           [] mpc = "dispatch" /\ events # <<>> /\ Head(events) # ListenFd ->
                 {<<"clientConns", FALSE>>, <<"serverConns", FALSE>>}
           [] OTHER -> {}
    ELSE CASE wpc[t] = "clientGone"   -> {<<"clientConns", TRUE>>}
           [] wpc[t] = "clientForget" -> {<<"clientTable", TRUE>>}
           [] wpc[t] = "serverGone"   -> {<<"serverConns", TRUE>>}
           [] wpc[t] = "serverForget" -> {<<"forwarding", TRUE>>}
           [] wpc[t] = "front"        -> {<<"forwarding", FALSE>>, <<job[t], FALSE>>}
           [] wpc[t] = "find"         -> {<<"clientTable", FALSE>>}
           [] wpc[t] = "send" /\ job[t] \in Clients -> {<<"serverConns", FALSE>>}
           [] wpc[t] = "send" /\ job[t] \in Servers ->
                 {<<"clientConns", FALSE>>, <<job[t], FALSE>>}
           [] wpc[t] = "parse" -> {<<job[t], job[t] \in Clients>>}
           [] wpc[t] \in {"recv", "clear"} -> {<<job[t], TRUE>>}
           [] OTHER -> {}

Race ==
    \E t, u \in Workers \cup {Main} :
        t # u /\ \E a \in Touches(t), b \in Touches(u) : a[1] = b[1] /\ (a[2] \/ b[2])

RaceCrash ==
    /\ Race
    /\ crashed' = "race"
    /\ UNCHANGED <<netVars, tableVars, mainVars, que, workVars, histVars>>

--------------------------------------------------------------------------------
MainStep == WaitEvents \/ EventsDone \/ Accept \/ AcceptFails \/ InsertConn \/ SetClientTable
            \/ FindMessageConn \/ AddRequest

WorkerStep(w) ==
    \/ WorkerPop(w) \/ Recv(w) \/ ClearBuffer(w)
    \/ ClientGone(w) \/ ClientForget(w) \/ ParseRequest(w) \/ FrontServer(w) \/ SendToServer(w)
    \/ ServerGone(w) \/ ServerForget(w) \/ ParseResponse(w) \/ FindClient(w) \/ SendToClient(w)

PeerStep ==
    /\ \/ \E c \in Clients : Connect(c) \/ \E kind \in SegmentKinds : Send(c, kind, Alive)
       \/ \E x \in Servers : Answer(x, Alive)
       \/ \E c \in Conns : Close(c, Alive)
    /\ UNCHANGED <<tableVars, mainVars, que, workVars, crashed, histVars>>

ProxyNext ==
    /\ crashed = "no"
    /\ MainStep \/ (\E w \in Workers : WorkerStep(w)) \/ PeerStep \/ RaceCrash

ProxySpec == ProxyInit /\ [][ProxyNext]_vars

\* The main thread and the workers run on; nothing is asked of the peers.
ProxyFairness ==
    /\ WF_vars(crashed = "no" /\ MainStep)
    /\ \A w \in Workers : WF_vars(crashed = "no" /\ WorkerStep(w))

ProxyFairSpec == ProxySpec /\ ProxyFairness

--------------------------------------------------------------------------------
(* Properties *)

ProxyTypeOK ==
    /\ Range(clientConns) \subseteq Clients \cup {Phantom} /\ Range(serverConns) \subseteq Servers
    /\ DOMAIN clientTable \subseteq Clients
    /\ hand \in Conns \cup {Phantom, Nobody} /\ job \in [Workers -> Conns \cup {Nobody}]
    /\ ToSet(que) \subseteq Conns /\ Len(que) <= QueSize
    /\ mpc \in {"wait", "dispatch", "insert", "table", "push"}
    /\ crashed \in {"no", "null", "race", "sigpipe"}
    /\ rst \subseteq fin /\ fin \subseteq Conns

\* A number in a table belongs to an open connection, the one the table means,
\* although the tables are updated one by one and by different threads, and
\* the kernel reuses a number as soon as the last shared_ptr is gone.  What a
\* failed accept() leaves behind is found in the tables like a connection, so
\* that a look-up never meets a null pointer because of it.
TablesNameLiveConns ==
    /\ \A n \in DOMAIN clientConns : fd[clientConns[n]] = n
    /\ \A n \in DOMAIN serverConns : fd[serverConns[n]] = n
    /\ \A c \in DOMAIN clientTable :
          \/ c \in Alive /\ clientTable[c] = fd[c]
          \/ clientTable[c] = NoFd /\ NoFd \in DOMAIN clientConns
    /\ \A i \in DOMAIN forwarding : \E s \in Servers \cap Alive : fd[s] = forwarding[i]

\* A connected client can be found by the responses for it: the two client
\* tables agree except while one thread is between its two updates, and until a
\* failed accept() has entered its -1 for some client.
ClientTablesAgree ==
    \A c \in Clients :
        \/ c \in DOMAIN clientTable /\ clientTable[c] = NoFd
        \/ c \in Range(clientConns) <=>
              \/ c \in DOMAIN clientTable /\ ~\E w \in Workers : job[w] = c /\ wpc[w] = "clientForget"
              \/ hand = c /\ mpc = "table"

\* No lost edge: what a connection has received, or its end, is announced by an
\* event still to be handled, by an entry of the queue, or is about to be read,
\* although epoll reports each edge once.
NoStrandedInput ==
    \A c \in Conns \cap (Range(clientConns) \cup Range(serverConns)) :
        c \notin rst /\ (inbox[c] # <<>> \/ c \in fin) =>
            \/ Contains(ready, c) \/ Contains(events, fd[c]) \/ hand = c \/ Contains(que, c)
            \/ \E w \in Workers : job[w] = c /\ wpc[w] \in {"recv", "clientGone", "serverGone"}

\* proxyserver.conf:20-21: a server gets requests only when the ones before it
\* in the configuration have failed.
BackupOnlyAfterPrimary ==
    \A c \in Clients : \A k \in DOMAIN forwarded[c] : \A i, j \in DOMAIN Upstream :
        i < j /\ forwarded[c][k].to = Upstream[j] => Upstream[i] \in fin

\* Each segment of a client reaches the servers at most once and in order, with
\* none skipped unless a server has left, was never there, or read too slowly;
\* whatever the other workers do, and until two of them have the client's
\* connection in hand at once: only their meeting there can break the order.
ForwardedInOrder ==
    \A c \in Clients \ doubled : \A k \in DOMAIN forwarded[c] :
        /\ \A j \in 1 .. k - 1 : forwarded[c][j].n < forwarded[c][k].n
        /\ fin \cap Servers = {} /\ lost = 0 /\ cut = 0 => forwarded[c][k].n = k

\* A response is written to the connection of the client it was looked up for,
\* although the client may be erased and its number reused between the look-up
\* and the write: a number that is looked up stays good until its client closes.
LookupValidUntilClosed == \A d \in delivered : d.at = d.looked \/ d.looked \in fin

\* TcpConnection.cc:94: a response carries its client's address and goes there.
ResponseToItsClient == \A d \in delivered : d.to = d.at

\* proxyserver.conf:20-21 again: with the first server down, the requests go to
\* the next one, and none is thrown away while that one is there.
BackupTakesOver == lost > 0 => \A s \in Servers : ~Reaches(s)

\* A client's request reaches a server, unless somebody leaves or the process
\* ends; a client still in the backlog may have to wait for another to connect,
\* and one whose buffer begins with a bad line gets nothing but 404.
RequestForwarded ==
    \A c \in Clients : \A k \in 1 .. MaxSegments :
        sends[c] >= k ~> \/ Len(forwarded[c]) >= k
                         \/ Contains(backlog, c)
                         \/ readBuf[c] # <<>> /\ ~GoodRequest(readBuf[c])
                         \/ fin # {} \/ cut > 0
                         \/ crashed # "no"

\* The connection of a peer that has closed is closed and its object freed; a
\* reset that overtakes the event is the exception, which leaks it.
ClosedPeerReleased ==
    \A c \in Conns :
        (c \in fin /\ fd[c] # NoFd) ~> (c \notin Alive \/ c \in rst \/ crashed # "no")
================================================================================
