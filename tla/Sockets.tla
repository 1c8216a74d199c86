-------------------------------- MODULE Sockets --------------------------------
(***************************************************************************)
(* What lies outside the proxy: the kernel's sockets, epoll in edge-        *)
(* triggered mode, the clients, and the business servers (http_server).     *)
(* Modelled from how event_loop/EventLoop.cc, tcp/SocketIO.cc and           *)
(* tcp/TcpConnection.cc use them.                                           *)
(*                                                                         *)
(* A connection is named by its peer.  Its bytes travel in segments, the    *)
(* unit one recv() returns: from a client the next part of its requests,    *)
(* from a server one response, named by the client in its "Client:" line.   *)
(***************************************************************************)
EXTENDS Integers, SequencesExt

CONSTANTS Clients,      \* client addresses (ip:port); each connects once
          Upstream,     \* the business servers of the location, in configuration order
          Listener,     \* the listening socket
          NoClient,     \* stands for the "Client:" line of a response that has none
          Labels,       \* {}, or {NoClient} when servers may leave the line out
          SegmentKinds, \* what a client's segment begins with: "good" or "bad" request line
          MaxSegments,  \* bound: segments each client sends
          MaxCloses     \* bound: peers that close their connection

Servers == ToSet(Upstream)
Conns   == Clients \cup Servers
NoFd    == -1

ASSUME PeersAssumption ==
    /\ Upstream \in Seq(Servers) /\ IsInjective(Upstream)
    /\ Servers \cap Clients = {}
    /\ Listener \notin Conns
    /\ NoClient \notin Clients /\ Labels \subseteq {NoClient}
    /\ SegmentKinds \subseteq {"good", "bad"} /\ MaxSegments \in Nat
    /\ MaxCloses \in Nat

VARIABLES backlog,   \* connections the kernel has completed and nobody accepted
          fd,        \* the file descriptor of each connection, NoFd before it has one
          inbox,     \* segments received on each connection and not yet read
          fin,       \* connections whose peer has closed
          rst,       \* connections whose peer has answered a write with a reset
          ready,     \* epoll's ready list
          sends,     \* how many segments each client has sent
          atServer   \* the requests each server has yet to answer, by client

netVars == <<backlog, fd, inbox, fin, rst, ready, sends, atServer>>

\* Connections that exist for the peer.
Established == {c \in Conns : fd[c] # NoFd} \cup ToSet(backlog)

\* An edge on x, which joins the ready list unless it is there already.
Edge(x) == IF Contains(ready, x) THEN ready ELSE Append(ready, x)

--------------------------------------------------------------------------------
(* The peers' actions.  W is the set of connections epoll watches. *)

Connect(c) ==
    /\ c \in Clients \ Established
    /\ backlog' = Append(backlog, c)
    /\ ready' = Edge(Listener)
    /\ UNCHANGED <<fd, inbox, fin, rst, sends, atServer>>

Send(c, kind, W) ==
    /\ c \in Established \ fin
    /\ sends[c] < MaxSegments
    /\ sends' = [sends EXCEPT ![c] = @ + 1]
    /\ inbox' = [inbox EXCEPT ![c] = Append(@, [n |-> sends[c] + 1, kind |-> kind])]
    /\ ready' = IF c \in W THEN Edge(c) ELSE ready
    /\ UNCHANGED <<backlog, fd, fin, rst, atServer>>

\* A server answers the requests of its connection in order.
Answer(s, W) ==
    /\ s \in Servers \ fin
    /\ atServer[s] # <<>>
    /\ \E label \in {Head(atServer[s])} \cup Labels :
          inbox' = [inbox EXCEPT ![s] = Append(@, label)]
    /\ atServer' = [atServer EXCEPT ![s] = Tail(@)]
    /\ ready' = IF s \in W THEN Edge(s) ELSE ready
    /\ UNCHANGED <<backlog, fd, fin, rst, sends>>

Close(c, W) ==
    /\ c \in Established \ fin
    /\ Cardinality(fin) < MaxCloses
    /\ fin' = fin \cup {c}
    /\ ready' = IF c \in W THEN Edge(c) ELSE ready
    /\ UNCHANGED <<backlog, fd, inbox, rst, sends, atServer>>
================================================================================
