---------------------------- MODULE ProxyServerProofs ----------------------------
(***************************************************************************)
(* The tables of the proxy, for any number of clients, servers, workers and *)
(* segments, any size of the queue and any number of failures.              *)
(*                                                                         *)
(* What the properties of ProxyServer say of the tables is not inductive:   *)
(* that a look-up meets the connection it means rests on the numbers of the *)
(* open connections being distinct, which rests on nothing being opened     *)
(* twice (FdInv), on what the main thread has in its hand between two       *)
(* insertions (MainInv), on which worker is between two removals (WorkInv)  *)
(* and on the tables naming nothing else (ClientInv, ServerInv).            *)
(***************************************************************************)
EXTENDS ProxyServer, TLAPS, FiniteSetTheorems, SequenceTheorems, WellFoundedInduction

Segment == [n : Nat, kind : SegmentKinds]
Lines   == Clients \cup {NoClient}
InClients(c) == \E n \in DOMAIN clientConns : clientConns[n] = c
InServers(s) == \E n \in DOMAIN serverConns : serverConns[n] = s

PeerTypes ==
    /\ backlog \in Seq(Clients) /\ ready \in Seq(Conns \cup {Listener})
    /\ fd \in [Conns \cup {Phantom} -> Int]
    /\ DOMAIN inbox = Conns
    /\ \A c \in Clients : inbox[c] \in Seq(Segment)
    /\ \A s \in Servers : inbox[s] \in Seq(Lines)
    /\ fin \subseteq Conns /\ rst \subseteq fin
    /\ sends \in [Clients -> Nat] /\ atServer \in [Servers -> Seq(Clients)]

WorkTypes ==
    /\ DOMAIN readBuf = Conns
    /\ \A c \in Clients : readBuf[c] \in Seq(Segment)
    /\ \A s \in Servers : readBuf[s] \in Seq(Lines)
    /\ wpc \in [Workers -> {"pop", "recv", "parse", "clientGone", "clientForget", "front", "send",
                            "clear", "serverGone", "serverForget", "find"}]
    /\ job \in [Workers -> Conns \cup {Nobody}]
    /\ msg \in [Workers -> Seq(Segment)]
    /\ local \in [Workers -> [client : Lines, fd : Int]]
    /\ forwarded \in [Clients -> Seq([n : Nat, to : Servers])]
    /\ cut \in Nat /\ lost \in Nat

MainTypes ==
    /\ mpc \in {"wait", "dispatch", "insert", "table", "push"}
    /\ hand \in Conns \cup {Phantom, Nobody}
    /\ events \in Seq(Int) /\ que \in Seq(Conns) /\ Len(que) <= QueSize
    /\ forwarding \in Seq(Int)
    /\ crashed \in {"no", "null", "race", "sigpipe"}

\* A number belongs to one open connection, and is one the kernel gives; what
\* waits in the backlog has none, and does not wait twice.
FdInv ==
    /\ \A c \in DOMAIN fd : fd[c] = NoFd \/ fd[c] >= FirstFd
    /\ fd[Phantom] = NoFd
    /\ \A c, d \in Alive : fd[c] = fd[d] /\ fd[c] # NoFd => c = d
    /\ \A s, t \in Servers : fd[s] = fd[t] /\ fd[s] # NoFd => s = t
    /\ \A i, j \in DOMAIN backlog : backlog[i] = backlog[j] => i = j
    /\ \A i \in DOMAIN backlog : fd[backlog[i]] = NoFd
    /\ \A c \in Conns : (\E i \in DOMAIN ready : ready[i] = c) => fd[c] # NoFd
    /\ \A s \in Servers : fd[s] = NoFd => inbox[s] = <<>> /\ atServer[s] = <<>> /\ s \notin fin

\* What the main thread has in its hand.
MainInv ==
    /\ \A i \in DOMAIN events : events[i] # NoFd
    /\ mpc \in {"wait", "dispatch"} => hand = Nobody
    /\ mpc \in {"insert", "table", "push"} => events # <<>>
    /\ mpc \in {"insert", "table"} =>
          /\ hand \in Clients \cup {Phantom} /\ Head(events) = ListenFd
          /\ hand # Phantom => fd[hand] # NoFd
    /\ mpc = "insert" =>
          /\ hand # Phantom => ~InClients(hand)
          /\ hand \in DOMAIN clientTable => clientTable[hand] = NoFd
    /\ mpc = "table" => InClients(hand)
    /\ mpc \in {"insert", "table"} =>
          \A w \in Workers : job[w] # hand
    /\ mpc \in {"insert", "table"} => \A i \in DOMAIN que : que[i] # hand
    /\ mpc = "push" => hand \in Conns /\ fd[hand] # NoFd /\ Head(events) = fd[hand]

\* What the workers have in theirs.
WorkInv ==
    /\ \A i \in DOMAIN que : fd[que[i]] # NoFd
    /\ \A w \in Workers : job[w] # Nobody => fd[job[w]] # NoFd
    /\ \A w \in Workers : wpc[w] = "pop" <=> job[w] = Nobody
    /\ \A w \in Workers : wpc[w] \in {"clientGone", "clientForget"} => job[w] \in Clients \cap fin
    /\ \A w \in Workers : wpc[w] \in {"serverGone", "serverForget"} => job[w] \in Servers \cap fin
    /\ \A w \in Workers : wpc[w] = "front" => job[w] \in Clients
    /\ \A w \in Workers : wpc[w] = "find" => job[w] \in Servers

Forgetting(c, l) == \E w \in Workers : job[w] = c /\ wpc[w] = l

\* The two client tables, up to the two removals of a client that leaves.
ClientInv ==
    /\ DOMAIN clientTable \subseteq Clients
    /\ \A n \in DOMAIN clientConns :
          clientConns[n] \in Clients \cup {Phantom} /\ fd[clientConns[n]] = n
    /\ \A n \in DOMAIN clientConns : n = NoFd <=> clientConns[n] = Phantom
    /\ \A c \in DOMAIN clientTable :
          \/ clientTable[c] = NoFd /\ NoFd \in DOMAIN clientConns
          \/ /\ clientTable[c] = fd[c] /\ fd[c] # NoFd
             /\ InClients(c) \/ Forgetting(c, "clientForget")
    /\ \A c \in Clients : InClients(c) =>
          /\ c \in DOMAIN clientTable \/ (hand = c /\ mpc = "table")
          /\ ~Forgetting(c, "clientForget")

\* The two server tables, up to the two removals of a server that leaves.
ServerInv ==
    /\ \A n \in DOMAIN serverConns : serverConns[n] \in Servers /\ fd[serverConns[n]] = n
    /\ \A i \in DOMAIN forwarding : \E s \in Servers :
          /\ fd[s] = forwarding[i]
          /\ InServers(s) \/ Forgetting(s, "serverForget")
    /\ \A i, j \in DOMAIN forwarding : forwarding[i] = forwarding[j] /\ forwarding[i] # NoFd => i = j

\* Input of a connection not yet in the tables is announced as well.
StrandedInv ==
    /\ NoStrandedInput
    /\ mpc = "wait" => events = <<>>
    /\ mpc \in {"insert", "table"} /\ hand # Phantom /\ (inbox[hand] # <<>> \/ hand \in fin) =>
          \E i \in DOMAIN ready : ready[i] = hand

\* The numbers left in the forwarding table are in the order of the configuration.
ServersInOrder ==
    \A j \in DOMAIN Upstream : \A p \in DOMAIN forwarding :
          forwarding[p] = fd[Upstream[j]] /\ fd[Upstream[j]] # NoFd =>
              \A i \in 1 .. j - 1 :
                  Upstream[i] \in fin \/ \E q \in 1 .. p - 1 : forwarding[q] = fd[Upstream[i]]
\* A request about to be sent goes to a server the ones before which are gone.
SendsToFirst ==
    \A w \in Workers : \A j \in DOMAIN Upstream :
          /\ wpc[w] = "send" /\ job[w] \in Clients
          /\ local[w].fd = fd[Upstream[j]] /\ fd[Upstream[j]] # NoFd
          => \A i \in 1 .. j - 1 : Upstream[i] \in fin

BackupInv == BackupOnlyAfterPrimary /\ ServersInOrder /\ SendsToFirst

TablesInv ==
    PeerTypes /\ WorkTypes /\ MainTypes /\ FdInv /\ MainInv /\ WorkInv /\ ClientInv /\ ServerInv

--------------------------------------------------------------------------------
(* Names and numbers *)

LEMMA Names ==
    /\ Conns = Clients \cup Servers /\ Servers \cap Clients = {} /\ Listener \notin Conns
    /\ NoClient \notin Clients /\ Labels \subseteq {NoClient} /\ Labels \subseteq Lines /\ Clients \subseteq Lines
    /\ Nobody \notin Conns /\ Phantom \notin Conns /\ Phantom # Nobody
    /\ Clients \subseteq Conns /\ Servers \subseteq Conns
BY PeersAssumption, ProxyAssumption DEF Conns, Lines

LEMMA Numbers ==
    /\ FirstFd \in Nat /\ ListenFd \in Nat /\ ListenFd < FirstFd /\ QueSize \in Nat /\ MaxCuts \in Nat
    /\ NoFd = -1 /\ NoEvent = -2
BY ProxyAssumption DEF NoFd, NoEvent

\* What a sequence holds in front and behind.
LEMMA HeadTail ==
    ASSUME NEW S, NEW q \in Seq(S), q # <<>>
    PROVE  /\ Head(q) \in S /\ Tail(q) \in Seq(S) /\ Head(q) = q[1]
           /\ Len(Tail(q)) = Len(q) - 1
           /\ \A i \in 1 .. Len(q) - 1 : Tail(q)[i] = q[i + 1]
OBVIOUS

LEMMA AppendOne ==
    ASSUME NEW S, NEW q \in Seq(S), NEW e \in S
    PROVE  Append(q, e) \in Seq(S)
OBVIOUS

\* An edge that joins the ready list leaves it a list.
LEMMA EdgeType ==
    ASSUME ready \in Seq(Conns \cup {Listener}), NEW x \in Conns \cup {Listener}
    PROVE  /\ Edge(x) \in Seq(Conns \cup {Listener})
           /\ \E i \in DOMAIN Edge(x) : Edge(x)[i] = x
           /\ \A i \in DOMAIN ready : \E j \in DOMAIN Edge(x) : Edge(x)[j] = ready[i]
           /\ \A j \in DOMAIN Edge(x) : Edge(x)[j] = x \/ \E i \in DOMAIN ready : ready[i] = Edge(x)[j]
<1>1. CASE Contains(ready, x)
  BY <1>1 DEF Edge, Contains
<1>2. CASE ~Contains(ready, x)
  <2> DEFINE r == Append(ready, x)
  <2>1. /\ Edge(x) = r /\ r \in Seq(Conns \cup {Listener}) /\ DOMAIN r = 1 .. Len(ready) + 1
        /\ r[Len(ready) + 1] = x /\ \A i \in 1 .. Len(ready) : r[i] = ready[i]
        /\ DOMAIN ready = 1 .. Len(ready) /\ Len(ready) \in Nat
    BY <1>2 DEF Edge
  <2> HIDE DEF r
  <2> QED BY <2>1
<1> QED BY <1>1, <1>2

LEMMA LeastElement ==
    ASSUME NEW I, I \subseteq Nat, I # {}
    PROVE  \E m \in I : \A i \in I : m <= i
<1> DEFINE R == OpToRel(<, Nat)
<1>1. IsWellFoundedOn(R, Nat)
  BY NatLessThanWellFounded
<1>2. \E m \in I : \A i \in I : ~(<<i, m>> \in R)
  <2> HIDE DEF R
  <2> QED BY <1>1, WFMin, Zenon
<1>3. \A i, m \in Nat : <<i, m>> \in R <=> i < m
  BY DEF OpToRel
<1>4. PICK m \in I : \A i \in I : ~(<<i, m>> \in R)
  BY <1>2
<1>5. \A i \in I : i \in Nat /\ m \in Nat /\ ~(i < m)
  <2> HIDE DEF R
  <2> QED BY <1>3, <1>4
<1>6. \A i \in I : m <= i
  BY <1>5
<1> QED BY <1>4, <1>6

\* What a forgotten server leaves of the forwarding table: it loses one place
\* that holds the server's number, if there is one.
LEMMA ForgetServer ==
    ASSUME NEW q \in Seq(Int), NEW n \in Int
    PROVE  /\ RemoveFirst(q, n) \in Seq(Int)
           /\ \/ RemoveFirst(q, n) = q /\ \A i \in 1 .. Len(q) : q[i] # n
              \/ \E k \in 1 .. Len(q) :
                    /\ q[k] = n
                    /\ Len(RemoveFirst(q, n)) = Len(q) - 1
                    /\ \A i \in 1 .. k - 1 : RemoveFirst(q, n)[i] = q[i]
                    /\ \A i \in k .. Len(q) - 1 : RemoveFirst(q, n)[i] = q[i + 1]
<1>1. CASE ~\E i \in 1 .. Len(q) : q[i] = n
  BY <1>1 DEF RemoveFirst
<1>2. CASE \E i \in 1 .. Len(q) : q[i] = n
  <2> DEFINE I == {i \in 1 .. Len(q) : q[i] = n}
             k == Min(I)
  <2>1. I \subseteq Nat /\ I # {}
    BY <1>2
  <2>2. \E m \in I : \A i \in I : m <= i
    <3> HIDE DEF I
    <3> QED BY <2>1, LeastElement
  <2>3. k \in I
    BY <2>2 DEF Min
  <2>4. RemoveFirst(q, n) = SubSeq(q, 1, k - 1) \o SubSeq(q, k + 1, Len(q))
    BY <1>2 DEF RemoveFirst, RemoveAt, SelectInSeq
  <2> HIDE DEF k
  <2>5. k \in 1 .. Len(q) /\ q[k] = n
    BY <2>3
  <2> DEFINE a == SubSeq(q, 1, k - 1)
             b == SubSeq(q, k + 1, Len(q))
  <2>6. /\ a \in Seq(Int) /\ Len(a) = k - 1 /\ \A i \in 1 .. k - 1 : a[i] = q[i]
        /\ b \in Seq(Int) /\ Len(b) = Len(q) - k /\ \A i \in 1 .. Len(q) - k : b[i] = q[k + i]
    BY <2>5
  <2> HIDE DEF a, b
  <2>7. /\ a \o b \in Seq(Int) /\ Len(a \o b) = Len(q) - 1
        /\ \A i \in 1 .. Len(q) - 1 : (a \o b)[i] = IF i <= k - 1 THEN q[i] ELSE q[i + 1]
    <3>1. /\ a \o b \in Seq(Int) /\ Len(a \o b) = Len(a) + Len(b)
          /\ \A i \in 1 .. Len(a) + Len(b) : (a \o b)[i] = IF i <= Len(a) THEN a[i] ELSE b[i - Len(a)]
      BY <2>6, ConcatProperties
    <3>2. k \in Int /\ Len(q) \in Nat
      BY <2>5
    <3> HIDE DEF I
    <3>3. ASSUME NEW i \in 1 .. Len(q) - 1, i <= k - 1 PROVE (a \o b)[i] = q[i]
      BY <2>5, <2>6, <3>1, <3>2, <3>3
    <3>4. ASSUME NEW i \in 1 .. Len(q) - 1, ~(i <= k - 1) PROVE (a \o b)[i] = q[i + 1]
      <4>0. i \in 1 .. Len(a) + Len(b) /\ ~(i <= Len(a)) /\ Len(a) = k - 1
        BY <2>6, <3>2, <3>4
      <4>1. (a \o b)[i] = b[i - (k - 1)]
        BY <3>1, <4>0
      <4>2. PICK x \in 1 .. Len(q) - k : x = i - (k - 1)
        BY <2>5, <3>2, <3>4
      <4>3. b[x] = q[k + x]
        BY <2>6
      <4>4. k + x = i + 1
        BY <3>2, <4>2
      <4> QED BY <4>1, <4>2, <4>3, <4>4
    <3> QED BY <2>6, <3>1, <3>2, <3>3, <3>4
  <2>8. RemoveFirst(q, n) = a \o b
    BY <2>4 DEF a, b
  <2> DEFINE r == RemoveFirst(q, n)
  <2>9. /\ r \in Seq(Int) /\ k \in 1 .. Len(q) /\ q[k] = n /\ Len(r) = Len(q) - 1
        /\ \A i \in 1 .. k - 1 : r[i] = q[i]
        /\ \A i \in k .. Len(q) - 1 : r[i] = q[i + 1]
    <3> HIDE DEF r, I
    <3>1. r = a \o b /\ k \in Int /\ Len(q) \in Nat
      BY <2>5, <2>8 DEF r
    <3>2. \A i \in 1 .. k - 1 : i \in 1 .. Len(q) - 1 /\ i <= k - 1
      BY <2>5, <3>1
    <3>3. \A i \in k .. Len(q) - 1 : i \in 1 .. Len(q) - 1 /\ ~(i <= k - 1)
      BY <2>5, <3>1
    <3> QED BY <2>5, <2>7, <3>1, <3>2, <3>3
  <2> HIDE DEF I
  <2> QED BY <2>9
<1> QED BY <1>1, <1>2

--------------------------------------------------------------------------------
(* The types *)

LEMMA PeerTypesStep == TablesInv /\ ProxyNext => PeerTypes'
<1> SUFFICES ASSUME TablesInv, ProxyNext PROVE PeerTypes'
  OBVIOUS
<1>0. PeerTypes
  BY DEF TablesInv
<1>1. CASE WaitEvents
  BY <1>0, <1>1 DEF WaitEvents, PeerTypes
<1>2. CASE Accept
  <2>1. Head(backlog) \in Clients /\ Tail(backlog) \in Seq(Clients)
    BY <1>0, <1>2, HeadTail DEF Accept, PeerTypes
  <2>2. Edge(Head(backlog)) \in Seq(Conns \cup {Listener})
    BY <1>0, <2>1, EdgeType, Names DEF PeerTypes
  <2>3. \A n \in FreeFds : n \in Int
    BY DEF FreeFds
  <2>4. fd' \in [Conns \cup {Phantom} -> Int]
    BY <1>0, <1>2, <2>3 DEF Accept, PeerTypes
  <2> QED BY <1>0, <1>2, <2>1, <2>2, <2>4 DEF Accept, PeerTypes
<1>3. CASE EventsDone \/ AcceptFails \/ InsertConn \/ SetClientTable \/ FindMessageConn \/ AddRequest
  BY <1>0, <1>3 DEF EventsDone, AcceptFails, InsertConn, SetClientTable, FindMessageConn, AddRequest,
                    PeerTypes, netVars
<1>4. ASSUME NEW w \in Workers, Recv(w) PROVE PeerTypes'
  <2>1. CASE inbox[job[w]] # <<>>
    <3>1. job[w] \in Conns
      BY <1>4, Names DEF Recv, TablesInv, WorkTypes, WorkInv
    <3>2. inbox' = [inbox EXCEPT ![job[w]] = Tail(@)]
      BY <1>4, <2>1 DEF Recv
    <3>3. \A S : inbox[job[w]] \in Seq(S) => Tail(inbox[job[w]]) \in Seq(S)
      BY <2>1, HeadTail
    <3> QED BY <1>0, <1>4, <3>1, <3>2, <3>3 DEF Recv, PeerTypes
  <2>2. CASE inbox[job[w]] = <<>>
    BY <1>0, <1>4, <2>2 DEF Recv, PeerTypes
  <2> QED BY <2>1, <2>2
<1>5. ASSUME NEW w \in Workers, SendToServer(w) PROVE PeerTypes'
  <2>1. CASE local[w].fd \notin DOMAIN serverConns
    BY <1>0, <1>5, <2>1 DEF SendToServer, PeerTypes, netVars
  <2>2. CASE local[w].fd \in DOMAIN serverConns
    <3> DEFINE s == serverConns[local[w].fd]
    <3>1. s \in Servers /\ job[w] \in Clients
      BY <1>5, <2>2 DEF SendToServer, TablesInv, ServerInv
    <3>2. UNCHANGED <<backlog, fd, inbox, fin, ready, sends>>
      BY <1>5, <2>2 DEF SendToServer
    <3>3. rst' \subseteq fin
      <4>1. Written(s)
        BY <1>5, <2>2 DEF SendToServer
      <4> QED BY <1>0, <4>1 DEF Written, PeerTypes
    <3>4. atServer' = atServer \/ atServer' = [atServer EXCEPT ![s] = Append(@, job[w])]
      BY <1>5, <2>2 DEF SendToServer
    <3>5. atServer' \in [Servers -> Seq(Clients)]
      <4>1. Append(atServer[s], job[w]) \in Seq(Clients)
        BY <1>0, <3>1, AppendOne DEF PeerTypes
      <4> QED BY <1>0, <3>1, <3>4, <4>1 DEF PeerTypes
    <3> QED BY <1>0, <3>2, <3>3, <3>5 DEF PeerTypes
  <2> QED BY <2>1, <2>2
<1>6. ASSUME NEW w \in Workers, ParseRequest(w) \/ FrontServer(w) \/ SendToClient(w) PROVE PeerTypes'
  <2>1. UNCHANGED <<backlog, fd, inbox, fin, ready, sends, atServer>>
    BY <1>6 DEF ParseRequest, FrontServer, SendToClient, NotFound, netVars
  <2>2. rst' = rst \/ \E c \in fin : rst' = rst \cup {c}
    BY <1>6 DEF ParseRequest, FrontServer, SendToClient, NotFound, netVars, Written
  <2> QED BY <1>0, <2>1, <2>2 DEF PeerTypes
<1>7. ASSUME NEW w \in Workers,
             WorkerPop(w) \/ ClearBuffer(w) \/ ClientGone(w) \/ ClientForget(w) \/ ServerGone(w)
               \/ ServerForget(w) \/ ParseResponse(w) \/ FindClient(w)
      PROVE  PeerTypes'
  BY <1>0, <1>7 DEF WorkerPop, ClearBuffer, ClientGone, ClientForget, ServerGone, ServerForget,
                    ParseResponse, FindClient, PeerTypes, netVars
<1>8. CASE RaceCrash
  BY <1>0, <1>8 DEF RaceCrash, PeerTypes, netVars
<1>9. CASE PeerStep
  <2>1. ASSUME NEW c \in Clients, Connect(c) PROVE PeerTypes'
    <3>1. Edge(Listener) \in Seq(Conns \cup {Listener})
      BY <1>0, EdgeType DEF PeerTypes
    <3> QED BY <1>0, <2>1, <3>1 DEF Connect, PeerTypes
  <2>2. ASSUME NEW c \in Clients, NEW kind \in SegmentKinds, Send(c, kind, Alive) PROVE PeerTypes'
    <3>1. Edge(c) \in Seq(Conns \cup {Listener})
      BY <1>0, EdgeType, Names DEF PeerTypes
    <3>2. sends[c] \in Nat
      BY <1>0 DEF PeerTypes
    <3>3. [n |-> sends[c] + 1, kind |-> kind] \in Segment
      BY <3>2 DEF Segment
    <3>4. Append(inbox[c], [n |-> sends[c] + 1, kind |-> kind]) \in Seq(Segment)
      BY <1>0, <3>3, AppendOne DEF PeerTypes
    <3>5. ready' \in Seq(Conns \cup {Listener}) /\ sends' \in [Clients -> Nat]
      BY <1>0, <2>2, <3>1, <3>2 DEF Send, PeerTypes
    <3>6. /\ DOMAIN inbox' = Conns
          /\ \A d \in Clients : inbox'[d] \in Seq(Segment)
          /\ \A s \in Servers : inbox'[s] \in Seq(Lines)
      BY <1>0, <2>2, <3>4, Names DEF Send, PeerTypes
    <3> QED BY <1>0, <2>2, <3>5, <3>6 DEF Send, PeerTypes
  <2>3. ASSUME NEW x \in Servers, Answer(x, Alive) PROVE PeerTypes'
    <3>1. Edge(x) \in Seq(Conns \cup {Listener})
      BY <1>0, EdgeType, Names DEF PeerTypes
    <3>2. Head(atServer[x]) \in Clients /\ Tail(atServer[x]) \in Seq(Clients)
      BY <1>0, <2>3, HeadTail DEF Answer, PeerTypes
    <3>3. PICK label \in Lines : inbox' = [inbox EXCEPT ![x] = Append(@, label)]
      BY <2>3, <3>2, Names DEF Answer
    <3>4. Append(inbox[x], label) \in Seq(Lines)
      BY <1>0, AppendOne DEF PeerTypes
    <3>5. ready' \in Seq(Conns \cup {Listener}) /\ atServer' \in [Servers -> Seq(Clients)]
      BY <1>0, <2>3, <3>1, <3>2 DEF Answer, PeerTypes
    <3>6. /\ DOMAIN inbox' = Conns
          /\ \A d \in Clients : inbox'[d] \in Seq(Segment)
          /\ \A s \in Servers : inbox'[s] \in Seq(Lines)
      BY <1>0, <3>3, <3>4, Names DEF PeerTypes
    <3> QED BY <1>0, <2>3, <3>5, <3>6 DEF Answer, PeerTypes
  <2>4. ASSUME NEW c \in Conns, Close(c, Alive) PROVE PeerTypes'
    <3>1. Edge(c) \in Seq(Conns \cup {Listener})
      BY <1>0, EdgeType DEF PeerTypes
    <3> QED BY <1>0, <2>4, <3>1 DEF Close, PeerTypes
  <2> QED BY <1>9, <2>1, <2>2, <2>3, <2>4 DEF PeerStep
<1> QED BY <1>1, <1>2, <1>3, <1>4, <1>5, <1>6, <1>7, <1>8, <1>9 DEF ProxyNext, MainStep, WorkerStep

LEMMA Emptied ==
    /\ NoLocals \in [client : Lines, fd : Int]
    /\ <<>> \in Seq(Segment) /\ <<>> \in Seq(Lines)
BY DEF NoLocals, Lines, NoFd

LEMMA WorkTypesStep == TablesInv /\ ProxyNext => WorkTypes'
<1> SUFFICES ASSUME TablesInv, ProxyNext PROVE WorkTypes'
  OBVIOUS
<1>0. WorkTypes
  BY DEF TablesInv
<1>1. CASE \/ WaitEvents \/ EventsDone \/ Accept \/ AcceptFails \/ InsertConn \/ SetClientTable
           \/ FindMessageConn \/ AddRequest \/ PeerStep \/ RaceCrash
  BY <1>0, <1>1 DEF WaitEvents, EventsDone, Accept, AcceptFails, InsertConn, SetClientTable,
                    FindMessageConn, AddRequest, PeerStep, RaceCrash, WorkTypes, workVars, histVars
<1>2. ASSUME NEW w \in Workers, WorkerPop(w) PROVE WorkTypes'
  <2>1. Head(que) \in Conns
    BY <1>2, HeadTail DEF WorkerPop, TablesInv, MainTypes
  <2> QED BY <1>0, <1>2, <2>1 DEF WorkerPop, Goto, WorkTypes, histVars
<1>3. ASSUME NEW w \in Workers, Recv(w) PROVE WorkTypes'
  <2>1. UNCHANGED <<job, msg, local, forwarded, cut, lost>>
    BY <1>3 DEF Recv, histVars
  <2>2. wpc' \in [Workers -> {"pop", "recv", "parse", "clientGone", "clientForget", "front", "send",
                              "clear", "serverGone", "serverForget", "find"}]
    BY <1>0, <1>3 DEF Recv, Goto, WorkTypes
  <2>3. CASE inbox[job[w]] # <<>>
    <3>1. readBuf' = [readBuf EXCEPT ![job[w]] = Append(@, Head(inbox[job[w]]))]
      BY <1>3, <2>3 DEF Recv
    <3>2. ASSUME job[w] \in Clients PROVE Append(readBuf[job[w]], Head(inbox[job[w]])) \in Seq(Segment)
      BY <1>0, <2>3, <3>2, HeadTail, AppendOne DEF TablesInv, PeerTypes, WorkTypes
    <3>3. ASSUME job[w] \in Servers PROVE Append(readBuf[job[w]], Head(inbox[job[w]])) \in Seq(Lines)
      BY <1>0, <2>3, <3>3, HeadTail, AppendOne DEF TablesInv, PeerTypes, WorkTypes
    <3>4. /\ DOMAIN readBuf' = Conns
          /\ \A c \in Clients : readBuf'[c] \in Seq(Segment)
          /\ \A s \in Servers : readBuf'[s] \in Seq(Lines)
      BY <1>0, <3>1, <3>2, <3>3, Names DEF WorkTypes
    <3> QED BY <1>0, <2>1, <2>2, <3>4 DEF WorkTypes
  <2>4. CASE inbox[job[w]] = <<>>
    BY <1>0, <1>3, <2>1, <2>2, <2>4 DEF Recv, WorkTypes
  <2> QED BY <2>3, <2>4
<1>4. ASSUME NEW w \in Workers, Done(w), UNCHANGED <<readBuf, histVars>> PROVE WorkTypes'
  BY <1>0, <1>4, Emptied DEF Done, Goto, WorkTypes, histVars
<1>5. ASSUME NEW w \in Workers,
             ClientForget(w) \/ (ParseRequest(w) /\ NotFound(w)) \/ (FrontServer(w) /\ NotFound(w))
      PROVE  WorkTypes'
  BY <1>4, <1>5 DEF ClientForget, NotFound
<1>6. ASSUME NEW w \in Workers, ClientGone(w) \/ ServerGone(w) \/ ServerForget(w) PROVE WorkTypes'
  BY <1>0, <1>6 DEF ClientGone, ServerGone, ServerForget, Goto, WorkTypes, histVars
<1>7. ASSUME NEW w \in Workers, ParseRequest(w), ~NotFound(w) PROVE WorkTypes'
  <2>1. job[w] \in Clients /\ msg' = [msg EXCEPT ![w] = readBuf[job[w]]]
    BY <1>7 DEF ParseRequest
  <2>2. UNCHANGED <<readBuf, job, local, forwarded, cut, lost>> /\ Goto(w, "front")
    BY <1>7 DEF ParseRequest, histVars
  <2> QED BY <1>0, <2>1, <2>2 DEF Goto, WorkTypes
<1>8. ASSUME NEW w \in Workers, FrontServer(w), ~NotFound(w) PROVE WorkTypes'
  <2>1. local' = [local EXCEPT ![w] = [client |-> @.client, fd |-> Head(forwarding)]] /\ forwarding # <<>>
    BY <1>8 DEF FrontServer
  <2>2. UNCHANGED <<readBuf, job, msg, forwarded, cut, lost>> /\ Goto(w, "send")
    BY <1>8 DEF FrontServer, histVars
  <2>3. Head(forwarding) \in Int
    BY <2>1, HeadTail DEF TablesInv, MainTypes
  <2> QED BY <1>0, <2>1, <2>2, <2>3 DEF Goto, WorkTypes
<1>9. ASSUME NEW w \in Workers, SendToServer(w) PROVE WorkTypes'
  <2>1. CASE local[w].fd \notin DOMAIN serverConns
    BY <1>0, <1>9, <2>1 DEF SendToServer, WorkTypes, workVars, histVars
  <2>2. CASE local[w].fd \in DOMAIN serverConns
    <3> DEFINE s == serverConns[local[w].fd]
               Hop(part) == [i \in DOMAIN part |-> [n |-> part[i].n, to |-> s]]
    <3>1. s \in Servers /\ job[w] \in Clients
      BY <1>9, <2>2 DEF SendToServer, TablesInv, ServerInv
    <3>2. UNCHANGED <<readBuf, job, msg, local>> /\ Goto(w, "clear")
      BY <1>9, <2>2 DEF SendToServer
    <3>3. lost' \in Nat
      BY <1>0, <1>9, <2>2 DEF SendToServer, WorkTypes
    <3>4. \/ UNCHANGED <<forwarded, cut>>
          \/ \E part \in Arriving(msg[w]) :
                /\ forwarded' = [forwarded EXCEPT ![job[w]] = @ \o Hop(part)]
                /\ CountCut(msg[w], part)
      BY <1>9, <2>2 DEF SendToServer
    <3>5. ASSUME NEW part \in Arriving(msg[w]) PROVE part \in Seq(Segment)
      <4>1. msg[w] \in Seq(Segment)
        BY <1>0 DEF WorkTypes
      <4> QED BY <3>5, <4>1 DEF Arriving
    <3>6. ASSUME NEW part \in Seq(Segment) PROVE Hop(part) \in Seq([n : Nat, to : Servers])
      <4>1. DOMAIN part = 1 .. Len(part) /\ Len(part) \in Nat
        BY <3>6
      <4>2. \A i \in 1 .. Len(part) : part[i] \in Segment
        BY <3>6
      <4>3. \A i \in 1 .. Len(part) : [n |-> part[i].n, to |-> s] \in [n : Nat, to : Servers]
        BY <3>1, <4>2 DEF Segment
      <4> QED BY <4>1, <4>3, IsASeq
    <3>7. forwarded' \in [Clients -> Seq([n : Nat, to : Servers])] /\ cut' \in Nat
      <4>1. ASSUME NEW part \in Seq(Segment)
            PROVE  forwarded[job[w]] \o Hop(part) \in Seq([n : Nat, to : Servers])
        <5>1. forwarded[job[w]] \in Seq([n : Nat, to : Servers])
          BY <1>0, <3>1 DEF WorkTypes
        <5> HIDE DEF Hop
        <5> QED BY <3>6, <5>1, ConcatProperties
      <4>2. CASE UNCHANGED <<forwarded, cut>>
        BY <1>0, <4>2 DEF WorkTypes
      <4>3. ASSUME NEW part \in Seq(Segment), CountCut(msg[w], part),
                   forwarded' = [forwarded EXCEPT ![job[w]] = @ \o Hop(part)]
            PROVE  forwarded' \in [Clients -> Seq([n : Nat, to : Servers])] /\ cut' \in Nat
        <5> HIDE DEF Hop
        <5>1. cut' \in Nat
          BY <1>0, <4>3 DEF CountCut, WorkTypes
        <5>2. forwarded' \in [Clients -> Seq([n : Nat, to : Servers])]
          BY <1>0, <4>1, <4>3 DEF WorkTypes
        <5> QED BY <5>1, <5>2
      <4> QED BY <3>4, <3>5, <4>2, <4>3
    <3> QED BY <1>0, <3>2, <3>3, <3>7 DEF Goto, WorkTypes
  <2> QED BY <2>1, <2>2
<1>10. ASSUME NEW w \in Workers, ParseResponse(w) PROVE WorkTypes'
  <2>1. CASE Done(w)
    BY <1>4, <1>10, <2>1 DEF ParseResponse
  <2>2. CASE ~Done(w)
    <3>1. PICK i \in DOMAIN readBuf[job[w]] :
             local' = [local EXCEPT ![w] = [client |-> readBuf[job[w]][i], fd |-> @.fd]]
      BY <1>10, <2>2 DEF ParseResponse
    <3>2. readBuf[job[w]][i] \in Lines
      BY <1>0, <1>10 DEF ParseResponse, WorkTypes
    <3>3. UNCHANGED <<readBuf, job, msg, forwarded, cut, lost>> /\ Goto(w, "find")
      BY <1>10, <2>2 DEF ParseResponse, histVars
    <3> QED BY <1>0, <3>1, <3>2, <3>3 DEF Goto, WorkTypes
  <2> QED BY <2>1, <2>2
<1>11. ASSUME NEW w \in Workers, FindClient(w) PROVE WorkTypes'
  <2>1. CASE Done(w)
    BY <1>4, <1>11, <2>1 DEF FindClient
  <2>2. CASE ~Done(w)
    <3>1. /\ local[w].client \in DOMAIN clientTable
          /\ local' = [local EXCEPT ![w] = [client |-> @.client, fd |-> clientTable[@.client]]]
      BY <1>11, <2>2 DEF FindClient
    <3>2. clientTable[local[w].client] \in Int
      BY <3>1, Numbers, Names DEF TablesInv, ClientInv, PeerTypes
    <3>3. UNCHANGED <<readBuf, job, msg, forwarded, cut, lost>> /\ Goto(w, "send")
      BY <1>11, <2>2 DEF FindClient, histVars
    <3> QED BY <1>0, <3>1, <3>2, <3>3 DEF Goto, WorkTypes
  <2> QED BY <2>1, <2>2
<1>12. ASSUME NEW w \in Workers, SendToClient(w) PROVE WorkTypes'
  <2>1. UNCHANGED <<readBuf, job, msg, local, forwarded, lost>> /\ (wpc' = wpc \/ Goto(w, "clear"))
    BY <1>12 DEF SendToClient, workVars, histVars
  <2>2. cut' = cut \/ cut' = cut + 1
    BY <1>12 DEF SendToClient, CountCut, histVars
  <2>3. cut' \in Nat
    BY <1>0, <2>2 DEF WorkTypes
  <2> QED BY <1>0, <2>1, <2>3 DEF Goto, WorkTypes
<1>13. ASSUME NEW w \in Workers, ClearBuffer(w) PROVE WorkTypes'
  <2>1. readBuf' = [readBuf EXCEPT ![job[w]] = <<>>] /\ Done(w) /\ UNCHANGED <<forwarded, cut, lost>>
    BY <1>13 DEF ClearBuffer, histVars
  <2>2. job[w] \in Conns
    BY <1>0, <1>13 DEF ClearBuffer, TablesInv, WorkInv, WorkTypes
  <2>3. /\ DOMAIN readBuf' = Conns
        /\ \A c \in Clients : readBuf'[c] \in Seq(Segment)
        /\ \A s \in Servers : readBuf'[s] \in Seq(Lines)
    BY <1>0, <2>1, <2>2, Emptied, Names DEF WorkTypes
  <2>4. /\ wpc' = [wpc EXCEPT ![w] = "pop"] /\ job' = [job EXCEPT ![w] = Nobody]
        /\ msg' = [msg EXCEPT ![w] = <<>>] /\ local' = [local EXCEPT ![w] = NoLocals]
    BY <2>1 DEF Done, Goto
  <2> QED BY <1>0, <2>1, <2>2, <2>3, <2>4, Emptied DEF WorkTypes
<1> QED
  BY <1>1, <1>2, <1>3, <1>5, <1>6, <1>7, <1>8, <1>9, <1>10, <1>11, <1>12, <1>13
  DEF ProxyNext, MainStep, WorkerStep

LEMMA MainTypesStep == TablesInv /\ ProxyNext => MainTypes'
<1> SUFFICES ASSUME TablesInv, ProxyNext PROVE MainTypes'
  OBVIOUS
<1>0. MainTypes
  BY DEF TablesInv
<1>1. CASE WaitEvents
  <2>1. DOMAIN ready = 1 .. Len(ready) /\ Len(ready) \in Nat
    BY DEF TablesInv, PeerTypes
  <2>2. ASSUME NEW i \in 1 .. Len(ready) PROVE Reported(ready[i], rst) \in Int
    <3>1. fd \in [Conns \cup {Phantom} -> Int]
      BY DEF TablesInv, PeerTypes
    <3> QED BY <3>1, Numbers DEF Reported, Alive
  <2>3. [i \in DOMAIN ready |-> Reported(ready[i], rst)] \in Seq(Int)
    BY <2>1, <2>2, IsASeq
  <2> QED BY <1>0, <1>1, <2>3 DEF WaitEvents, MainTypes, tableVars
<1>2. CASE Accept
  <2>1. Head(backlog) \in Clients
    BY <1>2, HeadTail DEF Accept, TablesInv, PeerTypes
  <2> QED BY <1>0, <1>2, <2>1, Names DEF Accept, MainTypes, tableVars
<1>3. CASE EventsDone \/ AcceptFails \/ InsertConn
  BY <1>0, <1>3 DEF EventsDone, AcceptFails, InsertConn, MainTypes, tableVars
<1>4. CASE SetClientTable
  <2>1. Tail(events) \in Seq(Int)
    BY <1>0, <1>4, HeadTail DEF SetClientTable, TablesInv, MainInv, MainTypes
  <2> QED BY <1>0, <1>4, <2>1 DEF SetClientTable, NextEvent, MainTypes
<1>5. CASE FindMessageConn
  <2>1. Tail(events) \in Seq(Int)
    BY <1>0, <1>5, HeadTail DEF FindMessageConn, MainTypes
  <2>2. \A n \in DOMAIN clientConns : clientConns[n] \in Conns \cup {Phantom}
    BY Names DEF TablesInv, ClientInv
  <2>3. \A n \in DOMAIN serverConns : serverConns[n] \in Conns
    BY Names DEF TablesInv, ServerInv
  <2> QED BY <1>0, <1>5, <2>1, <2>2, <2>3 DEF FindMessageConn, NextEvent, MainTypes, tableVars
<1>6. CASE AddRequest
  <2>1. Tail(events) \in Seq(Int)
    BY <1>0, <1>6, HeadTail DEF AddRequest, TablesInv, MainInv, MainTypes
  <2>2. hand \in Conns
    BY <1>6 DEF AddRequest, TablesInv, MainInv
  <2>3. que' \in Seq(Conns) /\ Len(que') <= QueSize
    BY <1>0, <1>6, <2>2, Numbers DEF AddRequest, MainTypes
  <2> QED BY <1>0, <1>6, <2>1, <2>3 DEF AddRequest, NextEvent, MainTypes, tableVars
<1>7. ASSUME NEW w \in Workers, WorkerPop(w) PROVE MainTypes'
  <2>1. Tail(que) \in Seq(Conns) /\ Len(Tail(que)) <= QueSize
    BY <1>0, <1>7, HeadTail, Numbers DEF WorkerPop, MainTypes
  <2> QED BY <1>0, <1>7, <2>1 DEF WorkerPop, MainTypes, tableVars, mainVars
<1>8. ASSUME NEW w \in Workers, ServerForget(w) PROVE MainTypes'
  <2>1. forwarding' \in Seq(Int)
    <3>1. fd[job[w]] \in Int
      BY <1>8 DEF ServerForget, TablesInv, WorkInv, PeerTypes, Conns
    <3> QED BY <1>0, <1>8, <3>1, ForgetServer DEF ServerForget, MainTypes
  <2> QED BY <1>0, <1>8, <2>1 DEF ServerForget, MainTypes, mainVars
<1>9. ASSUME NEW w \in Workers,
             \/ Recv(w) \/ ClearBuffer(w) \/ ClientGone(w) \/ ClientForget(w) \/ ServerGone(w)
             \/ ParseResponse(w) \/ FindClient(w)
      PROVE  MainTypes'
  BY <1>0, <1>9 DEF Recv, ClearBuffer, ClientGone, ClientForget, ServerGone, ParseResponse, FindClient,
                    MainTypes, mainVars, tableVars
<1>10. ASSUME NEW w \in Workers,
              ParseRequest(w) \/ FrontServer(w) \/ SendToServer(w) \/ SendToClient(w)
       PROVE  MainTypes'
  <2>1. UNCHANGED <<mainVars, tableVars, que>>
    BY <1>10 DEF ParseRequest, FrontServer, SendToServer, SendToClient, NotFound
  <2>2. crashed' = crashed \/ crashed' \in {"null", "sigpipe"}
    BY <1>10 DEF ParseRequest, FrontServer, SendToServer, SendToClient, NotFound, Written
  <2> QED BY <1>0, <2>1, <2>2 DEF MainTypes, mainVars, tableVars
<1>11. CASE RaceCrash \/ PeerStep
  BY <1>0, <1>11 DEF RaceCrash, PeerStep, MainTypes, mainVars, tableVars
<1> QED
  BY <1>1, <1>2, <1>3, <1>4, <1>5, <1>6, <1>7, <1>8, <1>9, <1>10, <1>11
  DEF ProxyNext, MainStep, WorkerStep

--------------------------------------------------------------------------------
(* Which connections are open *)

Held(c) ==
    \/ InClients(c) \/ InServers(c) \/ hand = c
    \/ \E i \in DOMAIN que : que[i] = c
    \/ \E w \in Workers : job[w] = c

LEMMA AliveIsHeld == WorkTypes => \A c : c \in Alive <=> c \in Conns /\ Held(c)
BY DEF WorkTypes, Alive, Held, InClients, InServers, Range, ToSet

LEMMA AliveIsHeldNext == WorkTypes' => \A c : c \in Alive' <=> c \in Conns /\ Held(c)'
BY DEF WorkTypes, Alive, Held, InClients, InServers, Range, ToSet

\* What an Append and a Tail do to the elements of a sequence.
LEMMA AppendElements ==
    ASSUME NEW S, NEW q \in Seq(S), NEW e
    PROVE  \A c : (\E i \in DOMAIN Append(q, e) : Append(q, e)[i] = c)
                     <=> (\E i \in DOMAIN q : q[i] = c) \/ c = e
<1> DEFINE r == Append(q, e)
<1>1. /\ DOMAIN r = 1 .. Len(q) + 1 /\ r[Len(q) + 1] = e /\ \A i \in 1 .. Len(q) : r[i] = q[i]
      /\ DOMAIN q = 1 .. Len(q) /\ Len(q) \in Nat
  OBVIOUS
<1> HIDE DEF r
<1> QED BY <1>1

LEMMA TailElements ==
    ASSUME NEW S, NEW q \in Seq(S), q # <<>>
    PROVE  \A c : (\E i \in DOMAIN q : q[i] = c)
                     <=> (\E i \in DOMAIN Tail(q) : Tail(q)[i] = c) \/ c = Head(q)
<1> DEFINE r == Tail(q)
<1>1. /\ DOMAIN r = 1 .. Len(q) - 1 /\ Head(q) = q[1] /\ \A i \in 1 .. Len(q) - 1 : r[i] = q[i + 1]
      /\ DOMAIN q = 1 .. Len(q) /\ Len(q) \in Nat /\ Len(q) >= 1
  OBVIOUS
<1> HIDE DEF r
<1>2. \A i \in 2 .. Len(q) : i - 1 \in 1 .. Len(q) - 1 /\ q[i] = r[i - 1]
  <2> TAKE i \in 2 .. Len(q)
  <2>1. i - 1 \in 1 .. Len(q) - 1 /\ (i - 1) + 1 = i
    BY <1>1
  <2> QED BY <1>1, <2>1
<1>3. \A i \in 1 .. Len(q) : i = 1 \/ i \in 2 .. Len(q)
  BY <1>1
<1>4. \A i \in 1 .. Len(q) - 1 : i + 1 \in 1 .. Len(q)
  BY <1>1
<1>5. 1 \in DOMAIN q
  BY <1>1
<1> SUFFICES ASSUME NEW c
             PROVE  (\E i \in DOMAIN q : q[i] = c) <=> (\E i \in DOMAIN r : r[i] = c) \/ c = q[1]
  BY <1>1 DEF r
<1>6. ASSUME NEW i \in DOMAIN q, q[i] = c PROVE (\E j \in DOMAIN r : r[j] = c) \/ c = q[1]
  BY <1>1, <1>2, <1>3, <1>6
<1>7. ASSUME NEW i \in DOMAIN r, r[i] = c PROVE \E j \in DOMAIN q : q[j] = c
  BY <1>1, <1>4, <1>7
<1> QED BY <1>5, <1>6, <1>7, <1>1

\* Only accept() opens a connection.
LEMMA HeldStep ==
    ASSUME TablesInv, ProxyNext, NEW c \in Conns, Held(c)'
    PROVE  Held(c) \/ (Accept /\ c = Head(backlog))
<1> USE Names
<1>1. CASE WaitEvents \/ EventsDone \/ AcceptFails \/ SetClientTable \/ RaceCrash \/ PeerStep
  BY <1>1 DEF WaitEvents, EventsDone, AcceptFails, SetClientTable, RaceCrash, PeerStep, Held,
              InClients, InServers, tableVars, mainVars, workVars
<1>2. CASE Accept
  BY <1>2 DEF Accept, Held, InClients, InServers, tableVars, workVars
<1>3. CASE InsertConn
  BY <1>3 DEF InsertConn, With, Held, InClients, InServers, workVars
<1>4. CASE FindMessageConn
  BY <1>4 DEF FindMessageConn, Held, InClients, InServers, tableVars, workVars
<1>5. CASE AddRequest
  <2>1. que \in Seq(Conns) /\ hand \in Conns
    BY <1>5 DEF AddRequest, TablesInv, MainTypes, MainInv
  <2>2. \A d : (\E i \in DOMAIN que' : que'[i] = d) <=> (\E i \in DOMAIN que : que[i] = d) \/ d = hand
    BY <1>5, <2>1, AppendElements DEF AddRequest
  <2> QED BY <1>5, <2>2 DEF AddRequest, Held, InClients, InServers, tableVars, workVars
<1>6. ASSUME NEW w \in Workers, WorkerPop(w) PROVE Held(c)
  <2>1. que \in Seq(Conns) /\ que # <<>> /\ Head(que) \in Conns
    BY <1>6, HeadTail DEF WorkerPop, TablesInv, MainTypes
  <2>2. \A d : (\E i \in DOMAIN que : que[i] = d) <=> (\E i \in DOMAIN que' : que'[i] = d) \/ d = Head(que)
    <3>1. \A d : (\E i \in DOMAIN que : que[i] = d)
                     <=> (\E i \in DOMAIN Tail(que) : Tail(que)[i] = d) \/ d = Head(que)
      BY <2>1, TailElements
    <3> QED BY <1>6, <3>1 DEF WorkerPop
  <2>3. \A v \in Workers : job'[v] = job[v] \/ job'[v] = Head(que)
    BY <1>6 DEF WorkerPop, TablesInv, WorkTypes
  <2> QED BY <1>6, <2>2, <2>3 DEF WorkerPop, Held, InClients, InServers, tableVars, mainVars
<1>7. ASSUME NEW w \in Workers, WorkerStep(w), ~WorkerPop(w) PROVE Held(c)
  <2>1. UNCHANGED <<que, mainVars>>
    BY <1>7 DEF WorkerStep, Recv, ClearBuffer, ClientGone, ClientForget, ParseRequest, FrontServer,
                SendToServer, ServerGone, ServerForget, ParseResponse, FindClient, SendToClient, NotFound
  <2>2. job' = job \/ job' = [job EXCEPT ![w] = Nobody]
    BY <1>7 DEF WorkerStep, Recv, ClearBuffer, ClientGone, ClientForget, ParseRequest, FrontServer,
                SendToServer, ServerGone, ServerForget, ParseResponse, FindClient, SendToClient, NotFound,
                Done, workVars
  <2>3. \A v \in Workers : job'[v] = c => job[v] = c
    BY <2>2 DEF TablesInv, WorkTypes
  <2>4. \/ clientConns' = clientConns
        \/ clientConns' = Without(clientConns, fd[job[w]])
    BY <1>7 DEF WorkerStep, Recv, ClearBuffer, ClientGone, ClientForget, ParseRequest, FrontServer,
                SendToServer, ServerGone, ServerForget, ParseResponse, FindClient, SendToClient, NotFound,
                tableVars
  <2>5. \/ serverConns' = serverConns
        \/ serverConns' = Without(serverConns, fd[job[w]])
    BY <1>7 DEF WorkerStep, Recv, ClearBuffer, ClientGone, ClientForget, ParseRequest, FrontServer,
                SendToServer, ServerGone, ServerForget, ParseResponse, FindClient, SendToClient, NotFound,
                tableVars
  <2>6. InClients(c)' => InClients(c)
    BY <2>4 DEF InClients, Without, Restrict
  <2>7. InServers(c)' => InServers(c)
    BY <2>5 DEF InServers, Without, Restrict
  <2> QED BY <2>1, <2>3, <2>6, <2>7 DEF Held, mainVars
<1> QED BY <1>1, <1>2, <1>3, <1>4, <1>5, <1>6, <1>7 DEF ProxyNext, MainStep, WorkerStep

LEMMA ClientsHeld == TablesInv => \A c \in Clients : Held(c) => fd[c] # NoFd
BY Names DEF TablesInv, Held, InClients, InServers, FdInv, MainInv, WorkInv, ClientInv, ServerInv,
             MainTypes, WorkTypes

\* What accept() does to the numbers; no other step touches them.
LEMMA FdStep ==
    ASSUME TablesInv, ProxyNext
    PROVE  \/ fd' = fd /\ ~Accept
           \/ /\ Accept
              /\ Head(backlog) \in Clients /\ fd[Head(backlog)] = NoFd /\ ~Held(Head(backlog))
              /\ \E n \in Int : /\ n >= FirstFd /\ \A c \in Alive : fd[c] # n
                                /\ fd' = [fd EXCEPT ![Head(backlog)] = n]
<1>1. CASE Accept
  <2>1. backlog \in Seq(Clients) /\ backlog # <<>>
    BY <1>1 DEF Accept, TablesInv, PeerTypes
  <2>2. Head(backlog) \in Clients /\ fd[Head(backlog)] = NoFd
    BY <2>1, HeadTail DEF TablesInv, FdInv
  <2>3. ~Held(Head(backlog))
    BY <2>2, ClientsHeld
  <2>4. PICK n \in FreeFds : fd' = [fd EXCEPT ![Head(backlog)] = n]
    BY <1>1 DEF Accept
  <2>5. n \in Int /\ n >= FirstFd /\ \A c \in Alive : fd[c] # n
    BY <2>4, Numbers DEF FreeFds
  <2> QED BY <1>1, <2>2, <2>3, <2>4, <2>5
<1>2. CASE ~Accept
  <2>1. CASE \/ WaitEvents \/ EventsDone \/ AcceptFails \/ InsertConn \/ SetClientTable
             \/ FindMessageConn \/ AddRequest \/ RaceCrash \/ PeerStep
    BY <1>2, <2>1 DEF WaitEvents, EventsDone, AcceptFails, InsertConn, SetClientTable, FindMessageConn,
         AddRequest, RaceCrash, PeerStep, Connect, Send, Answer, Close, netVars
  <2>2. ASSUME NEW w \in Workers, WorkerStep(w) PROVE fd' = fd
    BY <2>2 DEF WorkerStep, WorkerPop, Recv, ClearBuffer, ClientGone, ClientForget, ParseRequest,
         FrontServer, SendToServer, ServerGone, ServerForget, ParseResponse, FindClient, SendToClient,
         NotFound, netVars
  <2> QED BY <1>2, <2>1, <2>2 DEF ProxyNext, MainStep
<1> QED BY <1>1, <1>2

\* A number, once given, stays; and a server keeps what it had at the start.
LEMMA FdStays ==
    ASSUME TablesInv, ProxyNext
    PROVE  /\ fd' \in [Conns \cup {Phantom} -> Int]
           /\ \A c \in Conns \cup {Phantom} : fd[c] # NoFd => fd'[c] = fd[c]
           /\ \A s \in Servers : fd'[s] = fd[s]
           /\ \A c \in Conns : Held(c) => fd'[c] = fd[c]
           /\ fd'[Phantom] = fd[Phantom]
<1>1. fd' \in [Conns \cup {Phantom} -> Int]
  BY PeerTypesStep DEF PeerTypes
<1>2. fd \in [Conns \cup {Phantom} -> Int]
  BY DEF TablesInv, PeerTypes
<1> QED BY <1>1, <1>2, FdStep, Names

LEMMA NumbersDistinct ==
    ASSUME TablesInv, ProxyNext
    PROVE  \A c, d \in Alive' : fd'[c] = fd'[d] /\ fd'[c] # NoFd => c = d
<1> SUFFICES ASSUME NEW c \in Alive', NEW d \in Alive', fd'[c] = fd'[d], fd'[c] # NoFd, c # d
             PROVE  FALSE
  OBVIOUS
<1>1. c \in Conns /\ d \in Conns /\ Held(c)' /\ Held(d)'
  BY AliveIsHeldNext, WorkTypesStep
<1>2. \A x, y \in Conns : Held(x) /\ Held(y) /\ fd[x] = fd[y] /\ fd[x] # NoFd => x = y
  BY AliveIsHeld DEF TablesInv, FdInv
<1>3. CASE ~Accept
  BY <1>1, <1>2, <1>3, HeldStep, FdStep
<1>4. CASE Accept
  <2> DEFINE h == Head(backlog)
  <2>1. PICK n \in Int : (\A x \in Alive : fd[x] # n) /\ fd' = [fd EXCEPT ![h] = n] /\ h \in Clients
    BY <1>4, FdStep
  <2>2. \A x \in Conns : Held(x) => fd[x] # n
    BY <2>1, AliveIsHeld DEF TablesInv
  <2>3. \A x \in Conns : Held(x)' => Held(x) \/ x = h
    BY HeldStep
  <2>4. fd'[h] = n /\ \A x \in Conns : x # h => fd'[x] = fd[x]
    BY <2>1, Names DEF TablesInv, PeerTypes
  <2> HIDE DEF h
  <2> QED BY <1>1, <1>2, <2>2, <2>3, <2>4
<1> QED BY <1>3, <1>4

InReady(c) == \E i \in DOMAIN ready : ready[i] = c

LEMMA EdgeElements ==
    ASSUME TablesInv, NEW x \in Conns \cup {Listener}, ready' = Edge(x)
    PROVE  \A c : InReady(c)' <=> InReady(c) \/ c = x
BY EdgeType DEF TablesInv, PeerTypes, InReady

\* epoll_wait empties the ready list; an edge is added for an open connection only.
LEMMA ReadyStep ==
    ASSUME TablesInv, ProxyNext, NEW c \in Conns
    PROVE  /\ InReady(c)' => InReady(c) \/ fd'[c] # NoFd
           /\ InReady(c) => InReady(c)' \/ WaitEvents
<1> USE Names
<1>1. CASE WaitEvents
  BY <1>1 DEF WaitEvents, InReady
<1>2. CASE Accept
  <2>1. Head(backlog) \in Clients /\ fd'[Head(backlog)] # NoFd
    BY <1>2, FdStep, Numbers DEF TablesInv, PeerTypes
  <2>2. ready' = ready \/ ready' = Edge(Head(backlog))
    BY <1>2 DEF Accept
  <2> QED BY <2>1, <2>2, EdgeElements DEF InReady
<1>3. CASE EventsDone \/ AcceptFails \/ InsertConn \/ SetClientTable \/ FindMessageConn \/ AddRequest
           \/ RaceCrash
  BY <1>3 DEF EventsDone, AcceptFails, InsertConn, SetClientTable, FindMessageConn, AddRequest,
              RaceCrash, netVars, InReady
<1>4. ASSUME NEW w \in Workers, WorkerStep(w) PROVE ready' = ready
  BY <1>4 DEF WorkerStep, WorkerPop, Recv, ClearBuffer, ClientGone, ClientForget, ParseRequest,
       FrontServer, SendToServer, ServerGone, ServerForget, ParseResponse, FindClient, SendToClient,
       NotFound, netVars
<1>5. CASE PeerStep
  <2>1. \A x \in Clients : x \in Alive => fd[x] # NoFd
    BY AliveIsHeld, ClientsHeld DEF TablesInv
  <2>2. \A x \in Servers : atServer[x] # <<>> => fd[x] # NoFd
    BY DEF TablesInv, FdInv
  <2>3. \A x \in Servers : x \in Established => fd[x] # NoFd
    BY DEF Established, ToSet, TablesInv, PeerTypes
  <2>4. PICK x \in Conns \cup {Listener} :
           /\ ready' = ready \/ ready' = Edge(x)
           /\ ready' # ready /\ x # Listener => fd[x] # NoFd
    BY <1>5, <2>1, <2>2, <2>3 DEF PeerStep, Connect, Send, Answer, Close
  <2>5. fd' = fd
    BY <1>5 DEF PeerStep, Connect, Send, Answer, Close
  <2> QED BY <2>4, <2>5, EdgeElements DEF InReady
<1> QED BY <1>1, <1>2, <1>3, <1>4, <1>5 DEF ProxyNext, MainStep, InReady

LEMMA BacklogStep ==
    ASSUME TablesInv, ProxyNext
    PROVE  /\ \A i, j \in DOMAIN backlog' : backlog'[i] = backlog'[j] => i = j
           /\ \A i \in DOMAIN backlog' : fd'[backlog'[i]] = NoFd
<1>0. /\ backlog \in Seq(Clients) /\ DOMAIN backlog = 1 .. Len(backlog)
      /\ \A i, j \in DOMAIN backlog : backlog[i] = backlog[j] => i = j
      /\ \A i \in DOMAIN backlog : fd[backlog[i]] = NoFd
  BY DEF TablesInv, PeerTypes, FdInv
<1>1. CASE Accept
  <2>1. backlog # <<>> /\ backlog' = Tail(backlog)
    BY <1>1 DEF Accept
  <2>2. /\ DOMAIN backlog' = 1 .. Len(backlog) - 1 /\ Head(backlog) = backlog[1]
        /\ \A i \in 1 .. Len(backlog) - 1 : backlog'[i] = backlog[i + 1]
    BY <1>0, <2>1
  <2>3. \A i \in 1 .. Len(backlog) - 1 :
           i + 1 \in 1 .. Len(backlog) /\ i + 1 # 1 /\ 1 \in 1 .. Len(backlog)
    BY <1>0
  <2>4. \A c \in Clients : c # Head(backlog) => fd'[c] = fd[c]
    BY <1>1, FdStep, Names DEF TablesInv, PeerTypes
  <2>5. \A i \in 1 .. Len(backlog) - 1 : backlog[i + 1] \in Clients /\ backlog[i + 1] # backlog[1]
    BY <1>0, <2>3
  <2>6. \A i \in DOMAIN backlog' : fd'[backlog'[i]] = NoFd
    BY <1>0, <2>2, <2>3, <2>4, <2>5
  <2>7. \A i, j \in 1 .. Len(backlog) - 1 : i + 1 = j + 1 => i = j
    BY <1>0
  <2> QED BY <1>0, <2>2, <2>3, <2>6, <2>7
<1>2. ASSUME NEW c \in Clients, Connect(c)
      PROVE  /\ \A i, j \in DOMAIN backlog' : backlog'[i] = backlog'[j] => i = j
             /\ \A i \in DOMAIN backlog' : fd'[backlog'[i]] = NoFd
  <2>1. fd[c] = NoFd /\ \A i \in DOMAIN backlog : backlog[i] # c
    BY <1>2, Names DEF Connect, Established, ToSet
  <2>2. /\ DOMAIN backlog' = 1 .. Len(backlog) + 1 /\ backlog'[Len(backlog) + 1] = c
        /\ \A i \in 1 .. Len(backlog) : backlog'[i] = backlog[i]
    BY <1>0, <1>2 DEF Connect
  <2>3. Len(backlog) \in Nat /\ \A i \in 1 .. Len(backlog) + 1 : i = Len(backlog) + 1 \/ i \in 1 .. Len(backlog)
    BY <1>0
  <2>4. fd' = fd
    BY <1>2 DEF Connect
  <2> QED BY <1>0, <2>1, <2>2, <2>3, <2>4
<1>3. ASSUME NEW w \in Workers, WorkerStep(w) PROVE backlog' = backlog /\ fd' = fd
  BY <1>3 DEF WorkerStep, WorkerPop, Recv, ClearBuffer, ClientGone, ClientForget, ParseRequest,
       FrontServer, SendToServer, ServerGone, ServerForget, ParseResponse, FindClient, SendToClient,
       NotFound, netVars
<1>4. CASE \/ WaitEvents \/ EventsDone \/ AcceptFails \/ InsertConn \/ SetClientTable \/ FindMessageConn
           \/ AddRequest \/ RaceCrash
  BY <1>0, <1>4 DEF WaitEvents, EventsDone, AcceptFails, InsertConn, SetClientTable, FindMessageConn,
                    AddRequest, RaceCrash, netVars
<1>5. CASE PeerStep /\ ~\E c \in Clients : Connect(c)
  <2>1. backlog' = backlog /\ fd' = fd
    BY <1>5 DEF PeerStep, Send, Answer, Close
  <2> QED BY <1>0, <2>1
<1>6. CASE PeerStep /\ \E c \in Clients : Connect(c)
  BY <1>2, <1>6
<1>7. CASE \E w \in Workers : WorkerStep(w)
  BY <1>0, <1>3, <1>7
<1> QED BY <1>1, <1>4, <1>5, <1>6, <1>7 DEF ProxyNext, MainStep

\* A server that never had a connection sends and receives nothing.
LEMMA AbsentServerStep ==
    ASSUME TablesInv, ProxyNext, NEW s \in Servers, fd'[s] = NoFd
    PROVE  inbox'[s] = <<>> /\ atServer'[s] = <<>> /\ s \notin fin'
<1>0. fd[s] = NoFd /\ inbox[s] = <<>> /\ atServer[s] = <<>> /\ s \notin fin
  BY FdStays DEF TablesInv, FdInv
<1>1. CASE \/ WaitEvents \/ EventsDone \/ Accept \/ AcceptFails \/ InsertConn \/ SetClientTable
           \/ FindMessageConn \/ AddRequest \/ RaceCrash
  BY <1>0, <1>1 DEF WaitEvents, EventsDone, Accept, AcceptFails, InsertConn, SetClientTable,
                    FindMessageConn, AddRequest, RaceCrash, netVars
<1>2. ASSUME NEW w \in Workers, Recv(w) PROVE inbox'[s] = <<>> /\ atServer' = atServer /\ fin' = fin
  BY <1>0, <1>2, Names DEF Recv, TablesInv, PeerTypes
<1>3. ASSUME NEW w \in Workers, SendToServer(w)
      PROVE  inbox' = inbox /\ atServer'[s] = <<>> /\ fin' = fin
  <2>1. CASE local[w].fd \notin DOMAIN serverConns
    BY <1>0, <1>3, <2>1 DEF SendToServer, netVars
  <2>2. CASE local[w].fd \in DOMAIN serverConns
    <3> DEFINE x == serverConns[local[w].fd]
    <3>1. atServer' = atServer \/ (Reaches(x) /\ atServer' = [atServer EXCEPT ![x] = Append(@, job[w])])
      BY <1>3, <2>2 DEF SendToServer
    <3>2. Reaches(x) => x # s
      BY <1>0 DEF Reaches
    <3> QED BY <1>0, <1>3, <2>2, <3>1, <3>2 DEF SendToServer, TablesInv, PeerTypes
  <2> QED BY <2>1, <2>2
<1>4. ASSUME NEW w \in Workers, WorkerStep(w), ~Recv(w), ~SendToServer(w)
      PROVE  UNCHANGED <<inbox, atServer, fin>>
  BY <1>4 DEF WorkerStep, WorkerPop, ClearBuffer, ClientGone, ClientForget, ParseRequest,
       FrontServer, ServerGone, ServerForget, ParseResponse, FindClient, SendToClient, NotFound, netVars
<1>5. CASE PeerStep
  <2>1. s \notin Established
    BY <1>0, Names DEF Established, ToSet, TablesInv, PeerTypes
  <2> QED BY <1>0, <1>5, <2>1, Names DEF PeerStep, Connect, Send, Answer, Close, TablesInv, PeerTypes
<1> QED BY <1>0, <1>1, <1>2, <1>3, <1>4, <1>5 DEF ProxyNext, MainStep

LEMMA FdInvStep == TablesInv /\ ProxyNext => FdInv'
<1> SUFFICES ASSUME TablesInv, ProxyNext PROVE FdInv'
  OBVIOUS
<1>1. \A c \in DOMAIN fd' : fd'[c] = NoFd \/ fd'[c] >= FirstFd
  <2>1. \A c \in Conns \cup {Phantom} : fd[c] = NoFd \/ fd[c] >= FirstFd
    BY DEF TablesInv, PeerTypes, FdInv
  <2> QED BY <2>1, FdStep, FdStays DEF TablesInv, PeerTypes
<1>2. fd'[Phantom] = NoFd
  BY FdStays DEF TablesInv, FdInv
<1>3. \A c, d \in Alive' : fd'[c] = fd'[d] /\ fd'[c] # NoFd => c = d
  BY NumbersDistinct
<1>4. \A s, t \in Servers : fd'[s] = fd'[t] /\ fd'[s] # NoFd => s = t
  BY FdStays DEF TablesInv, FdInv
<1>5. \A c \in Conns : InReady(c)' => fd'[c] # NoFd
  BY ReadyStep, FdStays DEF TablesInv, FdInv, InReady
<1>6. \A s \in Servers : fd'[s] = NoFd => inbox'[s] = <<>> /\ atServer'[s] = <<>> /\ s \notin fin'
  BY AbsentServerStep
<1> QED BY <1>1, <1>2, <1>3, <1>4, <1>5, <1>6, BacklogStep DEF FdInv, InReady

--------------------------------------------------------------------------------
(* The workers' part *)

\* A step of one worker is no step of another.
LEMMA OtherWorkers ==
    ASSUME TablesInv, NEW v \in Workers, WorkerStep(v), NEW w \in Workers, w # v
    PROVE  wpc'[w] = wpc[w] /\ job'[w] = job[w]
<1>1. \/ wpc' = wpc
      \/ \E l : wpc' = [wpc EXCEPT ![v] = l]
  BY DEF WorkerStep, WorkerPop, Recv, ClearBuffer, ClientGone, ClientForget, ParseRequest, FrontServer,
         SendToServer, ServerGone, ServerForget, ParseResponse, FindClient, SendToClient, NotFound,
         Done, Goto, workVars
<1>2. job' = job \/ \E c : job' = [job EXCEPT ![v] = c]
  BY DEF WorkerStep, WorkerPop, Recv, ClearBuffer, ClientGone, ClientForget, ParseRequest, FrontServer,
         SendToServer, ServerGone, ServerForget, ParseResponse, FindClient, SendToClient, NotFound,
         Done, workVars
<1> QED BY <1>1, <1>2 DEF TablesInv, WorkTypes

\* Where a worker's own step leads it, and with which connection.
LEMMA OwnStep ==
    ASSUME TablesInv, NEW w \in Workers, WorkerStep(w)
    PROVE  \/ wpc'[w] = "pop" /\ job'[w] = Nobody
           \/ wpc[w] = "pop" /\ wpc'[w] = "recv" /\ que # <<>> /\ job'[w] = Head(que)
           \/ /\ wpc[w] # "pop" /\ job'[w] = job[w]
              /\ \/ wpc'[w] \in {"recv", "parse", "send", "clear"}
                 \/ wpc[w] = "recv" /\ wpc'[w] = "clientGone" /\ job[w] \in Clients \cap fin
                 \/ wpc[w] = "recv" /\ wpc'[w] = "serverGone" /\ job[w] \in Servers \cap fin
                 \/ wpc[w] = "clientGone" /\ wpc'[w] = "clientForget"
                 \/ wpc[w] = "serverGone" /\ wpc'[w] = "serverForget"
                 \/ wpc'[w] = "front" /\ job[w] \in Clients
                 \/ wpc'[w] = "find" /\ job[w] \in Servers
<1>0. /\ \A l : Goto(w, l) => wpc'[w] = l
      /\ \A c : job' = [job EXCEPT ![w] = c] => job'[w] = c
      /\ job[w] \in Conns \cup {Nobody}
  BY DEF TablesInv, WorkTypes, Goto
<1>1. ASSUME Done(w) PROVE wpc'[w] = "pop" /\ job'[w] = Nobody
  BY <1>0, <1>1 DEF Done
<1>2. CASE WorkerPop(w)
  BY <1>0, <1>2 DEF WorkerPop
<1>3. CASE Recv(w)
  <2>1. wpc[w] = "recv" /\ job'[w] = job[w] /\ job[w] \in Clients \cup Servers
    BY <1>0, <1>3, Names DEF Recv, TablesInv, WorkInv
  <2>2. \/ wpc' = wpc \/ Goto(w, "parse")
        \/ job[w] \in fin /\ Goto(w, IF job[w] \in Clients THEN "clientGone" ELSE "serverGone")
    BY <1>3 DEF Recv
  <2> QED BY <1>0, <2>1, <2>2
<1>4. CASE ClientGone(w) \/ ServerGone(w) \/ ServerForget(w)
  BY <1>0, <1>4 DEF ClientGone, ServerGone, ServerForget
<1>5. CASE ClientForget(w) \/ ClearBuffer(w)
  BY <1>1, <1>5 DEF ClientForget, ClearBuffer
<1>6. CASE ParseRequest(w) \/ FrontServer(w)
  BY <1>0, <1>1, <1>6 DEF ParseRequest, FrontServer, NotFound
<1>7. CASE ParseResponse(w) \/ FindClient(w)
  BY <1>0, <1>1, <1>7 DEF ParseResponse, FindClient
<1>8. CASE SendToServer(w) \/ SendToClient(w)
  BY <1>0, <1>8 DEF SendToServer, SendToClient, workVars
<1> QED BY <1>2, <1>3, <1>4, <1>5, <1>6, <1>7, <1>8 DEF WorkerStep

\* What is no worker's step leaves the workers where they are.
LEMMA NoWorkersStep ==
    ASSUME ProxyNext, ~\E w \in Workers : WorkerStep(w)
    PROVE  UNCHANGED <<wpc, job>>
BY DEF ProxyNext, MainStep, WaitEvents, EventsDone, Accept, AcceptFails, InsertConn, SetClientTable,
       FindMessageConn, AddRequest, RaceCrash, PeerStep, workVars

\* Nobody who has closed comes back.
LEMMA FinGrows == ProxyNext => fin \subseteq fin'
BY DEF ProxyNext, MainStep, WaitEvents, EventsDone, Accept, AcceptFails, InsertConn, SetClientTable,
       FindMessageConn, AddRequest, RaceCrash, PeerStep, Connect, Send, Answer, Close, netVars,
       WorkerStep, WorkerPop, Recv, ClearBuffer, ClientGone, ClientForget, ParseRequest, FrontServer,
       SendToServer, ServerGone, ServerForget, ParseResponse, FindClient, SendToClient, NotFound

\* The queue: one connection joins it, or one leaves it.
LEMMA QueStep ==
    ASSUME TablesInv, ProxyNext, NEW c, \E i \in DOMAIN que' : que'[i] = c
    PROVE  (\E i \in DOMAIN que : que[i] = c) \/ (AddRequest /\ c = hand)
<1>0. que \in Seq(Conns)
  BY DEF TablesInv, MainTypes
<1>1. CASE AddRequest
  <2>1. que' = Append(que, hand)
    BY <1>1 DEF AddRequest
  <2> QED BY <1>0, <1>1, <2>1, AppendElements
<1>2. ASSUME NEW w \in Workers, WorkerPop(w) PROVE \E i \in DOMAIN que : que[i] = c
  <2>1. que # <<>> /\ que' = Tail(que)
    BY <1>2 DEF WorkerPop
  <2>2. \A d : (\E i \in DOMAIN que : que[i] = d)
                   <=> (\E i \in DOMAIN Tail(que) : Tail(que)[i] = d) \/ d = Head(que)
    BY <1>0, <2>1, TailElements
  <2> QED BY <2>1, <2>2
<1>3. CASE ~AddRequest /\ ~\E w \in Workers : WorkerPop(w)
  BY <1>3 DEF ProxyNext, MainStep, WaitEvents, EventsDone, Accept, AcceptFails, InsertConn,
       SetClientTable, FindMessageConn, RaceCrash, PeerStep, WorkerStep, Recv, ClearBuffer, ClientGone,
       ClientForget, ParseRequest, FrontServer, SendToServer, ServerGone, ServerForget, ParseResponse,
       FindClient, SendToClient, NotFound
<1> QED BY <1>1, <1>2, <1>3

LEMMA WorkInvStep == TablesInv /\ ProxyNext => WorkInv'
<1> SUFFICES ASSUME TablesInv, ProxyNext PROVE WorkInv'
  OBVIOUS
<1>0. WorkInv /\ WorkTypes /\ MainTypes
  BY DEF TablesInv
<1>1. \A c \in Conns : fd[c] # NoFd => fd'[c] # NoFd
  BY FdStays
<1>2. ASSUME NEW i \in DOMAIN que' PROVE fd'[que'[i]] # NoFd
  <2>1. (\E j \in DOMAIN que : que[j] = que'[i]) \/ (AddRequest /\ que'[i] = hand)
    BY QueStep
  <2>2. AddRequest => hand \in Conns /\ fd[hand] # NoFd
    BY DEF AddRequest, TablesInv, MainInv
  <2>3. \A j \in DOMAIN que : que[j] \in Conns /\ fd[que[j]] # NoFd
    BY <1>0 DEF WorkInv, MainTypes
  <2> QED BY <1>1, <2>1, <2>2, <2>3
<1>3. CASE UNCHANGED <<wpc, job>>
  BY <1>0, <1>1, <1>2, <1>3, FinGrows DEF WorkInv, WorkTypes
<1>4. ASSUME NEW v \in Workers, WorkerStep(v) PROVE WorkInv'
  <2>1. que # <<>> => Head(que) \in Conns /\ fd[Head(que)] # NoFd
    BY <1>0, HeadTail DEF WorkInv, MainTypes
  <2>2. ASSUME NEW w \in Workers
        PROVE  /\ job'[w] # Nobody => fd'[job'[w]] # NoFd
               /\ wpc'[w] = "pop" <=> job'[w] = Nobody
               /\ wpc'[w] \in {"clientGone", "clientForget"} => job'[w] \in Clients \cap fin'
               /\ wpc'[w] \in {"serverGone", "serverForget"} => job'[w] \in Servers \cap fin'
               /\ wpc'[w] = "front" => job'[w] \in Clients
               /\ wpc'[w] = "find" => job'[w] \in Servers
    <3>1. CASE w # v
      BY <1>0, <1>1, <1>4, <3>1, OtherWorkers, FinGrows DEF WorkInv, WorkTypes
    <3>2. CASE w = v
      <4>1. fin \subseteq fin' /\ Nobody \notin Conns
        BY FinGrows, Names
      <4>2. CASE wpc'[w] = "pop" /\ job'[w] = Nobody
        BY <4>2
      <4>3. CASE wpc'[w] = "recv" /\ que # <<>> /\ job'[w] = Head(que)
        BY <1>1, <2>1, <4>1, <4>3
      <4>4. CASE wpc[w] # "pop" /\ job'[w] = job[w]
        <5>1. job[w] \in Conns /\ fd'[job[w]] # NoFd /\ job[w] # Nobody
          BY <1>0, <1>1, <4>1, <4>4 DEF WorkInv, WorkTypes
        <5>2. /\ wpc[w] \in {"clientGone", "clientForget"} => job[w] \in Clients \cap fin
              /\ wpc[w] \in {"serverGone", "serverForget"} => job[w] \in Servers \cap fin
          BY <1>0 DEF WorkInv
        <5> QED BY <1>4, <3>2, <4>1, <4>4, <5>1, <5>2, OwnStep
      <4> QED BY <1>4, <3>2, <4>2, <4>3, <4>4, OwnStep
    <3> QED BY <3>1, <3>2
  <2> QED BY <1>2, <2>2 DEF WorkInv
<1> QED BY <1>3, <1>4, NoWorkersStep

--------------------------------------------------------------------------------
(* The main thread's part *)

\* What a worker does to the client tables.
LEMMA WorkersOnClients ==
    ASSUME TablesInv, NEW w \in Workers, WorkerStep(w)
    PROVE  \/ /\ UNCHANGED <<clientConns, clientTable>>
              /\ wpc[w] \notin {"clientGone", "clientForget"}
           \/ /\ wpc[w] = "clientGone" /\ wpc'[w] = "clientForget" /\ job' = job
              /\ clientConns' = Without(clientConns, fd[job[w]]) /\ clientTable' = clientTable
           \/ /\ wpc[w] = "clientForget" /\ wpc'[w] = "pop" /\ job'[w] = Nobody
              /\ clientConns' = clientConns /\ clientTable' = Without(clientTable, job[w])
<1>1. CASE ClientGone(w)
  <2>1. wpc'[w] = "clientForget"
    BY <1>1 DEF ClientGone, Goto, TablesInv, WorkTypes
  <2> QED BY <1>1, <2>1 DEF ClientGone
<1>2. CASE ClientForget(w)
  <2>1. wpc'[w] = "pop" /\ job'[w] = Nobody
    BY <1>2 DEF ClientForget, Done, Goto, TablesInv, WorkTypes
  <2> QED BY <1>2, <2>1 DEF ClientForget
<1>3. CASE ~ClientGone(w) /\ ~ClientForget(w)
  BY <1>3 DEF WorkerStep, WorkerPop, Recv, ClearBuffer, ParseRequest, FrontServer, SendToServer,
         ServerGone, ServerForget, ParseResponse, FindClient, SendToClient, NotFound, tableVars
<1> QED BY <1>1, <1>2, <1>3

\* A removal by number takes away the connection it is meant for, and no other.
LEMMA WithoutClient ==
    ASSUME TablesInv, NEW w \in Workers, wpc[w] = "clientGone",
           clientConns' = Without(clientConns, fd[job[w]])
    PROVE  /\ \A c \in Clients \cup {Phantom} : InClients(c)' <=> InClients(c) /\ c # job[w]
           /\ NoFd \in DOMAIN clientConns => NoFd \in DOMAIN clientConns'
           /\ \A n \in DOMAIN clientConns' : n \in DOMAIN clientConns /\ clientConns'[n] = clientConns[n]
<1>1. job[w] \in Clients /\ fd[job[w]] # NoFd /\ Held(job[w])
  BY Names DEF TablesInv, WorkInv, Held
<1>2. \A n \in DOMAIN clientConns' : n \in DOMAIN clientConns /\ clientConns'[n] = clientConns[n]
  BY DEF Without, Restrict
<1>3. \A n \in DOMAIN clientConns : n # fd[job[w]] => n \in DOMAIN clientConns'
  BY DEF Without, Restrict
<1>4. fd[job[w]] \notin DOMAIN clientConns'
  BY DEF Without, Restrict
<1>5. \A c \in Clients : InClients(c) /\ fd[c] = fd[job[w]] => c = job[w]
  BY <1>1, AliveIsHeld, Names DEF TablesInv, FdInv, Held
<1>6. \A n \in DOMAIN clientConns : fd[clientConns[n]] = n
  BY DEF TablesInv, ClientInv
<1>7. fd[Phantom] = NoFd /\ Phantom \notin Clients
  BY Names DEF TablesInv, FdInv
<1>8. ASSUME NEW c \in Clients \cup {Phantom} PROVE InClients(c)' <=> InClients(c) /\ c # job[w]
  <2>1. InClients(c)' => InClients(c)
    BY <1>2 DEF InClients
  <2>2. c = job[w] => ~InClients(c)'
    BY <1>2, <1>4, <1>6 DEF InClients
  <2>3. InClients(c) /\ c # job[w] => InClients(c)'
    BY <1>1, <1>2, <1>3, <1>5, <1>6, <1>7 DEF InClients
  <2> QED BY <2>1, <2>2, <2>3
<1> QED BY <1>1, <1>2, <1>3, <1>8

LEMMA MainInvWorkers == ASSUME TablesInv, ProxyNext, NEW w \in Workers, WorkerStep(w) PROVE MainInv'
<1>0. MainInv
  BY DEF TablesInv
<1>1. UNCHANGED mainVars
  BY DEF WorkerStep, WorkerPop, Recv, ClearBuffer, ClientGone, ClientForget, ParseRequest, FrontServer,
         SendToServer, ServerGone, ServerForget, ParseResponse, FindClient, SendToClient, NotFound
<1>2. fd' = fd
  BY FdStep DEF WorkerStep, WorkerPop, Recv, ClearBuffer, ClientGone, ClientForget, ParseRequest,
         FrontServer, SendToServer, ServerGone, ServerForget, ParseResponse, FindClient, SendToClient,
         NotFound, netVars
<1>3. ASSUME mpc \in {"insert", "table"} PROVE \A v \in Workers : job'[v] # hand
  <2>1. ASSUME NEW v \in Workers, v # w PROVE job'[v] # hand
    BY <1>0, <1>3, <2>1, OtherWorkers DEF MainInv
  <2>2. que # <<>> => Head(que) # hand
    <3>1. que \in Seq(Conns) /\ \A i \in DOMAIN que : que[i] # hand
      BY <1>0, <1>3 DEF TablesInv, MainTypes, MainInv
    <3> QED BY <3>1
  <2>3. job'[w] # hand
    BY <1>0, <1>3, <2>2, OwnStep, Names DEF MainInv
  <2> QED BY <2>1, <2>3
<1>4. ASSUME mpc \in {"insert", "table"} PROVE \A i \in DOMAIN que' : que'[i] # hand
  <2>1. ~AddRequest
    BY <1>3, <1>4 DEF AddRequest
  <2> QED BY <1>0, <1>4, <2>1, QueStep DEF MainInv
<1>5. ASSUME mpc \in {"insert", "table"} PROVE InClients(hand)' <=> InClients(hand)
  <2>1. hand \in Clients \cup {Phantom} /\ job[w] # hand
    BY <1>0, <1>5 DEF MainInv
  <2> QED BY <1>1, <2>1, WorkersOnClients, WithoutClient DEF InClients, mainVars
<1>6. \A c \in DOMAIN clientTable' : c \in DOMAIN clientTable /\ clientTable'[c] = clientTable[c]
  BY WorkersOnClients DEF Without, Restrict
<1> QED BY <1>0, <1>1, <1>2, <1>3, <1>4, <1>5, <1>6 DEF MainInv, mainVars

LEMMA MainInvMain == ASSUME TablesInv, ProxyNext, MainStep PROVE MainInv'
<1>0. MainInv
  BY DEF TablesInv
<1> USE Names, Numbers
<1>1. CASE WaitEvents
  <2>1. ASSUME NEW i \in DOMAIN ready PROVE Reported(ready[i], rst) # NoFd
    BY DEF Reported, TablesInv, FdInv, Alive
  <2>2. \A i \in DOMAIN events' : events'[i] # NoFd
    BY <1>1, <2>1 DEF WaitEvents
  <2> QED BY <1>0, <1>1, <2>2 DEF WaitEvents, MainInv
<1>2. CASE EventsDone
  BY <1>0, <1>2 DEF EventsDone, MainInv
<1>3. CASE Accept
  <2> DEFINE c == Head(backlog)
  <2>1. c \in Clients /\ ~Held(c) /\ fd'[c] # NoFd
    BY <1>3, FdStep DEF TablesInv, PeerTypes
  <2>2. c \in DOMAIN clientTable => clientTable[c] = NoFd
    BY <2>1 DEF TablesInv, ClientInv, Forgetting, Held
  <2> HIDE DEF c
  <2>3. /\ hand' = c /\ mpc' = "insert" /\ events' = events /\ events # <<>> /\ Head(events) = ListenFd
        /\ UNCHANGED <<clientConns, clientTable, job, que>>
    BY <1>3 DEF Accept, c, tableVars, workVars
  <2> QED BY <1>0, <2>1, <2>2, <2>3 DEF MainInv, InClients, Held
<1>4. CASE AcceptFails
  <2>1. /\ hand' = Phantom /\ mpc' = "insert" /\ events' = events /\ events # <<>>
        /\ Head(events) = ListenFd /\ UNCHANGED <<clientConns, clientTable, job, que>>
    BY <1>4 DEF AcceptFails, tableVars, workVars
  <2>2. /\ \A w \in Workers : job[w] # Phantom
        /\ \A i \in DOMAIN que : que[i] # Phantom
        /\ Phantom \notin DOMAIN clientTable
    BY DEF TablesInv, WorkTypes, MainTypes, ClientInv
  <2> QED BY <1>0, <2>1, <2>2 DEF MainInv
<1>5. CASE InsertConn
  <2>1. /\ mpc = "insert" /\ mpc' = "table" /\ UNCHANGED <<fd, hand, events, clientTable, job, que>>
        /\ \/ fd[hand] \in DOMAIN clientConns /\ clientConns' = clientConns
           \/ clientConns' = With(clientConns, fd[hand], hand)
    BY <1>5 DEF InsertConn, netVars, workVars
  <2>2. InClients(hand)'
    <3>1. CASE clientConns' = With(clientConns, fd[hand], hand)
      BY <2>1, <3>1 DEF With, InClients
    <3>2. CASE fd[hand] \in DOMAIN clientConns /\ clientConns' = clientConns
      <4>1. hand \in Clients \cup {Phantom} /\ (hand # Phantom => fd[hand] # NoFd)
        BY <1>0, <2>1 DEF MainInv
      <4>2. /\ clientConns[fd[hand]] \in Clients \cup {Phantom}
            /\ fd[clientConns[fd[hand]]] = fd[hand]
            /\ fd[hand] = NoFd <=> clientConns[fd[hand]] = Phantom
        BY <3>2 DEF TablesInv, ClientInv
      <4>3. CASE hand = Phantom
        BY <2>1, <3>2, <4>2, <4>3 DEF InClients, TablesInv, FdInv
      <4>4. CASE hand # Phantom
        <5>1. clientConns[fd[hand]] \in Alive /\ hand \in Alive
          BY <3>2, <4>1, <4>2, <4>4, AliveIsHeld DEF TablesInv, Held, InClients
        <5>2. clientConns[fd[hand]] = hand
          BY <4>1, <4>2, <4>4, <5>1 DEF TablesInv, FdInv
        <5> QED BY <2>1, <3>2, <5>2 DEF InClients
      <4> QED BY <4>3, <4>4
    <3> QED BY <2>1, <3>1, <3>2
  <2> QED BY <1>0, <2>1, <2>2 DEF MainInv
<1>6. ASSUME NextEvent, events # <<>> PROVE \A i \in DOMAIN events' : events'[i] # NoFd
  <2>1. events \in Seq(Int) /\ \A i \in DOMAIN events : events[i] # NoFd
    BY <1>0 DEF TablesInv, MainTypes, MainInv
  <2>2. events' = Tail(events)
    BY <1>6 DEF NextEvent
  <2>3. \A i \in 1 .. Len(events) - 1 : Tail(events)[i] = events[i + 1] /\ i + 1 \in 1 .. Len(events)
    BY <1>6, <2>1
  <2> QED BY <1>6, <2>1, <2>2, <2>3
<1>7. CASE SetClientTable \/ AddRequest
  <2>1. NextEvent /\ events # <<>> /\ hand' = Nobody
    BY <1>0, <1>7 DEF SetClientTable, AddRequest, MainInv
  <2> QED BY <1>6, <2>1 DEF NextEvent, MainInv
<1>8. CASE FindMessageConn
  <2>1. CASE NextEvent
    <3>1. hand' = Nobody /\ events # <<>>
      BY <1>0, <1>8, <2>1 DEF FindMessageConn, NextEvent, MainInv
    <3> QED BY <1>6, <2>1, <3>1 DEF NextEvent, MainInv
  <2>2. CASE ~NextEvent
    <3> DEFINE n == Head(events)
    <3>1. /\ events # <<>> /\ events' = events /\ mpc' = "push" /\ fd' = fd
          /\ \/ n \in DOMAIN clientConns /\ hand' = clientConns[n]
             \/ n \in DOMAIN serverConns /\ hand' = serverConns[n]
      BY <1>8, <2>2 DEF FindMessageConn, netVars
    <3>2. n # NoFd
      <4>1. events \in Seq(Int) /\ \A i \in DOMAIN events : events[i] # NoFd
        BY <1>0 DEF TablesInv, MainTypes, MainInv
      <4> QED BY <3>1, <4>1
    <3> HIDE DEF n
    <3>3. hand' \in Conns /\ fd[hand'] = n
      BY <3>1, <3>2 DEF TablesInv, ClientInv, ServerInv
    <3> QED BY <1>0, <3>1, <3>2, <3>3 DEF MainInv, n
  <2> QED BY <2>1, <2>2
<1> QED BY <1>1, <1>2, <1>3, <1>4, <1>5, <1>7, <1>8 DEF MainStep

LEMMA MainInvStep == TablesInv /\ ProxyNext => MainInv'
<1> SUFFICES ASSUME TablesInv, ProxyNext PROVE MainInv'
  OBVIOUS
<1>1. CASE RaceCrash \/ PeerStep
  <2>1. UNCHANGED <<tableVars, mainVars, que, job, fd>>
    BY <1>1 DEF RaceCrash, PeerStep, netVars, workVars, Connect, Send, Answer, Close
  <2> QED BY <2>1 DEF TablesInv, MainInv, tableVars, mainVars, InClients
<1> QED BY <1>1, MainInvWorkers, MainInvMain DEF ProxyNext

--------------------------------------------------------------------------------
(* The client tables *)

LEMMA ClientInvWorkers == ASSUME TablesInv, ProxyNext, NEW w \in Workers, WorkerStep(w) PROVE ClientInv'
<1>0. ClientInv /\ WorkInv
  BY DEF TablesInv
<1>1. UNCHANGED mainVars
  BY DEF WorkerStep, WorkerPop, Recv, ClearBuffer, ClientGone, ClientForget, ParseRequest, FrontServer,
         SendToServer, ServerGone, ServerForget, ParseResponse, FindClient, SendToClient, NotFound
<1>2. fd' = fd
  BY FdStep DEF WorkerStep, WorkerPop, Recv, ClearBuffer, ClientGone, ClientForget, ParseRequest,
         FrontServer, SendToServer, ServerGone, ServerForget, ParseResponse, FindClient, SendToClient,
         NotFound, netVars
<1>3. \A v \in Workers : v # w => wpc'[v] = wpc[v] /\ job'[v] = job[v]
  BY OtherWorkers
<1>4. CASE UNCHANGED <<clientConns, clientTable>> /\ wpc[w] \notin {"clientGone", "clientForget"}
  <2>1. wpc'[w] # "clientForget"
    BY <1>4, OwnStep
  <2>2. \A c : Forgetting(c, "clientForget")' <=> Forgetting(c, "clientForget")
    BY <1>3, <1>4, <2>1 DEF Forgetting
  <2> QED BY <1>0, <1>1, <1>2, <1>4, <2>2 DEF ClientInv, InClients, mainVars
<1>5. CASE /\ wpc[w] = "clientGone" /\ wpc'[w] = "clientForget" /\ job' = job
           /\ clientConns' = Without(clientConns, fd[job[w]]) /\ clientTable' = clientTable
  <2>1. \A c : Forgetting(c, "clientForget")' <=> Forgetting(c, "clientForget") \/ c = job[w]
    BY <1>3, <1>5 DEF Forgetting
  <2>2. /\ \A c \in Clients \cup {Phantom} : InClients(c)' <=> InClients(c) /\ c # job[w]
        /\ NoFd \in DOMAIN clientConns => NoFd \in DOMAIN clientConns'
        /\ \A n \in DOMAIN clientConns' : n \in DOMAIN clientConns /\ clientConns'[n] = clientConns[n]
    BY <1>5, WithoutClient
  <2> QED BY <1>0, <1>1, <1>2, <1>5, <2>1, <2>2 DEF ClientInv, mainVars
<1>6. CASE /\ wpc[w] = "clientForget" /\ wpc'[w] = "pop" /\ job'[w] = Nobody
           /\ clientConns' = clientConns /\ clientTable' = Without(clientTable, job[w])
  <2>1. \A c : c # job[w] =>
           (Forgetting(c, "clientForget")' <=> Forgetting(c, "clientForget"))
    BY <1>3, <1>6 DEF Forgetting
  <2>2. \A c : Forgetting(c, "clientForget")' => Forgetting(c, "clientForget")
    BY <1>3, <1>6 DEF Forgetting
  <2>3. Forgetting(job[w], "clientForget")
    BY <1>6 DEF Forgetting
  <2>4. /\ DOMAIN clientTable' = DOMAIN clientTable \ {job[w]}
        /\ \A c \in DOMAIN clientTable' : clientTable'[c] = clientTable[c]
    BY <1>6 DEF Without, Restrict
  <2> QED BY <1>0, <1>1, <1>2, <1>6, <2>1, <2>2, <2>3, <2>4 DEF ClientInv, InClients, mainVars
<1> QED BY <1>4, <1>5, <1>6, WorkersOnClients

LEMMA ClientInvMain == ASSUME TablesInv, ProxyNext, MainStep PROVE ClientInv'
<1>0. ClientInv /\ MainInv
  BY DEF TablesInv
<1>1. UNCHANGED <<wpc, job>>
  BY DEF MainStep, WaitEvents, EventsDone, Accept, AcceptFails, InsertConn, SetClientTable,
         FindMessageConn, AddRequest, workVars
<1>2. \A c : Forgetting(c, "clientForget")' <=> Forgetting(c, "clientForget")
  BY <1>1 DEF Forgetting
<1> USE Names, Numbers
<1>3. CASE WaitEvents \/ EventsDone \/ AcceptFails \/ FindMessageConn \/ AddRequest
  <2>1. UNCHANGED <<clientConns, clientTable, fd>> /\ mpc # "table" /\ mpc' # "table"
    BY <1>3 DEF WaitEvents, EventsDone, AcceptFails, FindMessageConn, AddRequest, NextEvent,
                tableVars, netVars
  <2> QED BY <1>0, <1>2, <2>1 DEF ClientInv, InClients
<1>4. CASE Accept
  <2>1. UNCHANGED <<clientConns, clientTable>> /\ mpc # "table" /\ mpc' # "table"
    BY <1>4 DEF Accept, tableVars
  <2>2. \A c \in Clients : InClients(c) \/ Forgetting(c, "clientForget") => fd'[c] = fd[c]
    BY FdStays DEF Held, Forgetting
  <2>3. \A n \in DOMAIN clientConns : fd'[clientConns[n]] = fd[clientConns[n]]
    BY <1>0, <2>2, FdStays DEF ClientInv, InClients
  <2> QED BY <1>0, <1>2, <2>1, <2>2, <2>3 DEF ClientInv, InClients
<1>5. CASE InsertConn
  <2>1. /\ UNCHANGED <<fd, clientTable, hand>> /\ mpc = "insert" /\ mpc' = "table"
        /\ \/ clientConns' = clientConns
           \/ /\ fd[hand] \notin DOMAIN clientConns
              /\ clientConns' = With(clientConns, fd[hand], hand)
    BY <1>5 DEF InsertConn, netVars
  <2>2. hand \in Clients \cup {Phantom} /\ (hand # Phantom => fd[hand] # NoFd) /\ fd[Phantom] = NoFd
    BY <1>0, <2>1 DEF MainInv, TablesInv, FdInv
  <2>3. CASE clientConns' = clientConns
    BY <1>0, <1>2, <2>1, <2>3 DEF ClientInv, InClients
  <2>4. CASE fd[hand] \notin DOMAIN clientConns /\ clientConns' = With(clientConns, fd[hand], hand)
    <3>1. /\ DOMAIN clientConns' = DOMAIN clientConns \cup {fd[hand]} /\ clientConns'[fd[hand]] = hand
          /\ \A n \in DOMAIN clientConns : clientConns'[n] = clientConns[n]
      BY <2>4 DEF With
    <3>2. \A c : InClients(c)' <=> InClients(c) \/ c = hand
      BY <3>1 DEF InClients
    <3>3. ~Forgetting(hand, "clientForget")
      BY <1>0, <2>1 DEF MainInv, Forgetting
    <3> QED BY <1>0, <1>2, <2>1, <2>2, <3>1, <3>2, <3>3 DEF ClientInv
  <2> QED BY <2>1, <2>3, <2>4
<1>6. CASE SetClientTable
  <2>1. UNCHANGED <<fd, clientConns>> /\ mpc = "table" /\ mpc' = "dispatch"
    BY <1>6 DEF SetClientTable, NextEvent, netVars
  <2>2. InClients(hand) /\ hand \in Clients \cup {Phantom}
    BY <1>0, <2>1 DEF MainInv
  <2>3. CASE hand # Phantom /\ clientTable' = With(clientTable, hand, fd[hand])
    <3>1. /\ DOMAIN clientTable' = DOMAIN clientTable \cup {hand} /\ clientTable'[hand] = fd[hand]
          /\ \A c \in DOMAIN clientTable : c # hand => clientTable'[c] = clientTable[c]
      BY <2>3 DEF With
    <3>2. fd[hand] # NoFd
      BY <1>0, <2>1, <2>3 DEF MainInv
    <3> QED BY <1>0, <1>2, <2>1, <2>2, <2>3, <3>1, <3>2 DEF ClientInv, InClients
  <2>4. CASE hand = Phantom /\ clientTable' = clientTable
    BY <1>0, <1>2, <2>1, <2>4 DEF ClientInv, InClients
  <2>5. ASSUME hand = Phantom, NEW c \in Clients, clientTable' = With(clientTable, c, NoFd)
        PROVE  ClientInv'
    <3>1. /\ DOMAIN clientTable' = DOMAIN clientTable \cup {c} /\ clientTable'[c] = NoFd
          /\ \A d \in DOMAIN clientTable : d # c => clientTable'[d] = clientTable[d]
      BY <2>5 DEF With
    <3>2. NoFd \in DOMAIN clientConns
      BY <1>0, <2>2, <2>5 DEF ClientInv, InClients
    <3> QED BY <1>0, <1>2, <2>1, <2>5, <3>1, <3>2 DEF ClientInv, InClients
  <2> QED BY <1>6, <2>3, <2>4, <2>5 DEF SetClientTable
<1> QED BY <1>3, <1>4, <1>5, <1>6 DEF MainStep

LEMMA ClientInvStep == TablesInv /\ ProxyNext => ClientInv'
<1> SUFFICES ASSUME TablesInv, ProxyNext PROVE ClientInv'
  OBVIOUS
<1>1. CASE RaceCrash \/ PeerStep
  <2>1. UNCHANGED <<tableVars, mainVars, wpc, job, fd>>
    BY <1>1 DEF RaceCrash, PeerStep, netVars, workVars, Connect, Send, Answer, Close
  <2> QED BY <2>1 DEF TablesInv, ClientInv, Forgetting, tableVars, mainVars, InClients
<1> QED BY <1>1, ClientInvWorkers, ClientInvMain DEF ProxyNext

--------------------------------------------------------------------------------
(* The server tables *)

\* A number that is there once is gone after its removal; the others stay, in
\* their order.
LEMMA ForgetOnce ==
    ASSUME NEW q \in Seq(Int), NEW n \in Int, \A i, j \in DOMAIN q : q[i] = q[j] /\ q[i] # NoFd => i = j
    PROVE  LET r == RemoveFirst(q, n) IN
           /\ \A i \in DOMAIN r : \E j \in DOMAIN q : q[j] = r[i]
           /\ n # NoFd => \A i \in DOMAIN r : r[i] # n
           /\ \A i, j \in DOMAIN r : r[i] = r[j] /\ r[i] # NoFd => i = j
           /\ \A p \in DOMAIN r : \E t \in DOMAIN q :
                 /\ q[t] = r[p]
                 /\ \A u \in 1 .. t - 1 : q[u] # n => \E v \in 1 .. p - 1 : r[v] = q[u]
<1> DEFINE r == RemoveFirst(q, n)
<1>0. r \in Seq(Int) /\ DOMAIN r = 1 .. Len(r) /\ DOMAIN q = 1 .. Len(q) /\ Len(q) \in Nat
  <2>1. r \in Seq(Int)
    BY ForgetServer
  <2> HIDE DEF r
  <2> QED BY <2>1
<1>1. CASE r = q /\ \A i \in 1 .. Len(q) : q[i] # n
  <2> HIDE DEF r
  <2>1. /\ \A i \in DOMAIN r : \E j \in DOMAIN q : q[j] = r[i]
        /\ \A i \in DOMAIN r : r[i] # n
        /\ \A i, j \in DOMAIN r : r[i] = r[j] /\ r[i] # NoFd => i = j
    BY <1>0, <1>1
  <2>2. ASSUME NEW p \in DOMAIN r
        PROVE  /\ p \in DOMAIN q /\ q[p] = r[p]
               /\ \A u \in 1 .. p - 1 : \E v \in 1 .. p - 1 : r[v] = q[u]
    BY <1>0, <1>1
  <2> QED BY <2>1, <2>2 DEF r
<1>2. CASE \E k \in 1 .. Len(q) :
              /\ q[k] = n /\ Len(r) = Len(q) - 1
              /\ \A i \in 1 .. k - 1 : r[i] = q[i]
              /\ \A i \in k .. Len(q) - 1 : r[i] = q[i + 1]
  <2>1. PICK k \in 1 .. Len(q) :
              /\ q[k] = n /\ Len(r) = Len(q) - 1
              /\ \A i \in 1 .. k - 1 : r[i] = q[i]
              /\ \A i \in k .. Len(q) - 1 : r[i] = q[i + 1]
    BY <1>2
  <2> HIDE DEF r
  <2> DEFINE at(i) == IF i < k THEN i ELSE i + 1
  <2>2. /\ \A i \in 1 .. Len(q) - 1 : at(i) \in 1 .. Len(q) /\ at(i) # k /\ r[i] = q[at(i)]
        /\ \A i, j \in 1 .. Len(q) - 1 : at(i) = at(j) => i = j
    BY <1>0, <2>1
  <2>3. \A p \in 1 .. Len(q) - 1 : \A u \in 1 .. at(p) - 1 :
           u # k => \E v \in 1 .. p - 1 : at(v) = u
    <3> TAKE p \in 1 .. Len(q) - 1
    <3> TAKE u \in 1 .. at(p) - 1
    <3> HAVE u # k
    <3>1. CASE u < k
      <4>1. u \in 1 .. p - 1 /\ at(u) = u
        BY <1>0, <2>1, <3>1
      <4> QED BY <4>1
    <3>2. CASE u > k
      <4>1. u - 1 \in 1 .. p - 1 /\ at(u - 1) = u
        BY <1>0, <2>1, <3>2
      <4> QED BY <4>1
    <3> QED BY <1>0, <2>1, <3>1, <3>2
  <2> HIDE DEF at
  <2>4. DOMAIN r = 1 .. Len(q) - 1
    BY <1>0, <2>1
  <2>5. \A i \in DOMAIN r : \E j \in DOMAIN q : q[j] = r[i]
    BY <1>0, <2>2, <2>4
  <2>6. n # NoFd => \A i \in DOMAIN r : r[i] # n
    BY <1>0, <2>1, <2>2, <2>4
  <2>7. \A i, j \in DOMAIN r : r[i] = r[j] /\ r[i] # NoFd => i = j
    BY <1>0, <2>2, <2>4
  <2>8. ASSUME NEW p \in DOMAIN r
        PROVE  \E t \in DOMAIN q :
                 /\ q[t] = r[p]
                 /\ \A u \in 1 .. t - 1 : q[u] # n => \E v \in 1 .. p - 1 : r[v] = q[u]
    <3>1. at(p) \in DOMAIN q /\ q[at(p)] = r[p]
      BY <1>0, <2>2, <2>4
    <3>2. ASSUME NEW u \in 1 .. at(p) - 1, q[u] # n PROVE \E v \in 1 .. p - 1 : r[v] = q[u]
      <4>1. PICK v \in 1 .. p - 1 : at(v) = u
        BY <2>1, <2>3, <2>4, <3>2
      <4>2. v \in 1 .. Len(q) - 1
        BY <1>0, <2>4
      <4> QED BY <2>2, <4>1, <4>2
    <3> QED BY <3>1, <3>2
  <2> QED BY <2>5, <2>6, <2>7, <2>8 DEF r
<1> QED BY <1>1, <1>2, ForgetServer

\* What a worker does to the server tables.
LEMMA WorkersOnServers ==
    ASSUME TablesInv, NEW w \in Workers, WorkerStep(w)
    PROVE  \/ /\ UNCHANGED <<serverConns, forwarding>>
              /\ wpc[w] \notin {"serverGone", "serverForget"}
           \/ /\ wpc[w] = "serverGone" /\ wpc'[w] = "serverForget" /\ job' = job
              /\ serverConns' = Without(serverConns, fd[job[w]]) /\ forwarding' = forwarding
           \/ /\ wpc[w] = "serverForget" /\ wpc'[w] = "parse"
              /\ serverConns' = serverConns /\ forwarding' = RemoveFirst(forwarding, fd[job[w]])
<1>1. CASE ServerGone(w)
  <2>1. wpc'[w] = "serverForget"
    BY <1>1 DEF ServerGone, Goto, TablesInv, WorkTypes
  <2> QED BY <1>1, <2>1 DEF ServerGone
<1>2. CASE ServerForget(w)
  <2>1. wpc'[w] = "parse"
    BY <1>2 DEF ServerForget, Goto, TablesInv, WorkTypes
  <2> QED BY <1>2, <2>1 DEF ServerForget
<1>3. CASE ~ServerGone(w) /\ ~ServerForget(w)
  BY <1>3 DEF WorkerStep, WorkerPop, Recv, ClearBuffer, ClientGone, ClientForget, ParseRequest,
         FrontServer, SendToServer, ParseResponse, FindClient, SendToClient, NotFound, tableVars
<1> QED BY <1>1, <1>2, <1>3

LEMMA ServerInvStep == TablesInv /\ ProxyNext => ServerInv'
<1> SUFFICES ASSUME TablesInv, ProxyNext PROVE ServerInv'
  OBVIOUS
<1>0. ServerInv /\ WorkInv
  BY DEF TablesInv
<1>1. \A s \in Servers : fd'[s] = fd[s]
  BY FdStays
<1>2. CASE ~\E w \in Workers : WorkerStep(w)
  <2>1. UNCHANGED <<serverConns, forwarding, wpc, job>>
    BY <1>2, NoWorkersStep DEF ProxyNext, MainStep, WaitEvents, EventsDone, Accept, AcceptFails,
       InsertConn, SetClientTable, FindMessageConn, AddRequest, RaceCrash, PeerStep, tableVars
  <2> QED BY <1>0, <1>1, <2>1 DEF ServerInv, InServers, Forgetting
<1>3. ASSUME NEW w \in Workers, WorkerStep(w) PROVE ServerInv'
  <2>1. \A v \in Workers : v # w => wpc'[v] = wpc[v] /\ job'[v] = job[v]
    BY <1>3, OtherWorkers
  <2>2. CASE UNCHANGED <<serverConns, forwarding>> /\ wpc[w] \notin {"serverGone", "serverForget"}
    <3>1. wpc'[w] # "serverForget"
      BY <1>3, <2>2, OwnStep
    <3>2. \A c : Forgetting(c, "serverForget")' <=> Forgetting(c, "serverForget")
      BY <2>1, <2>2, <3>1 DEF Forgetting
    <3> QED BY <1>0, <1>1, <2>2, <3>2 DEF ServerInv, InServers
  <2>3. CASE /\ wpc[w] = "serverGone" /\ wpc'[w] = "serverForget" /\ job' = job
             /\ serverConns' = Without(serverConns, fd[job[w]]) /\ forwarding' = forwarding
    <3>1. \A c : Forgetting(c, "serverForget")' <=> Forgetting(c, "serverForget") \/ c = job[w]
      BY <2>1, <2>3 DEF Forgetting
    <3>2. job[w] \in Servers /\ fd[job[w]] # NoFd
      BY <1>0, <2>3, Names DEF WorkInv
    <3>3. /\ \A n \in DOMAIN serverConns' : n \in DOMAIN serverConns /\ serverConns'[n] = serverConns[n]
          /\ \A n \in DOMAIN serverConns : n # fd[job[w]] => n \in DOMAIN serverConns'
      BY <2>3 DEF Without, Restrict
    <3>4. \A s \in Servers : InServers(s) /\ s # job[w] => InServers(s)'
      BY <1>0, <3>2, <3>3 DEF InServers, ServerInv, TablesInv, FdInv
    <3> QED BY <1>0, <1>1, <2>3, <3>1, <3>3, <3>4 DEF ServerInv
  <2>4. CASE /\ wpc[w] = "serverForget" /\ wpc'[w] = "parse"
             /\ serverConns' = serverConns /\ forwarding' = RemoveFirst(forwarding, fd[job[w]])
    <3>1. job[w] \in Servers /\ fd[job[w]] # NoFd /\ fd[job[w]] \in Int /\ forwarding \in Seq(Int)
      BY <1>0, <2>4, Names DEF WorkInv, TablesInv, PeerTypes, MainTypes
    <3>2. /\ \A i \in DOMAIN forwarding' : \E j \in DOMAIN forwarding : forwarding[j] = forwarding'[i]
          /\ \A i \in DOMAIN forwarding' : forwarding'[i] # fd[job[w]]
          /\ \A i, j \in DOMAIN forwarding' :
                forwarding'[i] = forwarding'[j] /\ forwarding'[i] # NoFd => i = j
      BY <1>0, <2>4, <3>1, ForgetOnce DEF ServerInv
    <3>3. \A c : c # job[w] => (Forgetting(c, "serverForget")' <=> Forgetting(c, "serverForget"))
      BY <2>1, <2>4 DEF Forgetting
    <3>4. ASSUME NEW i \in DOMAIN forwarding'
          PROVE  \E s \in Servers : /\ fd'[s] = forwarding'[i]
                                    /\ InServers(s)' \/ Forgetting(s, "serverForget")'
      <4>1. PICK s \in Servers : /\ fd[s] = forwarding'[i]
                                 /\ InServers(s) \/ Forgetting(s, "serverForget")
        BY <1>0, <3>2 DEF ServerInv
      <4>2. s # job[w]
        BY <3>2, <4>1
      <4> QED BY <1>1, <2>4, <3>3, <4>1, <4>2 DEF InServers
    <3> QED BY <1>0, <1>1, <2>4, <3>2, <3>4 DEF ServerInv
  <2> QED BY <1>3, <2>2, <2>3, <2>4, WorkersOnServers
<1> QED BY <1>2, <1>3

--------------------------------------------------------------------------------
(* The start *)

\* The numbers of the servers that answer rise with the configuration.
LEMMA StartNumbers ==
    ASSUME NEW up \in SUBSET Servers
    PROVE  LET at == StartFd(up) IN
           /\ at \in Seq(Int) /\ DOMAIN at = DOMAIN Upstream /\ DOMAIN Upstream = 1 .. Len(Upstream)
           /\ \A i \in DOMAIN at : IF Upstream[i] \in up THEN at[i] >= FirstFd ELSE at[i] = NoFd
           /\ \A i, j \in DOMAIN at : at[i] = at[j] /\ at[i] # NoFd => i = j
<1> DEFINE at == StartFd(up)
           U(i) == {j \in 1 .. i - 1 : Upstream[j] \in up}
<1>0. DOMAIN Upstream = 1 .. Len(Upstream) /\ Len(Upstream) \in Nat
  BY PeersAssumption
<1>1. \A i \in 1 .. Len(Upstream) : IsFiniteSet(U(i)) /\ Cardinality(U(i)) \in Nat
  <2> TAKE i \in 1 .. Len(Upstream)
  <2>1. IsFiniteSet(1 .. i - 1)
    BY <1>0, FS_Interval
  <2> QED BY <2>1, FS_Subset, FS_CardinalityType
<1>2. ASSUME NEW i \in 1 .. Len(Upstream), NEW j \in 1 .. Len(Upstream), i < j, Upstream[i] \in up
      PROVE  Cardinality(U(i)) < Cardinality(U(j))
  <2>1. U(i) \cup {i} \subseteq U(j) /\ i \notin U(i)
    BY <1>0, <1>2
  <2> HIDE DEF U
  <2>2. Cardinality(U(i) \cup {i}) = Cardinality(U(i)) + 1
    BY <1>1, <2>1, FS_AddElement
  <2>3. Cardinality(U(i) \cup {i}) <= Cardinality(U(j))
    BY <1>1, <2>1, FS_Subset
  <2> QED BY <1>1, <2>2, <2>3
<1>3. \A i \in 1 .. Len(Upstream) :
         at[i] = IF Upstream[i] \in up THEN FirstFd + Cardinality(U(i)) ELSE NoFd
  BY <1>0 DEF StartFd
<1>4. DOMAIN at = 1 .. Len(Upstream)
  BY <1>0 DEF StartFd
<1>5. at = [i \in 1 .. Len(Upstream) |-> at[i]]
  BY <1>0 DEF StartFd
<1> HIDE DEF at, U
<1>6. \A i \in 1 .. Len(Upstream) : at[i] \in Int
  BY <1>1, <1>3, Numbers
<1>7. at \in Seq(Int)
  BY <1>0, <1>5, <1>6, IsASeq
<1>8. \A i \in 1 .. Len(Upstream) : IF Upstream[i] \in up THEN at[i] >= FirstFd ELSE at[i] = NoFd
  BY <1>1, <1>3, Numbers
<1>9. ASSUME NEW i \in 1 .. Len(Upstream), NEW j \in 1 .. Len(Upstream), at[i] = at[j], at[i] # NoFd
      PROVE  i = j
  <2>1. Upstream[i] \in up /\ Upstream[j] \in up
    BY <1>3, <1>9
  <2>2. Cardinality(U(i)) = Cardinality(U(j))
    BY <1>1, <1>3, <1>9, <2>1, Numbers
  <2>3. ~(i < j) /\ ~(j < i)
    BY <1>1, <1>2, <2>1, <2>2
  <2> QED BY <1>0, <2>3
<1> QED BY <1>0, <1>4, <1>7, <1>8, <1>9 DEF at

\* What the tables hold when the loop begins.
LEMMA StartTables ==
    ASSUME ProxyInit
    PROVE  /\ fd \in [Conns \cup {Phantom} -> Int]
           /\ \A c \in Clients \cup {Phantom} : fd[c] = NoFd
           /\ \A s \in Servers : fd[s] = NoFd \/ fd[s] >= FirstFd
           /\ forwarding \in Seq(Int) /\ DOMAIN forwarding = DOMAIN Upstream
           /\ \A i \in DOMAIN Upstream : forwarding[i] = fd[Upstream[i]]
           /\ \A i, j \in DOMAIN forwarding : forwarding[i] = forwarding[j] /\ forwarding[i] # NoFd => i = j
           /\ \A n \in DOMAIN serverConns : serverConns[n] \in Servers /\ fd[serverConns[n]] = n
           /\ \A i \in DOMAIN forwarding : forwarding[i] \in DOMAIN serverConns
<1>1. PICK up \in Reachable :
         LET at == StartFd(up) IN
         /\ fd = [c \in Conns \cup {Phantom} |->
                    IF c \in up THEN at[CHOOSE i \in DOMAIN Upstream : Upstream[i] = c] ELSE NoFd]
         /\ forwarding = at
         /\ serverConns = [n \in Range(at) |->
               Upstream[CHOOSE i \in DOMAIN at : at[i] = n /\ \A j \in 1 .. i - 1 : at[j] # n]]
  BY DEF ProxyInit
<1>2. up \in SUBSET Servers
  BY ProxyAssumption
<1> DEFINE at == StartFd(up)
<1>3. /\ at \in Seq(Int) /\ DOMAIN at = DOMAIN Upstream /\ DOMAIN Upstream = 1 .. Len(Upstream)
      /\ \A i \in DOMAIN at : IF Upstream[i] \in up THEN at[i] >= FirstFd ELSE at[i] = NoFd
      /\ \A i, j \in DOMAIN at : at[i] = at[j] /\ at[i] # NoFd => i = j
  BY <1>2, StartNumbers
<1>4. /\ fd = [c \in Conns \cup {Phantom} |->
                    IF c \in up THEN at[CHOOSE i \in DOMAIN Upstream : Upstream[i] = c] ELSE NoFd]
      /\ forwarding = at
      /\ serverConns = [n \in Range(at) |->
               Upstream[CHOOSE i \in DOMAIN at : at[i] = n /\ \A j \in 1 .. i - 1 : at[j] # n]]
  BY <1>1
<1> HIDE DEF at
<1>5. /\ Servers = {Upstream[i] : i \in DOMAIN Upstream}
      /\ \A i, j \in DOMAIN Upstream : Upstream[i] = Upstream[j] => i = j
  BY PeersAssumption DEF Servers, ToSet, IsInjective
<1>6. \A i \in DOMAIN Upstream : Upstream[i] \in Servers /\ fd[Upstream[i]] = at[i]
  <2> TAKE i \in DOMAIN Upstream
  <2>1. (CHOOSE k \in DOMAIN Upstream : Upstream[k] = Upstream[i]) = i
    BY <1>5
  <2>2. Upstream[i] \in Servers
    BY <1>5
  <2> QED BY <1>3, <1>4, <2>1, <2>2, Names
<1>7. \A c \in Clients \cup {Phantom} : fd[c] = NoFd
  BY <1>2, <1>4, Names
<1>8. \A s \in Servers : \E i \in DOMAIN Upstream : Upstream[i] = s
  BY <1>5
<1>9. \A s \in Servers : fd[s] \in Int /\ (fd[s] = NoFd \/ fd[s] >= FirstFd)
  <2> TAKE s \in Servers
  <2>1. PICK i \in DOMAIN Upstream : Upstream[i] = s
    BY <1>8
  <2>2. fd[s] = at[i] /\ at[i] \in Int
    BY <1>3, <1>6, <2>1
  <2> QED BY <1>3, <2>2
<1>10. fd \in [Conns \cup {Phantom} -> Int]
  <2>1. NoFd \in Int /\ \A c \in Clients \cup {Phantom} : fd[c] \in Int
    BY <1>7, Numbers
  <2>2. \A c \in Conns \cup {Phantom} : fd[c] \in Int
    BY <1>9, <2>1, Names
  <2>3. fd = [c \in Conns \cup {Phantom} |-> fd[c]]
    BY <1>4
  <2> QED BY <2>2, <2>3
<1>11. ASSUME NEW n \in DOMAIN serverConns
       PROVE  serverConns[n] \in Servers /\ fd[serverConns[n]] = n
  <2> DEFINE I == {i \in DOMAIN at : at[i] = n}
  <2>1. I \subseteq Nat /\ I # {}
    BY <1>3, <1>4, <1>11 DEF Range
  <2>2. PICK m \in I : \A i \in I : m <= i
    <3> HIDE DEF I
    <3> QED BY <2>1, LeastElement
  <2>3. m \in DOMAIN at /\ at[m] = n /\ \A j \in 1 .. m - 1 : at[j] # n
    <3>1. m \in 1 .. Len(Upstream) /\ at[m] = n
      BY <1>3, <2>2
    <3>2. ASSUME NEW j \in 1 .. m - 1 PROVE at[j] # n
      <4>1. j \in DOMAIN at /\ ~(m <= j)
        BY <1>3, <3>1
      <4> QED BY <2>2, <4>1
    <3> QED BY <1>3, <3>1, <3>2
  <2> DEFINE k == CHOOSE i \in DOMAIN at : at[i] = n /\ \A j \in 1 .. i - 1 : at[j] # n
  <2>4. k \in DOMAIN at /\ at[k] = n
    BY <2>3
  <2>5. serverConns[n] = Upstream[k]
    BY <1>4, <1>11
  <2> QED BY <1>3, <1>6, <2>4, <2>5
<1>12. \A i \in DOMAIN at : at[i] \in DOMAIN serverConns
  BY <1>4 DEF Range
<1> QED BY <1>3, <1>4, <1>6, <1>7, <1>9, <1>10, <1>11, <1>12

LEMMA StartInv == ProxyInit => TablesInv
<1> SUFFICES ASSUME ProxyInit PROVE TablesInv
  OBVIOUS
<1>1. /\ clientConns = <<>> /\ clientTable = <<>>
      /\ backlog = <<>> /\ ready = <<>> /\ fin = {} /\ rst = {}
      /\ inbox = [c \in Conns |-> <<>>] /\ sends = [c \in Clients |-> 0]
      /\ atServer = [x \in Servers |-> <<>>]
      /\ mpc = "wait" /\ events = <<>> /\ hand = Nobody
      /\ que = <<>> /\ readBuf = [c \in Conns |-> <<>>]
      /\ wpc = [w \in Workers |-> "pop"] /\ job = [w \in Workers |-> Nobody]
      /\ msg = [w \in Workers |-> <<>>]
      /\ local = [w \in Workers |-> NoLocals]
      /\ crashed = "no" /\ lost = 0 /\ cut = 0
      /\ forwarded = [c \in Clients |-> <<>>]
  BY DEF ProxyInit
<1>2. PeerTypes
  <2>1. fd \in [Conns \cup {Phantom} -> Int]
    BY StartTables
  <2>2. \A S : <<>> \in Seq(S)
    OBVIOUS
  <2>3. \A c \in Conns : inbox[c] = <<>>
    BY <1>1
  <2> QED BY <1>1, <2>1, <2>2, <2>3, Names DEF PeerTypes
<1>3. WorkTypes
  <2>1. \A S : <<>> \in Seq(S)
    OBVIOUS
  <2>2. NoLocals \in [client : Lines, fd : Int]
    BY Numbers DEF NoLocals, Lines
  <2>3. \A c \in Conns : readBuf[c] = <<>>
    BY <1>1
  <2> QED BY <1>1, <2>1, <2>2, <2>3, Names DEF WorkTypes
<1>4. MainTypes
  <2>1. forwarding \in Seq(Int)
    BY StartTables
  <2>2. \A S : <<>> \in Seq(S) /\ Len(<<>>) = 0
    OBVIOUS
  <2> QED BY <1>1, <2>1, <2>2, Numbers DEF MainTypes
<1>5. ~\E n : n \in DOMAIN clientConns
  BY <1>1
<1>6. /\ \A c \in Clients \cup {Phantom} : fd[c] = NoFd
      /\ \A s \in Servers : fd[s] = NoFd \/ fd[s] >= FirstFd
      /\ \A s, t \in Servers : fd[s] = fd[t] /\ fd[s] # NoFd => s = t
  <2>1. \A s \in Servers : \E i \in DOMAIN Upstream : Upstream[i] = s
    BY DEF Servers, ToSet
  <2>2. /\ DOMAIN forwarding = DOMAIN Upstream
        /\ \A i \in DOMAIN Upstream : forwarding[i] = fd[Upstream[i]]
        /\ \A i, j \in DOMAIN forwarding : forwarding[i] = forwarding[j] /\ forwarding[i] # NoFd => i = j
    BY StartTables
  <2>3. ASSUME NEW s \in Servers, NEW t \in Servers, fd[s] = fd[t], fd[s] # NoFd PROVE s = t
    <3>1. PICK i \in DOMAIN Upstream : Upstream[i] = s
      BY <2>1
    <3>2. PICK j \in DOMAIN Upstream : Upstream[j] = t
      BY <2>1
    <3> QED BY <2>2, <2>3, <3>1, <3>2
  <2> QED BY <2>3, StartTables
<1>7. FdInv
  <2>1. \A c \in DOMAIN fd : fd[c] = NoFd \/ fd[c] >= FirstFd
    BY <1>2, <1>6, Names DEF PeerTypes
  <2>2. \A c, d \in Alive : fd[c] = fd[d] /\ fd[c] # NoFd => c = d
    BY <1>6, Names DEF Alive
  <2>3. \A s \in Servers : inbox[s] = <<>> /\ atServer[s] = <<>> /\ s \notin fin
    BY <1>1, Names
  <2>4. DOMAIN backlog = {} /\ DOMAIN ready = {}
    BY <1>1
  <2> QED BY <1>6, <2>1, <2>2, <2>3, <2>4 DEF FdInv
<1>8. MainInv
  BY <1>1 DEF MainInv
<1>9. WorkInv
  BY <1>1 DEF WorkInv
<1>10. ClientInv
  BY <1>1, <1>5 DEF ClientInv, InClients
<1>11. ServerInv
  <2>1. /\ \A n \in DOMAIN serverConns : serverConns[n] \in Servers /\ fd[serverConns[n]] = n
        /\ \A i \in DOMAIN forwarding : forwarding[i] \in DOMAIN serverConns
        /\ \A i, j \in DOMAIN forwarding : forwarding[i] = forwarding[j] /\ forwarding[i] # NoFd => i = j
    BY StartTables
  <2> QED BY <2>1 DEF ServerInv, InServers
<1> QED BY <1>2, <1>3, <1>4, <1>7, <1>8, <1>9, <1>10, <1>11 DEF TablesInv

LEMMA StutterInv == TablesInv /\ UNCHANGED vars => TablesInv'
<1> SUFFICES ASSUME TablesInv, UNCHANGED vars PROVE TablesInv'
  OBVIOUS
<1>1. UNCHANGED <<backlog, fd, inbox, fin, rst, ready, sends, atServer>>
  BY DEF vars
<1>2. UNCHANGED <<clientConns, serverConns, clientTable, forwarding, mpc, events, hand, que,
                  readBuf, wpc, job, msg, local, crashed, forwarded, delivered, lost, cut>>
  BY DEF vars
<1>3. PeerTypes' /\ WorkTypes' /\ MainTypes'
  BY <1>1, <1>2 DEF TablesInv, PeerTypes, WorkTypes, MainTypes
<1>4. Alive' = Alive
  BY <1>2 DEF Alive
<1>5. FdInv' /\ MainInv' /\ WorkInv'
  BY <1>1, <1>2, <1>4 DEF TablesInv, FdInv, MainInv, WorkInv, InClients
<1>6. ClientInv' /\ ServerInv'
  BY <1>1, <1>2 DEF TablesInv, ClientInv, ServerInv, InClients, InServers, Forgetting
<1> QED BY <1>3, <1>5, <1>6 DEF TablesInv

\* The tables stay what they are meant to be, whatever the peers do, with the
\* failing accept() of EventLoop::handleNewConnection and with every order of
\* the unlocked accesses of main thread and workers.
THEOREM TablesHold == ProxySpec => []TablesInv
<1>1. TablesInv /\ [ProxyNext]_vars => TablesInv'
  BY PeerTypesStep, WorkTypesStep, MainTypesStep, FdInvStep, MainInvStep, WorkInvStep, ClientInvStep,
     ServerInvStep, StutterInv DEF TablesInv
<1> QED BY StartInv, <1>1, PTL DEF ProxySpec

\* The types of the proxy's state.
THEOREM ProxyTypes == ProxySpec => []ProxyTypeOK
<1>1. TablesInv => ProxyTypeOK
  <2> SUFFICES ASSUME TablesInv PROVE ProxyTypeOK
    OBVIOUS
  <2>1. Range(clientConns) \subseteq Clients \cup {Phantom} /\ Range(serverConns) \subseteq Servers
    BY DEF TablesInv, ClientInv, ServerInv, Range
  <2>2. ToSet(que) \subseteq Conns
    BY DEF TablesInv, MainTypes, ToSet
  <2> QED BY <2>1, <2>2 DEF ProxyTypeOK, TablesInv, ClientInv, MainTypes, WorkTypes, PeerTypes
<1> QED BY <1>1, TablesHold, PTL

\* A number in a table of EventLoop.hpp belongs to the open connection the table
\* means: every look-up by number finds the peer it is for.
THEOREM NumbersMeanConnections == ProxySpec => []TablesNameLiveConns
<1>1. TablesInv => TablesNameLiveConns
  <2> SUFFICES ASSUME TablesInv PROVE TablesNameLiveConns
    OBVIOUS
  <2>1. ClientInv /\ ServerInv /\ WorkTypes
    BY DEF TablesInv
  <2>2. \A c \in Conns : Held(c) => c \in Alive
    BY <2>1, AliveIsHeld
  <2>3. \A c \in Conns : InClients(c) \/ Forgetting(c, "clientForget") => c \in Alive
    BY <2>2 DEF Held, Forgetting
  <2>4. \A s \in Conns : InServers(s) \/ Forgetting(s, "serverForget") => s \in Alive
    BY <2>2 DEF Held, Forgetting
  <2>5. ASSUME NEW c \in DOMAIN clientTable
        PROVE  \/ c \in Alive /\ clientTable[c] = fd[c]
               \/ clientTable[c] = NoFd /\ NoFd \in DOMAIN clientConns
    <3>1. c \in Conns
      BY <2>1, Names DEF ClientInv
    <3> QED BY <2>1, <2>3, <3>1 DEF ClientInv
  <2>6. \A i \in DOMAIN forwarding : \E s \in Servers \cap Alive : fd[s] = forwarding[i]
    BY <2>1, <2>4, Names DEF ServerInv
  <2> QED BY <2>1, <2>5, <2>6 DEF TablesNameLiveConns, ClientInv, ServerInv
<1> QED BY <1>1, TablesHold, PTL

\* _clientConns and _clientTable, which two threads change one after the other,
\* agree but for a client that is between the two updates.
THEOREM ClientTablesMatch == ProxySpec => []ClientTablesAgree
<1>1. TablesInv => ClientTablesAgree
  <2> SUFFICES ASSUME TablesInv, NEW c \in Clients,
                      ~(c \in DOMAIN clientTable /\ clientTable[c] = NoFd)
               PROVE  InClients(c) <=>
                         \/ c \in DOMAIN clientTable /\ ~Forgetting(c, "clientForget")
                         \/ hand = c /\ mpc = "table"
    BY DEF ClientTablesAgree, InClients, Forgetting, Range
  <2>1. ClientInv /\ MainInv
    BY DEF TablesInv
  <2>2. CASE hand = c /\ mpc = "table"
    BY <2>1, <2>2 DEF MainInv
  <2>3. CASE ~(hand = c /\ mpc = "table")
    BY <2>1, <2>3 DEF ClientInv
  <2> QED BY <2>2, <2>3
<1> QED BY <1>1, TablesHold, PTL

--------------------------------------------------------------------------------
(* Input and its announcement *)

Unread(c)    == inbox[c] # <<>> \/ c \in fin
InEvents(n)  == \E i \in DOMAIN events : events[i] = n
InQue(c)     == \E i \in DOMAIN que : que[i] = c
Reading(c)   == \E w \in Workers : job[w] = c /\ wpc[w] \in {"recv", "clientGone", "serverGone"}
Announced(c) == InReady(c) \/ InEvents(fd[c]) \/ hand = c \/ InQue(c) \/ Reading(c)
AllAnnounced ==
    \A c \in Conns : (InClients(c) \/ InServers(c)) /\ c \notin rst /\ Unread(c) => Announced(c)

LEMMA StrandedMeans == AllAnnounced <=> NoStrandedInput
BY DEF AllAnnounced, NoStrandedInput, Announced, Unread, InReady, InEvents, InQue, Reading, InClients,
       InServers, Contains, Range

LEMMA StrandedMeansNext == AllAnnounced' <=> NoStrandedInput'
BY DEF AllAnnounced, NoStrandedInput, Announced, Unread, InReady, InEvents, InQue, Reading, InClients,
       InServers, Contains, Range

LEMMA StrandedWorkers ==
    ASSUME TablesInv, StrandedInv, ProxyNext, NEW w \in Workers, WorkerStep(w)
    PROVE  StrandedInv'
<1>1. UNCHANGED <<ready, events, hand, mpc, fin, fd>>
  BY DEF WorkerStep, WorkerPop, Recv, ClearBuffer, ClientGone, ClientForget, ParseRequest, FrontServer,
         SendToServer, ServerGone, ServerForget, ParseResponse, FindClient, SendToClient, NotFound,
         netVars, mainVars
<1>2. rst \subseteq rst'
  BY DEF WorkerStep, WorkerPop, Recv, ClearBuffer, ClientGone, ClientForget, ParseRequest, FrontServer,
         SendToServer, ServerGone, ServerForget, ParseResponse, FindClient, SendToClient, NotFound,
         netVars, Written
<1>3. \A c \in Conns : Unread(c)' => Unread(c)
  <2>1. CASE Recv(w)
    <3>1. DOMAIN inbox = Conns
      BY DEF TablesInv, PeerTypes
    <3>2. inbox' = inbox \/ (inbox[job[w]] # <<>> /\ inbox' = [inbox EXCEPT ![job[w]] = Tail(@)])
      BY <2>1 DEF Recv
    <3> QED BY <1>1, <3>1, <3>2 DEF Unread
  <2>2. CASE ~Recv(w)
    <3>1. inbox' = inbox
      BY <2>2 DEF WorkerStep, WorkerPop, ClearBuffer, ClientGone, ClientForget, ParseRequest,
         FrontServer, SendToServer, ServerGone, ServerForget, ParseResponse, FindClient, SendToClient,
         NotFound, netVars
    <3> QED BY <1>1, <3>1 DEF Unread
  <2> QED BY <2>1, <2>2
<1>4. \A c \in Conns : InClients(c)' => InClients(c) /\ (wpc[w] = "clientGone" => c # job[w])
  <2>1. \A c \in Conns : InClients(c)' => c \in Clients /\ InClients(c)' /\ c \in Clients \cup {Phantom}
    BY ClientInvStep, Names DEF ClientInv, InClients
  <2>2. CASE wpc[w] = "clientGone" /\ clientConns' = Without(clientConns, fd[job[w]])
    BY <2>1, <2>2, WithoutClient
  <2>3. CASE clientConns' = clientConns /\ wpc[w] # "clientGone"
    BY <2>3 DEF InClients
  <2> QED BY <2>2, <2>3, WorkersOnClients
<1>5. \A c \in Conns : InServers(c)' => InServers(c) /\ (wpc[w] = "serverGone" => c # job[w])
  <2>1. CASE wpc[w] = "serverGone" /\ serverConns' = Without(serverConns, fd[job[w]])
    <3>1. \A n \in DOMAIN serverConns' : /\ n \in DOMAIN serverConns /\ n # fd[job[w]]
                                         /\ serverConns'[n] = serverConns[n]
      BY <2>1 DEF Without, Restrict
    <3> QED BY <3>1 DEF InServers, TablesInv, ServerInv
  <2>2. CASE serverConns' = serverConns /\ wpc[w] # "serverGone"
    BY <2>2 DEF InServers
  <2> QED BY <2>1, <2>2, WorkersOnServers
<1>6. ASSUME NEW c \in Conns, (InClients(c) \/ InServers(c))', c \notin rst', Unread(c)'
      PROVE  Announced(c)'
  <2>1. InClients(c) \/ InServers(c)
    BY <1>4, <1>5, <1>6
  <2>2. Announced(c)
    BY <1>2, <1>3, <1>6, <2>1, StrandedMeans DEF StrandedInv, AllAnnounced
  <2>3. CASE InReady(c) \/ InEvents(fd[c]) \/ hand = c
    BY <1>1, <2>3 DEF Announced, InReady, InEvents
  <2>4. CASE InQue(c)
    <3>1. CASE WorkerPop(w)
      <4>1. que # <<>> /\ que' = Tail(que) /\ que \in Seq(Conns)
        BY <3>1 DEF WorkerPop, TablesInv, MainTypes
      <4>2. InQue(c)' \/ c = Head(que)
        BY <2>4, <4>1, TailElements DEF InQue
      <4>3. wpc'[w] = "recv" /\ job'[w] = Head(que)
        BY <3>1 DEF WorkerPop, Goto, TablesInv, WorkTypes
      <4> QED BY <4>2, <4>3 DEF Announced, Reading
    <3>2. CASE ~WorkerPop(w)
      <4>1. que' = que
        BY <3>2 DEF WorkerStep, Recv, ClearBuffer, ClientGone, ClientForget, ParseRequest, FrontServer,
           SendToServer, ServerGone, ServerForget, ParseResponse, FindClient, SendToClient, NotFound
      <4> QED BY <2>4, <4>1 DEF Announced, InQue
    <3> QED BY <3>1, <3>2
  <2>5. ASSUME NEW v \in Workers, job[v] = c, wpc[v] \in {"recv", "clientGone", "serverGone"}
        PROVE  Reading(c)'
    <3>1. CASE v # w
      BY <2>5, <3>1, OtherWorkers DEF Reading
    <3>2. CASE v = w /\ wpc[w] = "recv"
      <4>1. Recv(w)
        BY <3>2 DEF WorkerStep, WorkerPop, ClearBuffer, ClientGone, ClientForget, ParseRequest,
           FrontServer, SendToServer, ServerGone, ServerForget, ParseResponse, FindClient, SendToClient
      <4>2. job' = job /\ (wpc' = wpc \/ Goto(w, "clientGone") \/ Goto(w, "serverGone"))
        <5>1. ~(inbox[c] = <<>> /\ c \notin fin)
          BY <1>3, <1>6 DEF Unread
        <5> QED BY <2>5, <3>2, <4>1, <5>1 DEF Recv
      <4>3. wpc'[w] \in {"recv", "clientGone", "serverGone"}
        BY <3>2, <4>2 DEF Goto, TablesInv, WorkTypes
      <4> QED BY <2>5, <3>2, <4>2, <4>3 DEF Reading
    <3>3. CASE v = w /\ wpc[w] = "clientGone"
      <4>1. c \in Clients
        BY <2>5, <3>3 DEF TablesInv, WorkInv
      <4>2. ~InServers(c)
        BY <4>1, Names DEF InServers, TablesInv, ServerInv
      <4> QED BY <1>4, <1>5, <1>6, <2>5, <3>3, <4>2
    <3>4. CASE v = w /\ wpc[w] = "serverGone"
      <4>1. c \in Servers
        BY <2>5, <3>4 DEF TablesInv, WorkInv
      <4>2. ~InClients(c)
        BY <4>1, Names DEF InClients, TablesInv, ClientInv
      <4> QED BY <1>4, <1>5, <1>6, <2>5, <3>4, <4>2
    <3> QED BY <2>5, <3>1, <3>2, <3>3, <3>4
  <2> QED BY <2>2, <2>3, <2>4, <2>5 DEF Announced, Reading
<1>7. NoStrandedInput'
  BY <1>6, StrandedMeansNext DEF AllAnnounced
<1>8. mpc' \in {"insert", "table"} /\ hand' # Phantom /\ (inbox'[hand'] # <<>> \/ hand' \in fin') =>
          \E i \in DOMAIN ready' : ready'[i] = hand'
  <2>1. mpc \in {"insert", "table"} /\ hand # Phantom => hand \in Conns
    BY Names DEF TablesInv, MainInv
  <2> QED BY <1>1, <1>3, <2>1 DEF StrandedInv, Unread
<1> QED BY <1>1, <1>7, <1>8 DEF StrandedInv

\* An open connection is watched: what reaches it is announced.
LEMMA StrandedPeers ==
    ASSUME TablesInv, StrandedInv, ProxyNext, PeerStep \/ RaceCrash
    PROVE  StrandedInv'
<1>1. /\ UNCHANGED <<events, hand, mpc, fd, rst, clientConns, serverConns, que, wpc, job>>
      /\ ~WaitEvents
  BY Names DEF PeerStep, RaceCrash, Connect, Send, Answer, Close, netVars, tableVars, mainVars, workVars,
     WaitEvents
<1>2. \A c \in Conns : InReady(c) => InReady(c)'
  BY <1>1, ReadyStep
<1>3. \A c \in Conns : Held(c) => c \in Alive
  BY AliveIsHeld DEF TablesInv
<1>4. ASSUME NEW c \in Conns, Held(c), Unread(c)', ~Unread(c) PROVE InReady(c)'
  <2>1. DOMAIN inbox = Conns
    BY DEF TablesInv, PeerTypes
  <2>2. ready' = Edge(c)
    BY <1>3, <1>4, <2>1, Names DEF PeerStep, RaceCrash, Connect, Send, Answer, Close, netVars, Unread
  <2> QED BY <2>2, EdgeElements
<1>5. ASSUME NEW c \in Conns, (InClients(c) \/ InServers(c))', c \notin rst', Unread(c)'
      PROVE  Announced(c)'
  <2>1. InClients(c) \/ InServers(c)
    BY <1>1, <1>5 DEF InClients, InServers
  <2>2. CASE ~Unread(c)
    BY <1>4, <1>5, <2>1, <2>2 DEF Held, Announced
  <2>3. CASE Unread(c)
    <3>1. Announced(c)
      BY <1>1, <1>5, <2>1, <2>3, StrandedMeans DEF StrandedInv, AllAnnounced
    <3> QED BY <1>1, <1>2, <3>1 DEF Announced, InEvents, InQue, Reading
  <2> QED BY <2>2, <2>3
<1>6. NoStrandedInput'
  BY <1>5, StrandedMeansNext DEF AllAnnounced
<1>7. ASSUME mpc' \in {"insert", "table"}, hand' # Phantom, inbox'[hand'] # <<>> \/ hand' \in fin'
      PROVE  \E i \in DOMAIN ready' : ready'[i] = hand'
  <2>1. PICK c \in Conns : hand' = hand /\ mpc' = mpc /\ hand = c /\ Held(c)
    BY <1>1, <1>7, Names DEF TablesInv, MainInv, Held
  <2>2. Unread(c)'
    BY <1>7, <2>1 DEF Unread
  <2>3. Unread(c) => InReady(c)
    BY <1>7, <2>1 DEF StrandedInv, Unread, InReady
  <2>4. InReady(c)'
    BY <1>2, <1>4, <2>1, <2>2, <2>3
  <2> QED BY <2>1, <2>4 DEF InReady
<1>8. mpc' = "wait" => events' = <<>>
  BY <1>1 DEF StrandedInv
<1> QED BY <1>6, <1>7, <1>8 DEF StrandedInv

\* What an event announces: the connection whose number it is.
LEMMA EventsLeft ==
    ASSUME TablesInv, NEW c \in Conns, events # <<>>, events' = Tail(events), fd' = fd,
           InEvents(fd[c])
    PROVE  InEvents(fd[c])' \/ Head(events) = fd[c]
BY TailElements DEF InEvents, TablesInv, MainTypes

LEMMA StrandedMain ==
    ASSUME TablesInv, StrandedInv, ProxyNext, MainStep
    PROVE  StrandedInv'
<1>0. /\ \A c \in Conns : (InClients(c) \/ InServers(c)) /\ c \notin rst /\ Unread(c) => Announced(c)
      /\ \A c \in Conns : InClients(c) => fd[c] # NoFd /\ \E n \in DOMAIN clientConns : n = fd[c]
      /\ \A c \in Conns : InServers(c) => \E n \in DOMAIN serverConns : n = fd[c]
      /\ \A c \in Conns : InClients(c) \/ InServers(c) => Held(c)
  <2>1. \A c \in Conns : InClients(c) => fd[c] # NoFd
    BY ClientsHeld, Names DEF InClients, TablesInv, ClientInv, Held
  <2> QED BY <2>1, StrandedMeans DEF StrandedInv, AllAnnounced, InClients, InServers, TablesInv,
                                     ClientInv, ServerInv, Held
<1>1. CASE WaitEvents
  <2>1. /\ UNCHANGED <<fd, inbox, fin, rst, clientConns, serverConns, hand, que, wpc, job>>
        /\ mpc' = "dispatch" /\ events' = [i \in DOMAIN ready |-> Reported(ready[i], rst)]
        /\ hand = Nobody /\ events = <<>>
    BY <1>1 DEF WaitEvents, tableVars, workVars, StrandedInv, TablesInv, MainInv
  <2>2. ASSUME NEW c \in Conns, (InClients(c) \/ InServers(c))', c \notin rst', Unread(c)'
        PROVE  Announced(c)'
    <3>1. (InClients(c) \/ InServers(c)) /\ c \notin rst /\ Unread(c)
      BY <2>1, <2>2 DEF InClients, InServers, Unread
    <3>2. Announced(c) /\ c \in Alive /\ c # Listener
      BY <1>0, <3>1, AliveIsHeld, Names DEF TablesInv
    <3>3. CASE InReady(c)
      <4>1. PICK i \in DOMAIN ready : ready[i] = c
        BY <3>3 DEF InReady
      <4>2. events'[i] = fd[c] /\ i \in DOMAIN events'
        BY <2>1, <3>1, <3>2, <4>1 DEF Reported
      <4> QED BY <2>1, <4>2 DEF Announced, InEvents
    <3>4. ~InEvents(fd[c]) /\ hand # c
      BY <2>1, Names DEF InEvents
    <3> QED BY <2>1, <3>2, <3>3, <3>4 DEF Announced, InQue, Reading
  <2>3. NoStrandedInput'
    BY <2>2, StrandedMeansNext DEF AllAnnounced
  <2> QED BY <2>1, <2>3 DEF StrandedInv
<1>2. CASE EventsDone
  <2>1. /\ UNCHANGED <<fd, inbox, fin, rst, ready, clientConns, serverConns, events, hand, que, wpc, job>>
        /\ mpc' = "wait" /\ events = <<>>
    BY <1>2 DEF EventsDone, netVars, tableVars, workVars
  <2>2. AllAnnounced'
    BY <1>0, <2>1 DEF AllAnnounced, Announced, Unread, InReady, InEvents, InQue, Reading, InClients,
                      InServers
  <2> QED BY <2>1, <2>2, StrandedMeansNext DEF StrandedInv
<1>3. CASE Accept
  <2>0. PICK h \in Clients : h = Head(backlog) /\ ~Held(h)
    BY <1>3, FdStep
  <2>1. /\ UNCHANGED <<inbox, fin, rst, clientConns, serverConns, events, que, wpc, job>>
        /\ mpc' = "insert" /\ hand' = h /\ hand = Nobody
    BY <1>3, <2>0 DEF Accept, tableVars, workVars, TablesInv, MainInv
  <2>2. h \in Clients /\ ~Held(h)
    BY <2>0
  <2>3. \A c \in Conns : c # h => fd'[c] = fd[c]
    BY <1>3, <2>0, FdStep DEF TablesInv, PeerTypes
  <2>4. \A c \in Conns : InReady(c) => InReady(c)'
    BY <1>3, ReadyStep DEF WaitEvents, Accept
  <2>5. inbox[h] # <<>> \/ h \in fin => ready' = Edge(h)
    BY <1>3, <2>0 DEF Accept
  <2>6. inbox[h] # <<>> \/ h \in fin => InReady(h)'
    BY <2>2, <2>5, EdgeElements, Names
  <2>7. ASSUME NEW c \in Conns, (InClients(c) \/ InServers(c))', c \notin rst', Unread(c)'
        PROVE  Announced(c)'
    <3>1. (InClients(c) \/ InServers(c)) /\ c \notin rst /\ Unread(c)
      BY <2>1, <2>7 DEF InClients, InServers, Unread
    <3>2. Announced(c) /\ c # h /\ hand # c
      BY <1>0, <2>1, <2>2, <3>1, Names
    <3> QED BY <2>1, <2>3, <2>4, <3>2 DEF Announced, InEvents, InQue, Reading
  <2>8. NoStrandedInput'
    BY <2>7, StrandedMeansNext DEF AllAnnounced
  <2> QED BY <2>1, <2>6, <2>8 DEF StrandedInv, InReady
<1>4. CASE AcceptFails
  <2>1. /\ UNCHANGED <<fd, inbox, fin, rst, ready, clientConns, serverConns, events, que, wpc, job>>
        /\ mpc' = "insert" /\ hand' = Phantom /\ hand = Nobody
    BY <1>4 DEF AcceptFails, netVars, tableVars, workVars, TablesInv, MainInv
  <2>2. \A c \in Conns : Announced(c) => Announced(c)'
    BY <2>1, Names DEF Announced, InReady, InEvents, InQue, Reading
  <2>3. AllAnnounced'
    BY <1>0, <2>1, <2>2 DEF AllAnnounced, Unread, InClients, InServers
  <2> QED BY <2>1, <2>3, StrandedMeansNext DEF StrandedInv
<1>5. CASE InsertConn
  <2>1. /\ UNCHANGED <<fd, inbox, fin, rst, ready, serverConns, events, hand, que, wpc, job>>
        /\ mpc = "insert" /\ mpc' = "table"
    BY <1>5 DEF InsertConn, netVars, workVars
  <2>2. \A c \in Conns : InClients(c)' => InClients(c) \/ c = hand
    BY <1>5 DEF InsertConn, With, InClients
  <2>3. \A c \in Conns : Announced(c) \/ c = hand => Announced(c)'
    BY <2>1 DEF Announced, InReady, InEvents, InQue, Reading
  <2>4. AllAnnounced'
    BY <1>0, <2>1, <2>2, <2>3 DEF AllAnnounced, Unread, InServers
  <2> QED BY <2>1, <2>4, StrandedMeansNext DEF StrandedInv
<1>6. CASE SetClientTable
  <2>1. /\ UNCHANGED <<fd, inbox, fin, rst, ready, clientConns, serverConns, que, wpc, job>>
        /\ mpc = "table" /\ mpc' = "dispatch" /\ hand' = Nobody /\ events' = Tail(events)
        /\ events # <<>> /\ Head(events) = ListenFd
    BY <1>6 DEF SetClientTable, NextEvent, netVars, workVars, TablesInv, MainInv
  <2>2. ASSUME NEW c \in Conns, InClients(c) \/ InServers(c), c \notin rst, Unread(c)
        PROVE  Announced(c)'
    <3>1. Announced(c)
      BY <1>0, <2>2
    <3>2. hand = c => InReady(c)
      BY <2>1, <2>2, Names DEF StrandedInv, Unread, InReady
    <3>3. fd[c] # ListenFd
      <4>1. c \in DOMAIN fd /\ fd[c] \in Int
        BY DEF TablesInv, PeerTypes
      <4>2. fd[c] = NoFd \/ fd[c] >= FirstFd
        BY <4>1 DEF TablesInv, FdInv
      <4> QED BY <4>1, <4>2, Numbers
    <3>4. InEvents(fd[c]) => InEvents(fd[c])'
      BY <2>1, <3>3, EventsLeft
    <3> QED BY <2>1, <3>1, <3>2, <3>4 DEF Announced, InReady, InQue, Reading
  <2>3. AllAnnounced'
    BY <2>1, <2>2 DEF AllAnnounced, Unread, InClients, InServers
  <2> QED BY <2>1, <2>3, StrandedMeansNext DEF StrandedInv
<1>7. CASE FindMessageConn
  <2>1. /\ UNCHANGED <<fd, inbox, fin, rst, ready, clientConns, serverConns, que, wpc, job>>
        /\ events # <<>> /\ hand = Nobody /\ mpc' \in {"push", "dispatch"}
        /\ \/ UNCHANGED events
           \/ /\ Head(events) \notin DOMAIN clientConns \cup DOMAIN serverConns
              /\ events' = Tail(events)
    BY <1>7 DEF FindMessageConn, NextEvent, netVars, tableVars, workVars, TablesInv, MainInv
  <2>2. ASSUME NEW c \in Conns, InClients(c) \/ InServers(c), c \notin rst, Unread(c)
        PROVE  Announced(c)'
    <3>1. Announced(c) /\ hand # c
      BY <1>0, <2>1, <2>2, Names
    <3>2. fd[c] \in DOMAIN clientConns \cup DOMAIN serverConns
      BY <1>0, <2>2
    <3>3. InEvents(fd[c]) => InEvents(fd[c])'
      BY <2>1, <3>2, EventsLeft DEF InEvents
    <3> QED BY <2>1, <3>1, <3>3 DEF Announced, InReady, InQue, Reading
  <2>3. AllAnnounced'
    BY <2>1, <2>2 DEF AllAnnounced, Unread, InClients, InServers
  <2> QED BY <2>1, <2>3, StrandedMeansNext DEF StrandedInv
<1>8. CASE AddRequest
  <2>1. /\ UNCHANGED <<fd, inbox, fin, rst, ready, clientConns, serverConns, wpc, job>>
        /\ mpc = "push" /\ mpc' = "dispatch" /\ hand' = Nobody
        /\ events # <<>> /\ events' = Tail(events) /\ que' = Append(que, hand)
        /\ hand \in Conns /\ fd[hand] # NoFd /\ Head(events) = fd[hand]
    BY <1>8 DEF AddRequest, NextEvent, netVars, tableVars, workVars, TablesInv, MainInv
  <2>2. ASSUME NEW c, InQue(c) \/ c = hand PROVE InQue(c)'
    <3>1. que \in Seq(Conns) /\ que' = Append(que, hand)
      BY <2>1 DEF TablesInv, MainTypes
    <3>2. \E i \in DOMAIN que' : que'[i] = c
      BY <2>2, <3>1, AppendElements DEF InQue
    <3> QED BY <3>2 DEF InQue
  <2>3. ASSUME NEW c \in Conns, InClients(c) \/ InServers(c), c \notin rst, Unread(c)
        PROVE  Announced(c)'
    <3>1. Announced(c) /\ Held(c) /\ Held(hand)
      BY <1>0, <2>3 DEF Held
    <3>2. fd[c] = Head(events) => c = hand
      BY <2>1, <3>1, AliveIsHeld DEF TablesInv, FdInv
    <3>3. InEvents(fd[c]) => InEvents(fd[c])' \/ c = hand
      BY <2>1, <3>2, EventsLeft
    <3> QED BY <2>1, <2>2, <3>1, <3>3 DEF Announced, InReady, Reading
  <2>4. AllAnnounced'
    BY <2>1, <2>3 DEF AllAnnounced, Unread, InClients, InServers
  <2> QED BY <2>1, <2>4, StrandedMeansNext DEF StrandedInv
<1> QED BY <1>1, <1>2, <1>3, <1>4, <1>5, <1>6, <1>7, <1>8 DEF MainStep

\* Edge-triggered epoll loses nothing: input of a connection in the tables is in
\* the ready list, in the event list, in the queue or about to be read.
THEOREM NothingStranded == ProxySpec => []NoStrandedInput
<1>1. ProxyInit => StrandedInv
  <2> SUFFICES ASSUME ProxyInit PROVE StrandedInv
    OBVIOUS
  <2>1. mpc = "wait" /\ events = <<>> /\ fin = {} /\ inbox = [c \in Conns |-> <<>>]
    BY DEF ProxyInit
  <2>2. \A c \in Conns : ~Unread(c)
    BY <2>1 DEF Unread
  <2> QED BY <2>1, <2>2, StrandedMeans DEF StrandedInv, AllAnnounced
<1>2. TablesInv /\ StrandedInv /\ [ProxyNext]_vars => StrandedInv'
  <2> SUFFICES ASSUME TablesInv, StrandedInv, [ProxyNext]_vars PROVE StrandedInv'
    OBVIOUS
  <2>1. CASE UNCHANGED vars
    <3>1. NoStrandedInput'
      BY <2>1 DEF StrandedInv, NoStrandedInput, vars, Range, Contains
    <3> QED BY <2>1, <3>1 DEF StrandedInv, vars
  <2>2. CASE ProxyNext
    BY <2>2, StrandedMain, StrandedWorkers, StrandedPeers DEF ProxyNext
  <2> QED BY <2>1, <2>2
<1>3. StrandedInv => NoStrandedInput
  BY DEF StrandedInv
<1> QED BY <1>1, <1>2, <1>3, TablesHold, PTL DEF ProxySpec

--------------------------------------------------------------------------------
(* The servers in the order of the configuration *)

\* What send() adds to the history: segments at the server whose number the
\* worker holds, for the worker's client.
LEMMA SentWhere ==
    ASSUME TablesInv, NEW w \in Workers, SendToServer(w), NEW c \in Clients
    PROVE  \A k \in DOMAIN forwarded'[c] :
              \/ k \in DOMAIN forwarded[c] /\ forwarded'[c][k] = forwarded[c][k]
              \/ \E s \in Servers : /\ forwarded'[c][k].to = s /\ fd[s] = local[w].fd /\ fd[s] # NoFd
<1>0. WorkTypes /\ ServerInv
  BY DEF TablesInv
<1>1. CASE forwarded' = forwarded
  BY <1>1
<1>2. CASE forwarded' # forwarded
  <2> DEFINE s == serverConns[local[w].fd]
             Hop(part) == [i \in DOMAIN part |-> [n |-> part[i].n, to |-> s]]
  <2>1. local[w].fd \in DOMAIN serverConns /\ Reaches(s) /\ job[w] \in Clients
    BY <1>2 DEF SendToServer, histVars
  <2>2. PICK part \in Arriving(msg[w]) : forwarded' = [forwarded EXCEPT ![job[w]] = @ \o Hop(part)]
    BY <1>2, <2>1 DEF SendToServer
  <2>3. s \in Servers /\ fd[s] = local[w].fd /\ fd[s] # NoFd
    BY <1>0, <2>1 DEF ServerInv, Reaches
  <2>4. part \in Seq(Segment)
    <3>1. msg[w] \in Seq(Segment)
      BY <1>0 DEF WorkTypes
    <3> QED BY <3>1 DEF Arriving
  <2>5. Hop(part) \in Seq([n : Nat, to : Servers]) /\ \A i \in DOMAIN Hop(part) : Hop(part)[i].to = s
    <3>1. DOMAIN part = 1 .. Len(part) /\ Len(part) \in Nat
      BY <2>4
    <3>2. \A i \in 1 .. Len(part) : part[i] \in Segment
      BY <2>4
    <3>3. \A i \in 1 .. Len(part) : [n |-> part[i].n, to |-> s] \in [n : Nat, to : Servers]
      BY <2>3, <3>2 DEF Segment
    <3>4. Hop(part) \in Seq([n : Nat, to : Servers])
      BY <3>1, <3>3, IsASeq
    <3> QED BY <3>4
  <2> DEFINE h == Hop(part)
  <2>6. forwarded[job[w]] \in Seq([n : Nat, to : Servers])
    BY <1>0, <2>1 DEF WorkTypes
  <2>7. forwarded'[job[w]] = forwarded[job[w]] \o h
    BY <1>0, <2>1, <2>2 DEF WorkTypes
  <2>8. h \in Seq([n : Nat, to : Servers]) /\ \A i \in DOMAIN h : h[i].to = s
    BY <2>5
  <2>9. c # job[w] => forwarded'[c] = forwarded[c]
    BY <1>0, <2>2 DEF WorkTypes
  <2> HIDE DEF h, s
  <2>10. ASSUME NEW k \in DOMAIN (forwarded[job[w]] \o h)
         PROVE  \/ k \in DOMAIN forwarded[job[w]] /\ (forwarded[job[w]] \o h)[k] = forwarded[job[w]][k]
                \/ (forwarded[job[w]] \o h)[k].to = s
    <3> DEFINE f == forwarded[job[w]]
    <3>1. f \in Seq([n : Nat, to : Servers])
      BY <2>6
    <3> HIDE DEF f
    <3>2. /\ f \o h \in Seq([n : Nat, to : Servers]) /\ Len(f \o h) = Len(f) + Len(h)
          /\ \A i \in 1 .. Len(f) + Len(h) : (f \o h)[i] = IF i <= Len(f) THEN f[i] ELSE h[i - Len(f)]
      BY <2>8, <3>1, ConcatProperties
    <3>3. k \in 1 .. Len(f) + Len(h) /\ Len(f) \in Nat /\ Len(h) \in Nat
      <4>1. k \in DOMAIN (f \o h)
        BY <2>10 DEF f
      <4> QED BY <2>8, <3>1, <3>2, <4>1
    <3>4. CASE k <= Len(f)
      BY <3>1, <3>2, <3>3, <3>4 DEF f
    <3>5. CASE ~(k <= Len(f))
      <4>1. k - Len(f) \in 1 .. Len(h)
        BY <3>3, <3>5
      <4>2. h[k - Len(f)].to = s
        BY <2>8, <4>1
      <4> QED BY <3>2, <3>3, <3>5, <4>2 DEF f
    <3> QED BY <3>4, <3>5
  <2> QED BY <2>3, <2>7, <2>9, <2>10
<1> QED BY <1>1, <1>2

\* No other step touches the history, and no step but a look-up the number.
LEMMA NotSent ==
    ASSUME TablesInv, ProxyNext, NEW w \in Workers, WorkerStep(w), ~SendToServer(w)
    PROVE  forwarded' = forwarded
BY DEF WorkerStep, WorkerPop, Recv, ClearBuffer, ClientGone, ClientForget, ParseRequest, FrontServer,
       ServerGone, ServerForget, ParseResponse, FindClient, SendToClient, NotFound, histVars

LEMMA OthersLocal ==
    ASSUME TablesInv, NEW v \in Workers, WorkerStep(v), NEW w \in Workers, w # v
    PROVE  local'[w] = local[w]
<1>1. local' = local \/ \E l : local' = [local EXCEPT ![v] = l]
  BY DEF WorkerStep, WorkerPop, Recv, ClearBuffer, ClientGone, ClientForget, ParseRequest, FrontServer,
         SendToServer, ServerGone, ServerForget, ParseResponse, FindClient, SendToClient, NotFound,
         Done, workVars
<1> QED BY <1>1 DEF TablesInv, WorkTypes

\* What is no worker's step leaves the history and the forwarding table alone.
LEMMA NoWorkersForward ==
    ASSUME ProxyNext, ~\E w \in Workers : WorkerStep(w)
    PROVE  UNCHANGED <<forwarded, forwarding, local>>
BY DEF ProxyNext, MainStep, WaitEvents, EventsDone, Accept, AcceptFails, InsertConn, SetClientTable,
       FindMessageConn, AddRequest, RaceCrash, PeerStep, workVars, histVars, tableVars

LEMMA OrderStep == ASSUME TablesInv, BackupInv, ProxyNext PROVE ServersInOrder'
<1>0. /\ \A j \in DOMAIN Upstream : Upstream[j] \in Servers /\ fd'[Upstream[j]] = fd[Upstream[j]]
      /\ fin \subseteq fin'
  BY FdStays, FinGrows DEF Servers, ToSet
<1>1. CASE forwarding' = forwarding
  <2>1. \A j \in DOMAIN Upstream : \A i \in 1 .. j - 1 : i \in DOMAIN Upstream
    <3>1. DOMAIN Upstream = 1 .. Len(Upstream) /\ Len(Upstream) \in Nat
      BY PeersAssumption
    <3> QED BY <3>1
  <2> QED BY <1>0, <1>1, <2>1 DEF BackupInv, ServersInOrder
<1>2. ASSUME NEW w \in Workers, wpc[w] = "serverForget",
             forwarding' = RemoveFirst(forwarding, fd[job[w]])
      PROVE  ServersInOrder'
  <2> DEFINE n == fd[job[w]]
             r == RemoveFirst(forwarding, n)
  <2>1. job[w] \in Servers \cap fin /\ n # NoFd /\ n \in Int /\ forwarding \in Seq(Int)
    BY <1>2, Names DEF TablesInv, WorkInv, PeerTypes, MainTypes
  <2>2. \A p \in DOMAIN r : \E t \in DOMAIN forwarding :
                 /\ forwarding[t] = r[p]
                 /\ \A u \in 1 .. t - 1 : forwarding[u] # n => \E v \in 1 .. p - 1 : r[v] = forwarding[u]
    BY <2>1, ForgetOnce DEF TablesInv, ServerInv
  <2>3. \A s \in Servers : fd[s] = n => s \in fin
    BY <2>1 DEF TablesInv, FdInv
  <2>4. forwarding' = r
    BY <1>2
  <2> HIDE DEF r, n
  <2> SUFFICES ASSUME NEW j \in DOMAIN Upstream, NEW p \in DOMAIN r,
                      r[p] = fd[Upstream[j]], fd[Upstream[j]] # NoFd, NEW i \in 1 .. j - 1
               PROVE  Upstream[i] \in fin \/ \E q \in 1 .. p - 1 : r[q] = fd[Upstream[i]]
    <3>1. DOMAIN Upstream = 1 .. Len(Upstream) /\ Len(Upstream) \in Nat
      BY PeersAssumption
    <3>2. \A j \in DOMAIN Upstream : \A i \in 1 .. j - 1 : i \in DOMAIN Upstream
      BY <3>1
    <3> QED BY <1>0, <2>4, <3>2 DEF ServersInOrder
  <2>5. PICK t \in DOMAIN forwarding :
                 /\ forwarding[t] = r[p]
                 /\ \A u \in 1 .. t - 1 : forwarding[u] # n => \E v \in 1 .. p - 1 : r[v] = forwarding[u]
    BY <2>2
  <2>6. Upstream[i] \in fin \/ \E q \in 1 .. t - 1 : forwarding[q] = fd[Upstream[i]]
    BY <2>5 DEF BackupInv, ServersInOrder
  <2>7. Upstream[i] \in Servers
    <3>1. i \in DOMAIN Upstream
      BY PeersAssumption
    <3> QED BY <1>0, <3>1
  <2> QED BY <2>3, <2>5, <2>6, <2>7
<1> QED BY <1>1, <1>2, WorkersOnServers, NoWorkersForward

\* The first number of the table belongs to the first server that is left.
LEMMA FirstStep == ASSUME TablesInv, BackupInv, ProxyNext PROVE SendsToFirst'
<1>0. /\ \A j \in DOMAIN Upstream : Upstream[j] \in Servers /\ fd'[Upstream[j]] = fd[Upstream[j]]
      /\ fin \subseteq fin'
  BY FdStays, FinGrows DEF Servers, ToSet
<1>1. CASE ~\E v \in Workers : WorkerStep(v)
  BY <1>0, <1>1, NoWorkersForward, NoWorkersStep DEF BackupInv, SendsToFirst
<1>2. ASSUME NEW v \in Workers, WorkerStep(v) PROVE SendsToFirst'
  <2> SUFFICES ASSUME NEW w \in Workers, NEW j \in DOMAIN Upstream,
                      wpc'[w] = "send", job'[w] \in Clients,
                      local'[w].fd = fd[Upstream[j]], fd[Upstream[j]] # NoFd, NEW i \in 1 .. j - 1
               PROVE  Upstream[i] \in fin
    BY <1>0 DEF SendsToFirst
  <2>1. CASE w # v
    BY <1>2, <2>1, OtherWorkers, OthersLocal DEF BackupInv, SendsToFirst
  <2>2. CASE w = v /\ UNCHANGED <<wpc, job, local>>
    BY <2>2 DEF BackupInv, SendsToFirst
  <2>3. CASE FrontServer(w)
    <3>1. forwarding # <<>> /\ local' = [local EXCEPT ![w] = [client |-> @.client, fd |-> Head(forwarding)]]
      <4>1. NotFound(w) => wpc'[w] = "pop"
        BY DEF NotFound, Done, Goto, TablesInv, WorkTypes
      <4> QED BY <2>3, <4>1 DEF FrontServer
    <3>2. forwarding \in Seq(Int) /\ local'[w].fd = Head(forwarding)
      BY <3>1 DEF TablesInv, MainTypes, WorkTypes
    <3>3. 1 \in DOMAIN forwarding /\ forwarding[1] = Head(forwarding)
      BY <3>1, <3>2
    <3>4. forwarding[1] = fd[Upstream[j]]
      BY <3>2, <3>3
    <3>5. ~\E q \in 1 .. 1 - 1 : forwarding[q] = fd[Upstream[i]]
      OBVIOUS
    <3> QED BY <3>3, <3>4, <3>5 DEF BackupInv, ServersInOrder
  <2>4. CASE w = v /\ ~FrontServer(w) /\ ~UNCHANGED <<wpc, job, local>>
    <3>1. wpc'[w] # "send" \/ FindClient(w)
      BY <1>2, <2>4 DEF WorkerStep, WorkerPop, Recv, ClearBuffer, ClientGone, ClientForget, ParseRequest,
         SendToServer, ServerGone, ServerForget, ParseResponse, SendToClient, NotFound, Done, Goto,
         workVars, TablesInv, WorkTypes
    <3>2. FindClient(w) /\ wpc'[w] = "send" => job'[w] = job[w] /\ job[w] \in Servers
      BY DEF FindClient, TablesInv, WorkInv, Done, Goto, WorkTypes
    <3> QED BY <3>1, <3>2, Names
  <2> QED BY <2>1, <2>2, <2>3, <2>4
<1> QED BY <1>1, <1>2

LEMMA BackupStep == ASSUME TablesInv, BackupInv, ProxyNext PROVE BackupOnlyAfterPrimary'
<1>0. fin \subseteq fin'
  BY FinGrows
<1>1. CASE forwarded' = forwarded
  BY <1>0, <1>1 DEF BackupInv, BackupOnlyAfterPrimary
<1>2. ASSUME NEW w \in Workers, SendToServer(w) PROVE BackupOnlyAfterPrimary'
  <2> SUFFICES ASSUME NEW c \in Clients, NEW k \in DOMAIN forwarded'[c],
                      NEW i \in DOMAIN Upstream, NEW j \in DOMAIN Upstream,
                      i < j, forwarded'[c][k].to = Upstream[j]
               PROVE  Upstream[i] \in fin
    BY <1>0 DEF BackupOnlyAfterPrimary
  <2>1. CASE k \in DOMAIN forwarded[c] /\ forwarded'[c][k] = forwarded[c][k]
    BY <2>1 DEF BackupInv, BackupOnlyAfterPrimary
  <2>2. CASE \E s \in Servers : forwarded'[c][k].to = s /\ fd[s] = local[w].fd /\ fd[s] # NoFd
    <3>1. local[w].fd = fd[Upstream[j]] /\ fd[Upstream[j]] # NoFd
      BY <2>2
    <3>2. i \in 1 .. j - 1
      <4>1. DOMAIN Upstream = 1 .. Len(Upstream)
        BY PeersAssumption
      <4> QED BY <4>1
    <3> QED BY <1>2, <3>1, <3>2 DEF SendToServer, BackupInv, SendsToFirst
  <2> QED BY <1>2, <2>1, <2>2, SentWhere
<1> QED BY <1>1, <1>2, NotSent, NoWorkersForward

\* proxyserver.conf:20-21, for any number of servers and any order of their
\* failures: TcpConnection takes the front of the forwarding table, from which
\* only servers that have closed are removed.
THEOREM BackupLast == ProxySpec => []BackupOnlyAfterPrimary
<1>1. ProxyInit => BackupInv
  <2> SUFFICES ASSUME ProxyInit PROVE BackupInv
    OBVIOUS
  <2>1. /\ forwarded = [c \in Clients |-> <<>>] /\ wpc = [w \in Workers |-> "pop"]
    BY DEF ProxyInit
  <2>2. BackupOnlyAfterPrimary /\ SendsToFirst
    BY <2>1 DEF BackupOnlyAfterPrimary, SendsToFirst
  <2>3. /\ DOMAIN forwarding = DOMAIN Upstream
        /\ \A i \in DOMAIN Upstream : forwarding[i] = fd[Upstream[i]]
        /\ \A i, j \in DOMAIN forwarding : forwarding[i] = forwarding[j] /\ forwarding[i] # NoFd => i = j
    BY StartTables
  <2>4. DOMAIN Upstream = 1 .. Len(Upstream) /\ Len(Upstream) \in Nat
    BY PeersAssumption
  <2>5. ASSUME NEW j \in DOMAIN Upstream, NEW p \in DOMAIN forwarding,
               forwarding[p] = fd[Upstream[j]], fd[Upstream[j]] # NoFd, NEW i \in 1 .. j - 1
        PROVE  \E q \in 1 .. p - 1 : forwarding[q] = fd[Upstream[i]]
    <3>1. p = j
      BY <2>3, <2>5
    <3>2. i \in DOMAIN Upstream
      BY <2>4
    <3> QED BY <2>3, <3>1, <3>2
  <2>6. ServersInOrder
    BY <2>5 DEF ServersInOrder
  <2> QED BY <2>2, <2>6 DEF BackupInv
<1>2. TablesInv /\ BackupInv /\ [ProxyNext]_vars => BackupInv'
  <2> SUFFICES ASSUME TablesInv, BackupInv, [ProxyNext]_vars PROVE BackupInv'
    OBVIOUS
  <2>1. CASE UNCHANGED vars
    BY <2>1 DEF BackupInv, BackupOnlyAfterPrimary, ServersInOrder, SendsToFirst, vars
  <2>2. CASE ProxyNext
    BY <2>2, OrderStep, FirstStep, BackupStep DEF BackupInv
  <2> QED BY <2>1, <2>2
<1>3. BackupInv => BackupOnlyAfterPrimary
  BY DEF BackupInv
<1> QED BY <1>1, <1>2, <1>3, TablesHold, PTL DEF ProxySpec

--------------------------------------------------------------------------------
(* What a worker has looked up still holds when it is used *)

\* The number worker w has in hand belongs to the client it was looked up for, is
\* no connection's, or the client has left.
Found(w) ==
    \/ local[w].fd = NoFd \/ local[w].client \in fin
    \/ local[w].fd \in DOMAIN clientConns /\ clientConns[local[w].fd] = local[w].client

LookupInv ==
    /\ LookupValidUntilClosed
    /\ \A w \in Workers : wpc[w] = "send" /\ job[w] \in Servers => Found(w)

\* Only the removal of a client that has closed takes a number away.
LEMMA FoundStays ==
    ASSUME TablesInv, ProxyNext, NEW v \in Workers, Found(v), local'[v] = local[v]
    PROVE  Found(v)'
<1>0. fin \subseteq fin'
  BY FinGrows
<1>1. CASE \A n \in DOMAIN clientConns : n \in DOMAIN clientConns' /\ clientConns'[n] = clientConns[n]
  BY <1>0, <1>1 DEF Found
<1>2. ASSUME NEW w \in Workers, wpc[w] = "clientGone",
             clientConns' = Without(clientConns, fd[job[w]])
      PROVE  Found(v)'
  <2> DEFINE n == local[v].fd
  <2>1. job[w] \in Clients \cap fin /\ fd[job[w]] # NoFd
    BY <1>2, Names DEF TablesInv, WorkInv
  <2>2. CASE n = NoFd \/ local[v].client \in fin
    BY <1>0, <2>2 DEF Found
  <2>3. CASE n \in DOMAIN clientConns /\ clientConns[n] = local[v].client
    <3>1. CASE n # fd[job[w]]
      <4>1. n \in DOMAIN clientConns' /\ clientConns'[n] = clientConns[n]
        BY <1>2, <2>3, <3>1 DEF Without, Restrict
      <4> QED BY <2>3, <4>1 DEF Found
    <3>2. CASE n = fd[job[w]]
      <4>1. /\ fd[clientConns[n]] = n /\ clientConns[n] \in Clients \cup {Phantom}
            /\ fd[Phantom] = NoFd
        BY <2>3 DEF TablesInv, ClientInv, FdInv
      <4>2. clientConns[n] \in Clients /\ fd[clientConns[n]] = fd[job[w]]
        BY <2>1, <3>2, <4>1
      <4>3. clientConns[n] \in Alive /\ job[w] \in Alive
        BY <2>1, <2>3, <4>2, AliveIsHeld, Names DEF Held, InClients, TablesInv
      <4>4. clientConns[n] = job[w]
        BY <2>1, <4>2, <4>3 DEF TablesInv, FdInv
      <4> QED BY <1>0, <2>1, <2>3, <4>4 DEF Found
    <3> QED BY <3>1, <3>2
  <2> QED BY <2>2, <2>3 DEF Found
<1>3. CASE \E w \in Workers : WorkerStep(w)
  BY <1>1, <1>2, <1>3, WorkersOnClients
<1>4. CASE InsertConn
  <2>1. \A n \in DOMAIN clientConns : n \in DOMAIN clientConns' /\ clientConns'[n] = clientConns[n]
    BY <1>4 DEF InsertConn, With
  <2> QED BY <1>1, <2>1
<1>5. CASE ~InsertConn /\ ~\E w \in Workers : WorkerStep(w)
  <2>1. clientConns' = clientConns
    BY <1>5 DEF ProxyNext, MainStep, WaitEvents, EventsDone, Accept, AcceptFails, SetClientTable,
       FindMessageConn, AddRequest, RaceCrash, PeerStep, tableVars
  <2> QED BY <1>1, <2>1
<1> QED BY <1>3, <1>4, <1>5

LEMMA LookupMain ==
    ASSUME TablesInv, LookupInv, ProxyNext, ~\E w \in Workers : WorkerStep(w)
    PROVE  LookupInv'
<1>1. UNCHANGED <<wpc, job, local>>
  BY NoWorkersStep, NoWorkersForward
<1>2. delivered' = delivered /\ fin \subseteq fin'
  BY FinGrows
     DEF ProxyNext, MainStep, WaitEvents, EventsDone, Accept, AcceptFails, InsertConn, SetClientTable,
         FindMessageConn, AddRequest, RaceCrash, PeerStep, histVars
<1>3. \A v \in Workers : Found(v) => Found(v)'
  BY <1>1, FoundStays
<1> QED BY <1>1, <1>2, <1>3 DEF LookupInv, LookupValidUntilClosed

\* What FindClient finds is good for a start.
LEMMA FoundByFind ==
    ASSUME TablesInv, NEW w \in Workers, FindClient(w), wpc'[w] = "send"
    PROVE  Found(w)'
<1> DEFINE c == local[w].client
<1>1. UNCHANGED <<clientConns, clientTable, fin>>
  BY DEF FindClient, tableVars, netVars
<1>2. wpc[w] = "find" /\ c \in DOMAIN clientTable /\ local'[w] = [client |-> c, fd |-> clientTable[c]]
  BY DEF FindClient, Done, Goto, TablesInv, WorkTypes
<1>3. \/ clientTable[c] = NoFd
      \/ clientTable[c] = fd[c] /\ (InClients(c) \/ Forgetting(c, "clientForget"))
  BY <1>2 DEF TablesInv, ClientInv
<1>4. Forgetting(c, "clientForget") => c \in fin
  BY DEF Forgetting, TablesInv, WorkInv
<1>5. InClients(c) => fd[c] \in DOMAIN clientConns /\ clientConns[fd[c]] = c
  BY DEF InClients, TablesInv, ClientInv
<1> QED BY <1>1, <1>2, <1>3, <1>4, <1>5 DEF Found

LEMMA LookupWorker ==
    ASSUME TablesInv, LookupInv, ProxyNext, NEW w \in Workers, WorkerStep(w)
    PROVE  LookupInv'
<1>0. fin \subseteq fin'
  BY FinGrows
<1>1. ASSUME NEW v \in Workers, v # w, wpc'[v] = "send", job'[v] \in Servers PROVE Found(v)'
  BY <1>1, OtherWorkers, OthersLocal, FoundStays DEF LookupInv
<1>2. CASE FindClient(w)
  <2>1. delivered' = delivered
    BY <1>2 DEF FindClient, histVars
  <2> QED BY <1>0, <1>1, <1>2, <2>1, FoundByFind DEF LookupInv, LookupValidUntilClosed
<1>3. CASE SendToClient(w)
  <2>1. UNCHANGED <<local, job>> /\ wpc[w] = "send" /\ job[w] \in Servers
    BY <1>3 DEF SendToClient, tableVars, workVars
  <2>2. Found(w) /\ Found(w)'
    BY <2>1, FoundStays DEF LookupInv
  <2>3. LookupValidUntilClosed'
    <3>1. CASE delivered' = delivered
      BY <1>0, <3>1 DEF LookupInv, LookupValidUntilClosed
    <3>2. CASE delivered' # delivered
      <4>1. local[w].fd \in DOMAIN clientConns /\ Reaches(clientConns[local[w].fd])
        BY <1>3, <3>2 DEF SendToClient, histVars
      <4>2. local[w].fd # NoFd
        BY <4>1 DEF Reaches, TablesInv, ClientInv
      <4>3. clientConns[local[w].fd] = local[w].client \/ local[w].client \in fin
        BY <2>2, <4>2 DEF Found
      <4>4. PICK part \in Arriving(readBuf[job[w]]) :
               delivered' = delivered \cup {[to |-> l, looked |-> local[w].client,
                                             at |-> clientConns[local[w].fd]] : l \in ToSet(part)}
        BY <1>3, <3>2, <4>1 DEF SendToClient
      <4> QED BY <1>0, <4>3, <4>4 DEF LookupInv, LookupValidUntilClosed
    <3> QED BY <3>1, <3>2
  <2> QED BY <1>1, <2>2, <2>3 DEF LookupInv
<1>4. CASE FrontServer(w) \/ SendToServer(w)
  <2>1. delivered' = delivered
    BY <1>4 DEF FrontServer, SendToServer, NotFound, histVars
  <2>2. job[w] \in Clients /\ (wpc'[w] = "pop" \/ job' = job)
    BY <1>4 DEF FrontServer, SendToServer, NotFound, Done, Goto, workVars, TablesInv, WorkInv, WorkTypes
  <2> QED BY <1>0, <1>1, <2>1, <2>2, Names DEF LookupInv, LookupValidUntilClosed
<1>5. CASE ~FindClient(w) /\ ~SendToClient(w) /\ ~FrontServer(w) /\ ~SendToServer(w)
  <2>1. delivered' = delivered /\ wpc'[w] # "send"
    BY <1>5 DEF WorkerStep, WorkerPop, Recv, ClearBuffer, ClientGone, ClientForget, ParseRequest,
       ServerGone, ServerForget, ParseResponse, NotFound, Done, Goto, histVars, TablesInv, WorkTypes
  <2> QED BY <1>0, <1>1, <2>1 DEF LookupInv, LookupValidUntilClosed
<1> QED BY <1>2, <1>3, <1>4, <1>5

\* TcpConnection::do_server2client: the number found in _clientTable is used in
\* _clientConns some steps later, with no lock held.  Another worker may erase
\* the client meanwhile and accept() reuse its number; it does so only for a
\* client that has closed, so that no open client's response is written to
\* another one, with any number of workers and of clients.
THEOREM LookupsHoldUntilClosed == ProxySpec => []LookupValidUntilClosed
<1>1. ProxyInit => LookupInv
  BY DEF ProxyInit, LookupInv, LookupValidUntilClosed
<1>2. TablesInv /\ LookupInv /\ [ProxyNext]_vars => LookupInv'
  <2> SUFFICES ASSUME TablesInv, LookupInv, [ProxyNext]_vars PROVE LookupInv'
    OBVIOUS
  <2>1. CASE UNCHANGED vars
    BY <2>1 DEF LookupInv, LookupValidUntilClosed, Found, vars
  <2>2. CASE ProxyNext
    BY <2>2, LookupMain, LookupWorker
  <2> QED BY <2>1, <2>2
<1>3. LookupInv => LookupValidUntilClosed
  BY DEF LookupInv
<1> QED BY <1>1, <1>2, <1>3, TablesHold, PTL DEF ProxySpec

--------------------------------------------------------------------------------
(* The segments of a client stay in order *)

\* A client's segments on their way: F at the servers, R read, I received, of s sent.
Hops         == [n : Nat, to : Servers]
Rising(q)    == \A i, j \in DOMAIN q : i < j => q[i].n < q[j].n
Below(q, r)  == \A i \in DOMAIN q, j \in DOMAIN r : q[i].n < r[j].n
UpTo(q, m)   == \A i \in DOMAIN q : q[i].n <= m
From(q, m)   == \A i \in DOMAIN q : q[i].n = m + i
InOrder(F, R, I, s) ==
    /\ Rising(F) /\ Rising(R) /\ Rising(I)
    /\ Below(F, R) /\ Below(F, I) /\ Below(R, I)
    /\ UpTo(F, s) /\ UpTo(R, s) /\ UpTo(I, s)
Gapless(F, R, I, s) ==
    From(F, 0) /\ From(R, Len(F)) /\ From(I, Len(F) + Len(R)) /\ s = Len(F) + Len(R) + Len(I)

NoLoss      == fin \cap Servers = {} /\ lost = 0 /\ cut = 0
Clearing(c) == \E w \in Workers : job[w] = c /\ wpc[w] = "clear"
Unsent(c)   == IF Clearing(c) THEN <<>> ELSE readBuf[c]
ChainInv(c) ==
    /\ InOrder(forwarded[c], Unsent(c), inbox[c], sends[c])
    /\ NoLoss => Gapless(forwarded[c], Unsent(c), inbox[c], sends[c])
Single      == Clients \ doubled
OrderInv ==
    /\ \A c \in Single : \A v, w \in Workers : job[v] = c /\ job[w] = c => v = w
    /\ \A w \in Workers : wpc[w] \in {"front", "send"} /\ job[w] \in Single => msg[w] = readBuf[job[w]]
    /\ \A c \in Single : ChainInv(c)

LEMMA Numbered ==
    /\ \A q \in Seq(Segment) : DOMAIN q = 1 .. Len(q) /\ Len(q) \in Nat /\ \A i \in 1 .. Len(q) : q[i].n \in Nat
    /\ \A q \in Seq(Hops) : DOMAIN q = 1 .. Len(q) /\ Len(q) \in Nat /\ \A i \in 1 .. Len(q) : q[i].n \in Nat
    /\ \A q : q # <<>> /\ (q \in Seq(Segment) \/ q \in Seq(Hops)) => Len(q) >= 1
<1>1. \A q \in Seq(Segment) : \A i \in 1 .. Len(q) : q[i].n \in Nat
  <2> TAKE q \in Seq(Segment)
  <2> TAKE i \in 1 .. Len(q)
  <2>1. q[i] \in Segment
    OBVIOUS
  <2> QED BY <2>1 DEF Segment
<1>2. \A q \in Seq(Hops) : \A i \in 1 .. Len(q) : q[i].n \in Nat
  <2> TAKE q \in Seq(Hops)
  <2> TAKE i \in 1 .. Len(q)
  <2>1. q[i] \in Hops
    OBVIOUS
  <2> QED BY <2>1 DEF Hops
<1> QED BY <1>1, <1>2

\* The client sends one more.
LEMMA ChainSend ==
    ASSUME NEW F \in Seq(Hops), NEW R \in Seq(Segment), NEW I \in Seq(Segment), NEW s \in Nat,
           NEW e \in Segment, e.n = s + 1
    PROVE  /\ InOrder(F, R, I, s) => InOrder(F, R, Append(I, e), s + 1)
           /\ Gapless(F, R, I, s) => Gapless(F, R, Append(I, e), s + 1)
<1> DEFINE J == Append(I, e)
<1>1. /\ J \in Seq(Segment) /\ Len(J) = Len(I) + 1 /\ DOMAIN J = 1 .. Len(I) + 1
      /\ J[Len(I) + 1] = e /\ \A i \in 1 .. Len(I) : J[i] = I[i]
  OBVIOUS
<1>2. /\ DOMAIN F = 1 .. Len(F) /\ DOMAIN R = 1 .. Len(R) /\ DOMAIN I = 1 .. Len(I)
      /\ Len(F) \in Nat /\ Len(R) \in Nat /\ Len(I) \in Nat
      /\ \A i \in 1 .. Len(I) : I[i].n \in Nat
      /\ \A i \in 1 .. Len(R) : R[i].n \in Nat
      /\ \A i \in 1 .. Len(F) : F[i].n \in Nat
  BY Numbered
<1> HIDE DEF J
<1>3. \A j \in DOMAIN J : (j \in DOMAIN I /\ J[j] = I[j]) \/ (j = Len(I) + 1 /\ J[j] = e)
  BY <1>1, <1>2
<1>4. ASSUME InOrder(F, R, I, s) PROVE InOrder(F, R, J, s + 1)
  <2>1. UpTo(F, s + 1) /\ UpTo(R, s + 1) /\ UpTo(J, s + 1)
    BY <1>2, <1>3, <1>4 DEF InOrder, UpTo
  <2>2. /\ \A i \in DOMAIN F, j \in DOMAIN J : F[i].n < J[j].n
        /\ \A i \in DOMAIN R, j \in DOMAIN J : R[i].n < J[j].n
    <3>1. \A i \in DOMAIN F : F[i].n < s + 1 /\ \A j \in DOMAIN I : F[i].n < I[j].n
      BY <1>2, <1>4 DEF InOrder, UpTo, Below
    <3>2. \A i \in DOMAIN R : R[i].n < s + 1 /\ \A j \in DOMAIN I : R[i].n < I[j].n
      BY <1>2, <1>4 DEF InOrder, UpTo, Below
    <3> QED BY <1>3, <3>1, <3>2
  <2>3. Rising(J)
    BY <1>1, <1>2, <1>3, <1>4 DEF InOrder, UpTo, Rising
  <2> QED BY <1>4, <2>1, <2>2, <2>3 DEF InOrder, Below
<1>5. ASSUME Gapless(F, R, I, s) PROVE Gapless(F, R, J, s + 1)
  <2>1. s + 1 = Len(F) + Len(R) + Len(J) /\ e.n = (Len(F) + Len(R)) + (Len(I) + 1)
    BY <1>1, <1>2, <1>5 DEF Gapless
  <2>2. \A j \in DOMAIN J : J[j].n = (Len(F) + Len(R)) + j
    BY <1>3, <1>5, <2>1 DEF Gapless, From
  <2> QED BY <1>5, <2>1, <2>2 DEF Gapless, From
<1> QED BY <1>4, <1>5 DEF J

\* The worker reads one.
LEMMA ChainRecv ==
    ASSUME NEW F \in Seq(Hops), NEW R \in Seq(Segment), NEW I \in Seq(Segment), NEW s \in Nat, I # <<>>
    PROVE  /\ InOrder(F, R, I, s) => InOrder(F, Append(R, Head(I)), Tail(I), s)
           /\ Gapless(F, R, I, s) => Gapless(F, Append(R, Head(I)), Tail(I), s)
<1> DEFINE h == Head(I)
           J == Tail(I)
           S == Append(R, h)
<1>0. h \in Segment /\ h = I[1]
  OBVIOUS
<1>1. /\ J \in Seq(Segment) /\ Len(J) = Len(I) - 1 /\ DOMAIN J = 1 .. Len(I) - 1
      /\ \A i \in 1 .. Len(I) - 1 : J[i] = I[i + 1]
  OBVIOUS
<1> HIDE DEF h
<1>2. /\ S \in Seq(Segment) /\ Len(S) = Len(R) + 1 /\ DOMAIN S = 1 .. Len(R) + 1
      /\ S[Len(R) + 1] = h /\ \A i \in 1 .. Len(R) : S[i] = R[i]
  BY <1>0
<1>3. /\ DOMAIN F = 1 .. Len(F) /\ DOMAIN R = 1 .. Len(R) /\ DOMAIN I = 1 .. Len(I)
      /\ Len(F) \in Nat /\ Len(R) \in Nat /\ Len(I) \in Nat /\ Len(I) >= 1
      /\ \A i \in 1 .. Len(I) : I[i].n \in Nat
      /\ \A i \in 1 .. Len(R) : R[i].n \in Nat
      /\ \A i \in 1 .. Len(F) : F[i].n \in Nat
  BY Numbered
<1> HIDE DEF J, S
<1>4. \A j \in DOMAIN S : (j \in DOMAIN R /\ S[j] = R[j]) \/ (j = Len(R) + 1 /\ S[j] = I[1])
  BY <1>0, <1>2, <1>3
<1>5. \A j \in DOMAIN J : j \in Nat /\ j + 1 \in DOMAIN I /\ 1 \in DOMAIN I /\ 1 < j + 1 /\ J[j] = I[j + 1]
  BY <1>1, <1>3
<1>6. ASSUME InOrder(F, R, I, s) PROVE InOrder(F, S, J, s)
  <2>0. 1 \in DOMAIN I
    BY <1>3
  <2>1. (\A j \in DOMAIN S : S[j].n <= s) /\ (\A j \in DOMAIN J : J[j].n <= s)
    <3>1. (\A j \in DOMAIN R : R[j].n <= s) /\ (\A j \in DOMAIN I : I[j].n <= s)
      BY <1>6 DEF InOrder, UpTo
    <3> QED BY <1>4, <1>5, <2>0, <3>1
  <2>2. /\ \A i \in DOMAIN F, j \in DOMAIN S : F[i].n < S[j].n
        /\ \A i \in DOMAIN F, j \in DOMAIN J : F[i].n < J[j].n
    <3>1. \A i \in DOMAIN F : /\ \A j \in DOMAIN R : F[i].n < R[j].n
                              /\ \A j \in DOMAIN I : F[i].n < I[j].n
      BY <1>6 DEF InOrder, Below
    <3> QED BY <1>4, <1>5, <2>0, <3>1
  <2>3. Below(S, J)
    BY <1>3, <1>4, <1>5, <1>6 DEF InOrder, Below, Rising
  <2>4. Rising(S)
    <3> SUFFICES ASSUME NEW i \in DOMAIN S, NEW j \in DOMAIN S, i < j PROVE S[i].n < S[j].n
      BY DEF Rising
    <3>1. i \in DOMAIN R /\ S[i] = R[i]
      BY <1>2, <1>3
    <3> QED BY <1>4, <1>6, <2>0, <3>1 DEF InOrder, Below, Rising
  <2>5. Rising(J)
    <3>1. \A i, j \in DOMAIN J : i < j => i + 1 < j + 1
      BY <1>5
    <3> QED BY <1>5, <1>6, <3>1 DEF InOrder, Rising
  <2> QED BY <1>6, <2>1, <2>2, <2>3, <2>4, <2>5 DEF InOrder, UpTo, Below
<1>7. ASSUME Gapless(F, R, I, s) PROVE Gapless(F, S, J, s)
  <2>1. From(S, Len(F))
    BY <1>3, <1>4, <1>7 DEF Gapless, From
  <2>2. From(J, Len(F) + Len(S))
    BY <1>1, <1>2, <1>3, <1>5, <1>7 DEF Gapless, From
  <2> QED BY <1>1, <1>2, <1>3, <1>7, <2>1, <2>2 DEF Gapless
<1> QED BY <1>6, <1>7 DEF h, J, S

\* The worker writes what it has read, or the first k of it; or drops it.
LEMMA ChainForward ==
    ASSUME NEW F \in Seq(Hops), NEW R \in Seq(Segment), NEW I \in Seq(Segment), NEW s \in Nat,
           NEW h \in Seq(Hops), Len(h) <= Len(R), \A i \in 1 .. Len(h) : h[i].n = R[i].n
    PROVE  /\ InOrder(F, R, I, s) => InOrder(F \o h, <<>>, I, s)
           /\ Len(h) = Len(R) /\ Gapless(F, R, I, s) => Gapless(F \o h, <<>>, I, s)
<1> DEFINE G == F \o h
           E == <<>>
<1>1. /\ G \in Seq(Hops) /\ Len(G) = Len(F) + Len(h)
      /\ \A i \in 1 .. Len(F) + Len(h) : G[i] = IF i <= Len(F) THEN F[i] ELSE h[i - Len(F)]
  BY ConcatProperties
<1>2. E \in Seq(Segment) /\ DOMAIN E = {} /\ Len(E) = 0
  OBVIOUS
<1>3. /\ DOMAIN F = 1 .. Len(F) /\ DOMAIN R = 1 .. Len(R) /\ DOMAIN I = 1 .. Len(I)
      /\ Len(F) \in Nat /\ Len(R) \in Nat /\ Len(I) \in Nat /\ Len(h) \in Nat
      /\ \A i \in 1 .. Len(I) : I[i].n \in Nat
      /\ \A i \in 1 .. Len(R) : R[i].n \in Nat
      /\ \A i \in 1 .. Len(F) : F[i].n \in Nat
  BY Numbered
<1> HIDE DEF G, E
<1>4. DOMAIN G = 1 .. Len(F) + Len(h)
  BY <1>1
<1>5. \A j \in DOMAIN G : \/ j \in DOMAIN F /\ G[j] = F[j]
                          \/ /\ j > Len(F) /\ j - Len(F) \in DOMAIN R /\ j - Len(F) \in 1 .. Len(h)
                             /\ G[j].n = R[j - Len(F)].n
  <2> TAKE j \in DOMAIN G
  <2>1. CASE j <= Len(F)
    BY <1>1, <1>3, <1>4, <2>1
  <2>2. CASE ~(j <= Len(F))
    <3>1. j - Len(F) \in 1 .. Len(h) /\ j - Len(F) \in 1 .. Len(R) /\ j > Len(F)
      BY <1>3, <1>4, <2>2
    <3>2. G[j] = h[j - Len(F)]
      BY <1>1, <1>4, <2>2
    <3>3. h[j - Len(F)].n = R[j - Len(F)].n
      BY <3>1
    <3> QED BY <1>3, <3>1, <3>2, <3>3
  <2> QED BY <2>1, <2>2
<1>6. ASSUME InOrder(F, R, I, s) PROVE InOrder(G, E, I, s)
  <2>1. UpTo(G, s) /\ UpTo(E, s)
    BY <1>2, <1>5, <1>6 DEF InOrder, UpTo
  <2>2. Below(G, I) /\ Below(G, E) /\ Below(E, I)
    BY <1>2, <1>5, <1>6 DEF InOrder, Below
  <2>3. Rising(E)
    BY <1>2 DEF Rising
  <2>4. Rising(G)
    <3> SUFFICES ASSUME NEW i \in DOMAIN G, NEW j \in DOMAIN G, i < j PROVE G[i].n < G[j].n
      BY DEF Rising
    <3>1. i \in Nat /\ j \in Nat
      BY <1>3, <1>4
    <3>2. CASE i \in DOMAIN F /\ G[i] = F[i]
      BY <1>3, <1>5, <1>6, <3>1, <3>2 DEF InOrder, Below, Rising
    <3>3. CASE /\ i > Len(F) /\ i - Len(F) \in DOMAIN R /\ G[i].n = R[i - Len(F)].n
      <4>1. j \notin DOMAIN F /\ i - Len(F) < j - Len(F)
        BY <1>3, <3>1, <3>3
      <4>2. j - Len(F) \in DOMAIN R /\ G[j].n = R[j - Len(F)].n
        BY <1>5, <4>1
      <4> QED BY <1>6, <3>3, <4>1, <4>2 DEF InOrder, Rising
    <3> QED BY <1>5, <3>2, <3>3
  <2> QED BY <1>6, <2>1, <2>2, <2>3, <2>4 DEF InOrder
<1>7. ASSUME Len(h) = Len(R), Gapless(F, R, I, s) PROVE Gapless(G, E, I, s)
  <2>1. From(G, 0)
    <3> SUFFICES ASSUME NEW j \in DOMAIN G PROVE G[j].n = 0 + j
      BY DEF From
    <3>1. j \in Nat
      BY <1>3, <1>4
    <3>2. CASE j \in DOMAIN F /\ G[j] = F[j]
      BY <1>7, <3>2 DEF Gapless, From
    <3>3. CASE j - Len(F) \in DOMAIN R /\ G[j].n = R[j - Len(F)].n
      <4>1. R[j - Len(F)].n = Len(F) + (j - Len(F))
        BY <1>7, <3>3 DEF Gapless, From
      <4> QED BY <1>3, <3>1, <3>3, <4>1
    <3> QED BY <1>5, <3>2, <3>3
  <2>2. Len(G) = Len(F) + Len(R) /\ Len(G) + Len(E) = Len(F) + Len(R)
    BY <1>1, <1>2, <1>3, <1>7
  <2>3. From(E, Len(G))
    BY <1>2 DEF From
  <2> QED BY <1>3, <1>7, <2>1, <2>2, <2>3 DEF Gapless
<1> QED BY <1>6, <1>7 DEF G, E

LEMMA ChainTypes ==
    ASSUME TablesInv, NEW c \in Clients
    PROVE  /\ forwarded[c] \in Seq(Hops) /\ readBuf[c] \in Seq(Segment) /\ Unsent(c) \in Seq(Segment)
           /\ inbox[c] \in Seq(Segment) /\ sends[c] \in Nat
BY Emptied DEF TablesInv, WorkTypes, PeerTypes, Unsent, Hops

\* What is lost stays lost.
LEMMA LossStays == TablesInv /\ ProxyNext /\ NoLoss' => NoLoss
<1> SUFFICES ASSUME TablesInv, ProxyNext, NoLoss' PROVE NoLoss
  OBVIOUS
<1>1. fin \subseteq fin' /\ lost \in Nat /\ cut \in Nat
  BY FinGrows DEF TablesInv, WorkTypes
<1>2. lost' = lost \/ lost' = lost + 1
  BY DEF ProxyNext, MainStep, WaitEvents, EventsDone, Accept, AcceptFails, InsertConn, SetClientTable,
         FindMessageConn, AddRequest, RaceCrash, PeerStep, histVars, WorkerStep, WorkerPop, Recv,
         ClearBuffer, ClientGone, ClientForget, ParseRequest, FrontServer, SendToServer, ServerGone,
         ServerForget, ParseResponse, FindClient, SendToClient, NotFound
<1>3. cut' = cut \/ cut' = cut + 1
  BY DEF ProxyNext, MainStep, WaitEvents, EventsDone, Accept, AcceptFails, InsertConn, SetClientTable,
         FindMessageConn, AddRequest, RaceCrash, PeerStep, histVars, WorkerStep, WorkerPop, Recv,
         ClearBuffer, ClientGone, ClientForget, ParseRequest, FrontServer, SendToServer, ServerGone,
         ServerForget, ParseResponse, FindClient, SendToClient, NotFound, CountCut
<1> QED BY <1>1, <1>2, <1>3 DEF NoLoss

\* A step that leaves a client's segments where they are.
LEMMA ChainStays ==
    ASSUME TablesInv, ProxyNext, NEW c \in Clients, ChainInv(c),
           forwarded'[c] = forwarded[c], Unsent(c)' = Unsent(c), inbox'[c] = inbox[c],
           sends'[c] = sends[c]
    PROVE  ChainInv(c)'
BY LossStays DEF ChainInv

LEMMA OrderMain ==
    ASSUME TablesInv, OrderInv, ProxyNext, ~\E w \in Workers : WorkerStep(w)
    PROVE  OrderInv'
<1>1. UNCHANGED <<wpc, job, forwarded>>
  BY NoWorkersStep, NoWorkersForward
<1>2. UNCHANGED <<msg, readBuf, doubled>>
  BY DEF ProxyNext, MainStep, WaitEvents, EventsDone, Accept, AcceptFails, InsertConn, SetClientTable,
         FindMessageConn, AddRequest, RaceCrash, PeerStep, workVars, histVars
<1>3. \A c \in Clients : Unsent(c)' = Unsent(c)
  BY <1>1, <1>2 DEF Unsent, Clearing
<1>4. ASSUME NEW c \in Clients, ChainInv(c) PROVE ChainInv(c)'
  <2>1. CASE inbox'[c] = inbox[c] /\ sends'[c] = sends[c]
    BY <1>1, <1>3, <1>4, <2>1, ChainStays
  <2>2. CASE \E kind \in SegmentKinds :
                inbox'[c] = Append(inbox[c], [n |-> sends[c] + 1, kind |-> kind])
                /\ sends'[c] = sends[c] + 1
    <3>1. PICK kind \in SegmentKinds :
                inbox'[c] = Append(inbox[c], [n |-> sends[c] + 1, kind |-> kind])
                /\ sends'[c] = sends[c] + 1
      BY <2>2
    <3> DEFINE e == [n |-> sends[c] + 1, kind |-> kind]
    <3>2. e \in Segment /\ e.n = sends[c] + 1
      BY <1>4, ChainTypes DEF Segment
    <3> HIDE DEF e
    <3>3. /\ InOrder(forwarded[c], Unsent(c), inbox[c], sends[c]) =>
                InOrder(forwarded[c], Unsent(c), Append(inbox[c], e), sends[c] + 1)
          /\ Gapless(forwarded[c], Unsent(c), inbox[c], sends[c]) =>
                Gapless(forwarded[c], Unsent(c), Append(inbox[c], e), sends[c] + 1)
      BY <1>4, <3>2, ChainTypes, ChainSend
    <3>4. inbox'[c] = Append(inbox[c], e) /\ sends'[c] = sends[c] + 1
      BY <3>1 DEF e
    <3> QED BY <1>1, <1>3, <1>4, <3>3, <3>4, LossStays DEF ChainInv
  <2>3. CASE PeerStep
    <3>1. DOMAIN inbox = Conns /\ sends \in [Clients -> Nat]
      BY DEF TablesInv, PeerTypes
    <3>2. ASSUME NEW d \in Clients, NEW kind \in SegmentKinds, Send(d, kind, Alive)
          PROVE  ChainInv(c)'
      <4>1. /\ sends' = [sends EXCEPT ![d] = @ + 1]
            /\ inbox' = [inbox EXCEPT ![d] = Append(@, [n |-> sends[d] + 1, kind |-> kind])]
        BY <3>2 DEF Send
      <4>2. CASE d = c
        BY <2>2, <3>1, <4>1, <4>2, Names
      <4>3. CASE d # c
        BY <2>1, <3>1, <4>1, <4>3, Names
      <4> QED BY <4>2, <4>3
    <3>3. ASSUME NEW s \in Servers, Answer(s, Alive) PROVE ChainInv(c)'
      <4>1. inbox'[c] = inbox[c] /\ sends' = sends
        BY <3>1, <3>3, Names DEF Answer
      <4> QED BY <2>1, <4>1
    <3>4. ASSUME NEW d \in Conns, Connect(d) \/ Close(d, Alive) PROVE ChainInv(c)'
      BY <2>1, <3>4 DEF Connect, Close
    <3> QED BY <2>3, <3>2, <3>3, <3>4, Names DEF PeerStep
  <2>4. CASE ~PeerStep
    <3>1. UNCHANGED <<inbox, sends>>
      BY <2>4 DEF ProxyNext, MainStep, WaitEvents, EventsDone, Accept, AcceptFails, InsertConn,
         SetClientTable, FindMessageConn, AddRequest, RaceCrash, netVars
    <3> QED BY <2>1, <3>1
  <2> QED BY <2>3, <2>4
<1> QED BY <1>1, <1>2, <1>4 DEF OrderInv, Single

\* What send() appends to a client's history, and what it loses.
LEMMA SendAppends ==
    ASSUME TablesInv, ProxyNext, NEW w \in Workers, SendToServer(w), wpc' # wpc
    PROVE  LET c == job[w] IN
           /\ Goto(w, "clear") /\ c \in Clients /\ UNCHANGED <<inbox, sends, readBuf, job, msg>>
           /\ \A d \in Clients \ {c} : forwarded'[d] = forwarded[d]
           /\ \/ forwarded'[c] = forwarded[c] /\ ~NoLoss'
              \/ \E h \in Seq(Hops) :
                    /\ forwarded'[c] = forwarded[c] \o h
                    /\ Len(h) <= Len(msg[w]) /\ \A i \in 1 .. Len(h) : h[i].n = msg[w][i].n
                    /\ NoLoss' => Len(h) = Len(msg[w])
<1>0. /\ msg[w] \in Seq(Segment) /\ cut \in Nat /\ lost \in Nat
      /\ forwarded \in [Clients -> Seq(Hops)]
  BY DEF TablesInv, WorkTypes, Hops
<1> DEFINE n == local[w].fd
           s == serverConns[n]
           Hop(part) == [i \in DOMAIN part |-> [n |-> part[i].n, to |-> s]]
<1>1. n \in DOMAIN serverConns
  BY DEF SendToServer, workVars
<1>2. /\ Goto(w, "clear") /\ job[w] \in Clients /\ UNCHANGED <<inbox, fin, sends, readBuf, job, msg>>
  BY <1>1 DEF SendToServer
<1>3. s \in Servers
  BY <1>1 DEF TablesInv, ServerInv
<1>4. CASE ~Reaches(s)
  <2>1. forwarded' = forwarded /\ lost' = IF fd[s] = NoFd THEN lost + 1 ELSE lost
    BY <1>1, <1>4 DEF SendToServer
  <2>2. fd[s] = NoFd \/ s \in fin'
    BY <1>2, <1>4 DEF Reaches
  <2>3. lost' # 0 \/ s \in fin' \cap Servers
    BY <1>0, <1>3, <2>1, <2>2
  <2> QED BY <1>2, <2>1, <2>3 DEF NoLoss
<1>5. CASE Reaches(s)
  <2>1. PICK part \in Arriving(msg[w]) :
           forwarded' = [forwarded EXCEPT ![job[w]] = @ \o Hop(part)] /\ CountCut(msg[w], part)
    BY <1>1, <1>5 DEF SendToServer
  <2>2. part = msg[w] \/ \E k \in 0 .. Len(msg[w]) - 1 : part = SubSeq(msg[w], 1, k)
    BY <2>1 DEF Arriving
  <2>3. part \in Seq(Segment) /\ Len(part) <= Len(msg[w]) /\ \A i \in 1 .. Len(part) : part[i] = msg[w][i]
    BY <1>0, <2>2
  <2>4. NoLoss' => part = msg[w]
    BY <1>0, <2>1 DEF CountCut, NoLoss
  <2>5. /\ Hop(part) \in Seq(Hops) /\ Len(Hop(part)) = Len(part)
        /\ \A i \in 1 .. Len(part) : Hop(part)[i].n = part[i].n
    <3>1. DOMAIN part = 1 .. Len(part) /\ Len(part) \in Nat
      BY <2>3
    <3>2. \A i \in 1 .. Len(part) : part[i] \in Segment
      BY <2>3
    <3>3. \A i \in 1 .. Len(part) : [n |-> part[i].n, to |-> s] \in Hops
      BY <1>3, <3>2 DEF Segment, Hops
    <3>4. Hop(part) \in Seq(Hops) /\ Len(Hop(part)) = Len(part)
      BY <3>1, <3>3, IsASeq
    <3> QED BY <3>1, <3>4
  <2> DEFINE h == Hop(part)
  <2>6. /\ h \in Seq(Hops) /\ Len(h) <= Len(msg[w]) /\ \A i \in 1 .. Len(h) : h[i].n = msg[w][i].n
        /\ NoLoss' => Len(h) = Len(msg[w])
    BY <2>3, <2>4, <2>5
  <2>7. forwarded' = [forwarded EXCEPT ![job[w]] = @ \o h]
    BY <2>1
  <2> HIDE DEF h
  <2>8. /\ forwarded'[job[w]] = forwarded[job[w]] \o h
        /\ \A d \in Clients \ {job[w]} : forwarded'[d] = forwarded[d]
    BY <1>0, <1>2, <2>7
  <2> QED BY <1>2, <2>6, <2>8
<1> QED BY <1>4, <1>5

\* What a worker does stays with the connection it has in hand.
LEMMA OtherClients ==
    ASSUME TablesInv, ProxyNext, NEW w \in Workers, WorkerStep(w), NEW c \in Clients, c # job[w]
    PROVE  forwarded'[c] = forwarded[c] /\ readBuf'[c] = readBuf[c] /\ inbox'[c] = inbox[c]
           /\ sends'[c] = sends[c]
<1>0. DOMAIN inbox = Conns /\ DOMAIN readBuf = Conns /\ c \in Conns
  BY Names DEF TablesInv, PeerTypes, WorkTypes
<1>1. CASE Recv(w)
  BY <1>0, <1>1 DEF Recv, histVars
<1>2. CASE ClearBuffer(w)
  BY <1>0, <1>2 DEF ClearBuffer, netVars, histVars
<1>3. CASE SendToServer(w) /\ wpc' # wpc
  BY <1>3, SendAppends
<1>4. CASE SendToServer(w) /\ wpc' = wpc
  <2>1. ~Goto(w, "clear")
    BY <1>4 DEF SendToServer, Goto, TablesInv, WorkTypes
  <2> QED BY <1>4, <2>1 DEF SendToServer, netVars, workVars, histVars
<1>5. CASE ~Recv(w) /\ ~SendToServer(w) /\ ~ClearBuffer(w)
  BY <1>5 DEF WorkerStep, WorkerPop, ClientGone, ClientForget, ParseRequest, FrontServer, ServerGone,
     ServerForget, ParseResponse, FindClient, SendToClient, NotFound, netVars, workVars, histVars
<1> QED BY <1>1, <1>2, <1>3, <1>4, <1>5

\* Nor does it touch what another worker is about to forward.
LEMMA OthersMsg ==
    ASSUME TablesInv, NEW v \in Workers, WorkerStep(v), NEW w \in Workers, w # v
    PROVE  msg'[w] = msg[w]
<1>1. msg' = msg \/ \E m : msg' = [msg EXCEPT ![v] = m]
  BY DEF WorkerStep, WorkerPop, Recv, ClearBuffer, ClientGone, ClientForget, ParseRequest, FrontServer,
         SendToServer, ServerGone, ServerForget, ParseResponse, FindClient, SendToClient, NotFound,
         Done, workVars
<1> QED BY <1>1 DEF TablesInv, WorkTypes

\* A connection that gets a second worker is on record as doubled.
LEMMA SingleStep ==
    ASSUME TablesInv, OrderInv, ProxyNext, NEW w \in Workers, WorkerStep(w)
    PROVE  /\ Single' \subseteq Single
           /\ \A c \in Single' : \A u, v \in Workers : job'[u] = c /\ job'[v] = c => u = v
<1>1. CASE WorkerPop(w)
  <2>1. /\ Single' \subseteq Single /\ job'[w] = Head(que)
        /\ Head(que) \in Single' => Head(que) \notin Range(job)
    BY <1>1 DEF WorkerPop, Single, TablesInv, WorkTypes
  <2>2. \A u \in Workers : job[u] \in Range(job)
    BY DEF Range, TablesInv, WorkTypes
  <2> QED BY <2>1, <2>2, OtherWorkers DEF OrderInv
<1>2. CASE ~WorkerPop(w)
  <2>1. doubled' = doubled
    BY <1>2 DEF WorkerStep, Recv, ClearBuffer, ClientGone, ClientForget, ParseRequest, FrontServer,
       SendToServer, ServerGone, ServerForget, ParseResponse, FindClient, SendToClient, NotFound, histVars
  <2>2. job'[w] = job[w] \/ job'[w] = Nobody
    BY <1>2 DEF WorkerStep, Recv, ClearBuffer, ClientGone, ClientForget, ParseRequest, FrontServer,
       SendToServer, ServerGone, ServerForget, ParseResponse, FindClient, SendToClient, NotFound,
       Done, workVars, TablesInv, WorkTypes
  <2> QED BY <2>1, <2>2, OtherWorkers, Names DEF OrderInv, Single
<1> QED BY <1>1, <1>2

\* Whether a client's worker is about to clear the buffer.
LEMMA ClearingStep ==
    ASSUME TablesInv, OrderInv, ProxyNext, NEW w \in Workers, WorkerStep(w), NEW c \in Single'
    PROVE  /\ job[w] = c => (Clearing(c) <=> wpc[w] = "clear")
           /\ job[w] = c => (Clearing(c)' <=> wpc'[w] = "clear" /\ job'[w] = c)
           /\ job[w] # c => (Clearing(c)' <=> Clearing(c))
<1>0. c \in Single /\ c \in Clients /\ c # Nobody
  BY SingleStep, Names DEF Single
<1>1. \A v \in Workers : v # w => wpc'[v] = wpc[v] /\ job'[v] = job[v]
  BY OtherWorkers
<1>2. job[w] = c => \A v \in Workers : job[v] = c => v = w
  BY <1>0 DEF OrderInv
<1>3. job[w] # c /\ job'[w] = c => wpc'[w] # "clear"
  BY <1>0, OwnStep
<1> QED BY <1>1, <1>2, <1>3 DEF Clearing

\* The step of a worker that has the connection of client c in hand alone.
LEMMA ChainWorker ==
    ASSUME TablesInv, OrderInv, ProxyNext, NEW w \in Workers, WorkerStep(w),
           NEW c \in Single', c = job[w]
    PROVE  ChainInv(c)'
<1>0. /\ c \in Single /\ c \in Clients /\ c \in Conns /\ ChainInv(c)
      /\ wpc \in [Workers -> {"pop", "recv", "parse", "clientGone", "clientForget", "front", "send",
                            "clear", "serverGone", "serverForget", "find"}]
  BY SingleStep, Names DEF Single, TablesInv, WorkTypes, OrderInv
<1>a. /\ Clearing(c) <=> wpc[w] = "clear"
      /\ Clearing(c)' <=> wpc'[w] = "clear" /\ job'[w] = c
  BY ClearingStep
<1>1. CASE Recv(w)
  <2>1. /\ UNCHANGED <<forwarded, sends, job>> /\ wpc[w] = "recv" /\ wpc'[w] \notin {"clear", "front", "send"}
    BY <1>0, <1>1 DEF Recv, Goto, histVars
  <2>2. /\ DOMAIN inbox = Conns /\ DOMAIN readBuf = Conns
        /\ inbox[c] = <<>> => UNCHANGED <<inbox, readBuf>>
        /\ inbox[c] # <<>> => /\ readBuf' = [readBuf EXCEPT ![c] = Append(@, Head(inbox[c]))]
                              /\ inbox' = [inbox EXCEPT ![c] = Tail(@)]
    BY <1>1 DEF Recv, TablesInv, PeerTypes, WorkTypes
  <2>3. Unsent(c) = readBuf[c] /\ Unsent(c)' = readBuf'[c]
    BY <1>a, <2>1 DEF Unsent
  <2>4. CASE inbox[c] # <<>>
    <3>1. readBuf'[c] = Append(readBuf[c], Head(inbox[c])) /\ inbox'[c] = Tail(inbox[c])
      BY <1>0, <2>2, <2>4
    <3>2. /\ InOrder(forwarded[c], readBuf[c], inbox[c], sends[c]) =>
               InOrder(forwarded[c], Append(readBuf[c], Head(inbox[c])), Tail(inbox[c]), sends[c])
          /\ Gapless(forwarded[c], readBuf[c], inbox[c], sends[c]) =>
               Gapless(forwarded[c], Append(readBuf[c], Head(inbox[c])), Tail(inbox[c]), sends[c])
      BY <1>0, <2>4, ChainTypes, ChainRecv
    <3> QED BY <1>0, <2>1, <2>3, <3>1, <3>2, LossStays DEF ChainInv
  <2>5. CASE inbox[c] = <<>>
    BY <1>0, <2>1, <2>2, <2>3, <2>5, ChainStays
  <2> QED BY <2>4, <2>5
<1>2. CASE SendToServer(w)
  <2>1. CASE wpc' = wpc
    <3>1. UNCHANGED <<forwarded, sends, inbox, readBuf, job, wpc, msg>>
      <4>1. wpc[w] = "send"
        BY <1>2 DEF SendToServer
      <4>2. ~Goto(w, "clear")
        BY <1>0, <2>1, <4>1 DEF Goto
      <4> QED BY <1>2, <4>2 DEF SendToServer, netVars, workVars, histVars
    <3>2. Unsent(c)' = Unsent(c)
      BY <3>1 DEF Unsent, Clearing
    <3> QED BY <1>0, <3>1, <3>2, ChainStays
  <2>2. CASE wpc' # wpc
    <3>1. /\ Goto(w, "clear") /\ UNCHANGED <<inbox, sends, readBuf, job, msg>>
          /\ \/ forwarded'[c] = forwarded[c] /\ ~NoLoss'
             \/ \E h \in Seq(Hops) :
                    /\ forwarded'[c] = forwarded[c] \o h
                    /\ Len(h) <= Len(msg[w]) /\ \A i \in 1 .. Len(h) : h[i].n = msg[w][i].n
                    /\ NoLoss' => Len(h) = Len(msg[w])
      BY <1>2, <2>2, SendAppends
    <3>2. wpc[w] = "send" /\ wpc'[w] = "clear" /\ msg[w] = readBuf[c]
      BY <1>0, <1>2, <3>1 DEF SendToServer, OrderInv, Goto
    <3>3. Unsent(c) = readBuf[c] /\ Unsent(c)' = <<>>
      BY <1>a, <3>1, <3>2 DEF Unsent
    <3>4. /\ forwarded[c] \in Seq(Hops) /\ readBuf[c] \in Seq(Segment) /\ inbox[c] \in Seq(Segment)
          /\ sends[c] \in Nat
      BY <1>0, ChainTypes
    <3>5. InOrder(forwarded[c], readBuf[c], inbox[c], sends[c])
          /\ (NoLoss => Gapless(forwarded[c], readBuf[c], inbox[c], sends[c]))
      BY <1>0, <3>3 DEF ChainInv
    <3>6. CASE forwarded'[c] = forwarded[c] /\ ~NoLoss'
      <4>1. InOrder(forwarded[c], <<>>, inbox[c], sends[c])
        BY <3>5 DEF InOrder, Rising, Below, UpTo
      <4> QED BY <3>1, <3>3, <3>6, <4>1 DEF ChainInv
    <3>7. ASSUME NEW h \in Seq(Hops), forwarded'[c] = forwarded[c] \o h,
                 Len(h) <= Len(readBuf[c]), \A i \in 1 .. Len(h) : h[i].n = readBuf[c][i].n,
                 NoLoss' => Len(h) = Len(readBuf[c])
          PROVE  ChainInv(c)'
      <4>1. /\ InOrder(forwarded[c], readBuf[c], inbox[c], sends[c]) =>
                  InOrder(forwarded[c] \o h, <<>>, inbox[c], sends[c])
            /\ Len(h) = Len(readBuf[c]) /\ Gapless(forwarded[c], readBuf[c], inbox[c], sends[c]) =>
                  Gapless(forwarded[c] \o h, <<>>, inbox[c], sends[c])
        BY <3>4, <3>7, ChainForward
      <4> QED BY <3>1, <3>3, <3>5, <3>7, <4>1, LossStays DEF ChainInv
    <3> QED BY <3>1, <3>2, <3>6, <3>7
  <2> QED BY <2>1, <2>2
<1>3. CASE ClearBuffer(w)
  <2>1. /\ UNCHANGED <<forwarded, sends, inbox>> /\ wpc[w] = "clear" /\ wpc'[w] = "pop"
        /\ readBuf' = [readBuf EXCEPT ![c] = <<>>] /\ DOMAIN readBuf = Conns
    BY <1>0, <1>3 DEF ClearBuffer, Done, Goto, netVars, histVars, TablesInv, WorkTypes
  <2>2. Unsent(c)' = Unsent(c)
    BY <1>0, <1>a, <2>1 DEF Unsent
  <2> QED BY <1>0, <2>1, <2>2, ChainStays
<1>4. CASE ~Recv(w) /\ ~SendToServer(w) /\ ~ClearBuffer(w)
  <2>1. UNCHANGED <<inbox, sends, readBuf, forwarded>>
    BY <1>4 DEF WorkerStep, WorkerPop, ClientGone, ClientForget, ParseRequest, FrontServer, ServerGone,
       ServerForget, ParseResponse, FindClient, SendToClient, NotFound, netVars, workVars, histVars
  <2>2. wpc[w] # "clear"
    BY <1>4 DEF WorkerStep, WorkerPop, ClientGone, ClientForget, ParseRequest, FrontServer, ServerGone,
       ServerForget, ParseResponse, FindClient, SendToClient
  <2>3. wpc'[w] = "clear" => job'[w] \in Servers
    <3>1. CASE SendToClient(w)
      BY <3>1 DEF SendToClient, workVars
    <3>2. CASE ~SendToClient(w)
      BY <1>0, <1>4, <3>2 DEF WorkerStep, WorkerPop, ClientGone, ClientForget, ParseRequest, FrontServer,
         ServerGone, ServerForget, ParseResponse, FindClient, NotFound, Done, Goto
    <3> QED BY <3>1, <3>2
  <2>4. Unsent(c)' = Unsent(c)
    BY <1>0, <1>a, <2>1, <2>2, <2>3, Names DEF Unsent
  <2> QED BY <1>0, <2>1, <2>4, ChainStays
<1> QED BY <1>1, <1>2, <1>3, <1>4

\* What a worker carries from parse to send is still what the buffer holds.
LEMMA MsgWorker ==
    ASSUME TablesInv, OrderInv, ProxyNext, NEW w \in Workers, WorkerStep(w),
           wpc'[w] \in {"front", "send"}, job'[w] \in Single'
    PROVE  msg'[w] = readBuf'[job'[w]]
<1>0. /\ wpc \in [Workers -> {"pop", "recv", "parse", "clientGone", "clientForget", "front", "send",
                            "clear", "serverGone", "serverForget", "find"}]
      /\ job'[w] \in Clients /\ job'[w] \in Single
  BY SingleStep DEF TablesInv, WorkTypes, Single
<1>1. CASE ParseRequest(w)
  <2>1. msg' = [msg EXCEPT ![w] = readBuf[job[w]]] /\ job' = job /\ readBuf' = readBuf
    BY <1>0, <1>1 DEF ParseRequest, NotFound, Done, Goto
  <2> QED BY <2>1 DEF TablesInv, WorkTypes
<1>2. CASE FrontServer(w)
  <2>1. msg' = msg /\ job' = job /\ wpc[w] = "front" /\ readBuf' = readBuf
    BY <1>0, <1>2 DEF FrontServer, NotFound, Done, Goto
  <2> QED BY <1>0, <2>1 DEF OrderInv
<1>3. CASE FindClient(w) \/ SendToClient(w)
  <2>1. job[w] \in Servers /\ (job' = job \/ wpc'[w] = "pop")
    BY <1>0, <1>3 DEF FindClient, SendToClient, Done, Goto, workVars, TablesInv, WorkInv
  <2> QED BY <1>0, <2>1, Names
<1>4. CASE SendToServer(w)
  <2>1. UNCHANGED <<msg, job, readBuf>> /\ wpc[w] = "send"
    BY <1>4 DEF SendToServer, workVars
  <2> QED BY <1>0, <2>1 DEF OrderInv
<1>5. CASE ~ParseRequest(w) /\ ~FrontServer(w) /\ ~FindClient(w) /\ ~SendToClient(w) /\ ~SendToServer(w)
  BY <1>0, <1>5 DEF WorkerStep, WorkerPop, Recv, ClearBuffer, ClientGone, ClientForget, ServerGone,
     ServerForget, ParseResponse, Done, Goto
<1> QED BY <1>1, <1>2, <1>3, <1>4, <1>5

LEMMA OrderWorker ==
    ASSUME TablesInv, OrderInv, ProxyNext, NEW w \in Workers, WorkerStep(w)
    PROVE  OrderInv'
<1>0. /\ Single' \subseteq Single /\ Single' \subseteq Clients
      /\ \A c \in Single' : \A u, v \in Workers : job'[u] = c /\ job'[v] = c => u = v
  BY SingleStep DEF Single
<1>1. ASSUME NEW c \in Single', c # job[w] PROVE ChainInv(c)'
  <2>1. /\ forwarded'[c] = forwarded[c] /\ readBuf'[c] = readBuf[c] /\ inbox'[c] = inbox[c]
        /\ sends'[c] = sends[c]
    BY <1>0, <1>1, OtherClients
  <2>2. Unsent(c)' = Unsent(c)
    BY <1>1, <2>1, ClearingStep DEF Unsent
  <2> QED BY <1>0, <2>1, <2>2, ChainStays DEF OrderInv
<1>2. ASSUME NEW v \in Workers, v # w, wpc'[v] \in {"front", "send"}, job'[v] \in Single'
      PROVE  msg'[v] = readBuf'[job'[v]]
  <2>1. wpc'[v] = wpc[v] /\ job'[v] = job[v] /\ msg'[v] = msg[v]
    BY <1>2, OtherWorkers, OthersMsg
  <2>2. job[v] \in Single /\ job[v] \in Clients /\ job[v] # job[w]
    BY <1>0, <1>2, <2>1 DEF OrderInv
  <2>3. readBuf'[job[v]] = readBuf[job[v]]
    BY <2>2, OtherClients
  <2> QED BY <1>2, <2>1, <2>2, <2>3 DEF OrderInv
<1> QED BY <1>0, <1>1, <1>2, ChainWorker, MsgWorker DEF OrderInv

\* TcpConnection::do_client2server: the segments of a client reach the servers at
\* most once and in the order it sent them, and none is skipped unless a server
\* is gone or a write was cut, for any number of clients, servers and workers;
\* until two workers have had the client's connection in hand at once, which is
\* a step of the specification (WorkerPop) and what _read_buf is not made for.
THEOREM OrderHolds == ProxySpec => []ForwardedInOrder
<1>1. ProxyInit => OrderInv
  <2> SUFFICES ASSUME ProxyInit PROVE OrderInv
    OBVIOUS
  <2>1. /\ wpc = [w \in Workers |-> "pop"]
        /\ \A c \in Clients : forwarded[c] = <<>> /\ readBuf[c] = <<>> /\ inbox[c] = <<>> /\ sends[c] = 0
    BY Names DEF ProxyInit
  <2>2. \A c \in Clients : Unsent(c) = <<>>
    BY <2>1 DEF Unsent
  <2>3. InOrder(<<>>, <<>>, <<>>, 0) /\ Gapless(<<>>, <<>>, <<>>, 0)
    BY DEF InOrder, Gapless, Rising, Below, UpTo, From
  <2>4. \A c \in Clients : ChainInv(c)
    BY <2>1, <2>2, <2>3 DEF ChainInv
  <2>5. \A w \in Workers : job[w] = Nobody
    BY DEF ProxyInit
  <2> QED BY <2>1, <2>4, <2>5, Names DEF OrderInv, Single
<1>2. TablesInv /\ OrderInv /\ [ProxyNext]_vars => OrderInv'
  <2> SUFFICES ASSUME TablesInv, OrderInv, [ProxyNext]_vars PROVE OrderInv'
    OBVIOUS
  <2>1. CASE UNCHANGED vars
    BY <2>1 DEF OrderInv, ChainInv, Unsent, Clearing, NoLoss, Single, vars
  <2>2. CASE ProxyNext
    BY <2>2, OrderMain, OrderWorker
  <2> QED BY <2>1, <2>2
<1>3. TablesInv /\ OrderInv => ForwardedInOrder
  <2> SUFFICES ASSUME TablesInv, OrderInv, NEW c \in Single, NEW k \in DOMAIN forwarded[c]
               PROVE  /\ \A j \in 1 .. k - 1 : forwarded[c][j].n < forwarded[c][k].n
                      /\ NoLoss => forwarded[c][k].n = k
    BY DEF ForwardedInOrder, NoLoss, Single
  <2>1. ChainInv(c) /\ forwarded[c] \in Seq(Hops)
    BY ChainTypes DEF OrderInv, Single
  <2>2. DOMAIN forwarded[c] = 1 .. Len(forwarded[c]) /\ Len(forwarded[c]) \in Nat
    BY <2>1
  <2>3. \A j \in 1 .. k - 1 : j \in DOMAIN forwarded[c] /\ j < k
    BY <2>2
  <2>4. k \in Nat /\ forwarded[c][k].n \in Nat
    BY <2>1, <2>2, Numbered
  <2>5. Rising(forwarded[c]) /\ (NoLoss => From(forwarded[c], 0))
    BY <2>1 DEF ChainInv, InOrder, Gapless
  <2>6. \A j \in 1 .. k - 1 : forwarded[c][j].n < forwarded[c][k].n
    BY <2>3, <2>5 DEF Rising
  <2>7. NoLoss => forwarded[c][k].n = k
    BY <2>4, <2>5 DEF From
  <2> QED BY <2>6, <2>7
<1> QED BY <1>1, <1>2, <1>3, TablesHold, PTL DEF ProxySpec
==================================================================================
