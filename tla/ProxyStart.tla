------------------------------ MODULE ProxyStart ------------------------------
(***************************************************************************)
(* From the parsed configuration to the running proxy: main(), the          *)
(* constructors of ProxyServer and EventLoop, Acceptor::ready() and         *)
(* EventLoop::connectToBusinessServer.  The tables it leaves are those      *)
(* ProxyServer begins with, there for one location, here for all of them.   *)
(*                                                                         *)
(* ConnectSkipping, ConnectRetrying and ConnectReusing are mistaken forms   *)
(* of ConnectOne.                                                          *)
(***************************************************************************)
EXTENDS ProxyConfig

CONSTANTS Host,      \* the words of seven characters and more, without the first seven
          Answering, \* the sets of endpoints that may accept a connection at start-up
          Garbage,   \* values an int may have that nobody has assigned
          Ephemeral, \* the port listen() takes for a socket that bind() has not named
          FirstFd    \* the lowest number the kernel can give to a connection

ASSUME StartAssumption == Garbage \subseteq Int /\ FirstFd \in Nat

VARIABLES stage,       \* where main() is
          up,          \* the endpoints that accept a connection
          port,        \* where the acceptor listens
          workers, capacity,  \* _threadNum and _queSize of the pool
          todo,        \* the locations connectToBusinessServer has not come to
          location,    \* the one it is at
          forwarding,  \* _forwardingTable
          serverConns  \* _serverConns: number -> the endpoint at the other end

startVars == <<stage, up, port, workers, capacity, todo, location, forwarding, serverConns>>
vars == <<file, lineno, reading, iss, checkState, lineState, bracket, curLocation, curUpstream,
          server, upstreams, threadNum, queSize, outcome,
          stage, up, port, workers, capacity, todo, location, forwarding, serverConns>>

StartInit ==
    /\ ParseInit
    /\ stage = "parsing" /\ up = {}
    /\ port = Unset /\ workers = Unset /\ capacity = Unset
    /\ todo = {} /\ location = NoWord /\ forwarding = <<>> /\ serverConns = <<>>

Settled(n) == IF n = Unset THEN Garbage ELSE {n}

\* An exception ends the process: there is no handler in main().
Fail == outcome' = "threw" /\ UNCHANGED <<cursorVars, stateVars, tableVars, startVars>>

--------------------------------------------------------------------------------
Parse == stage = "parsing" /\ ParseNext /\ UNCHANGED startVars

\* The constructors: the port becomes an unsigned short, the two sizes a size_t,
\* so that a negative number of threads is more than reserve() can give.
Construct ==
    /\ stage = "parsing" /\ outcome = "parsed"
    /\ \E threads \in Settled(threadNum), size \in Settled(queSize), l \in Settled(server.listen) :
          \/ threads < 0 /\ Fail
          \/ /\ threads >= 0
             /\ stage' = "constructed"
             /\ workers' = threads /\ capacity' = size /\ port' = l % 65536
             /\ UNCHANGED <<parseVars, up, todo, location, forwarding, serverConns>>

\* ready(): when bind() fails a message is printed and listen() called all the same.
\* From here on it is settled which servers accept a connection.
Ready ==
    /\ stage = "constructed"
    /\ stage' = "connecting"
    /\ port' \in {port, Ephemeral}
    /\ todo' = DOMAIN server.locations
    /\ up' \in Answering
    /\ UNCHANGED <<parseVars, workers, capacity, location, forwarding, serverConns>>

\* The next location, in the order of the keys, which decides nothing but the
\* numbers the kernel gives and is left open.  operator[] makes an upstream
\* without servers of a name that has no block.
NextLocation(l) ==
    /\ stage = "connecting" /\ outcome = "parsed" /\ l \in todo
    /\ \/ /\ server.locations[l] \in DOMAIN Host
          /\ stage' = "location"
          /\ location' = l /\ todo' = todo \ {l}
          /\ forwarding' = [x \in DOMAIN forwarding \cup {l} |-> IF x = l THEN <<>> ELSE forwarding[x]]
          /\ upstreams' = Insert(upstreams, Host[server.locations[l]], <<>>)
          /\ UNCHANGED <<cursorVars, stateVars, server, threadNum, queSize, outcome, up, port,
                         workers, capacity, serverConns>>
       \/ server.locations[l] \notin DOMAIN Host /\ Fail

Row     == forwarding[location]
Servers == upstreams[Host[server.locations[location]]]

\* connectToOneBusinessServer and what is done with the number it returns: -1
\* like any other goes into the row, and as a key into the map of connections,
\* where insert keeps the first.  stoi() may throw.
Address(e) == [e EXCEPT !.port = Number[@] % 65536]
NewFd(e) == IF Address(e) \in up
            THEN FirstFd + Cardinality(DOMAIN serverConns \ {-1})
            ELSE -1

ConnectSkipping ==
    /\ stage = "location" /\ outcome = "parsed" /\ Len(Row) < Len(Servers)
    /\ \/ /\ Servers[Len(Row) + 1].port \in DOMAIN Number
          /\ LET e == Servers[Len(Row) + 1] IN
                IF NewFd(e) = -1
                THEN stage' = "connecting" /\ UNCHANGED <<forwarding, serverConns>>
                ELSE /\ forwarding' = [forwarding EXCEPT ![location] = Append(@, NewFd(e))]
                     /\ serverConns' = Insert(serverConns, NewFd(e), e)
                     /\ UNCHANGED stage
          /\ UNCHANGED <<parseVars, up, port, workers, capacity, todo, location>>
       \/ Servers[Len(Row) + 1].port \notin DOMAIN Number /\ Fail
ConnectRetrying ==
    /\ stage = "location" /\ outcome = "parsed" /\ Len(Row) < Len(Servers)
    /\ \/ /\ Servers[Len(Row) + 1].port \in DOMAIN Number
          /\ LET e == Servers[Len(Row) + 1] IN
                /\ NewFd(e) # -1
                /\ forwarding' = [forwarding EXCEPT ![location] = Append(@, NewFd(e))]
                /\ serverConns' = Insert(serverConns, NewFd(e), e)
          /\ UNCHANGED <<parseVars, stage, up, port, workers, capacity, todo, location>>
       \/ Servers[Len(Row) + 1].port \notin DOMAIN Number /\ Fail
ConnectReusing ==
    /\ stage = "location" /\ outcome = "parsed" /\ Len(Row) < Len(Servers)
    /\ \/ /\ Servers[Len(Row) + 1].port \in DOMAIN Number
          /\ LET e    == Servers[Len(Row) + 1]
                 have == {n \in DOMAIN serverConns : serverConns[n] = e}
             IN  /\ forwarding' = [forwarding EXCEPT ![location] =
                        Append(@, IF have # {} THEN Max(have) ELSE NewFd(e))]
                 /\ serverConns' = IF have # {} THEN serverConns ELSE Insert(serverConns, NewFd(e), e)
          /\ UNCHANGED <<parseVars, stage, up, port, workers, capacity, todo, location>>
       \/ Servers[Len(Row) + 1].port \notin DOMAIN Number /\ Fail
ConnectOne ==
    /\ stage = "location" /\ outcome = "parsed" /\ Len(Row) < Len(Servers)
    /\ \/ /\ Servers[Len(Row) + 1].port \in DOMAIN Number
          /\ LET e == Servers[Len(Row) + 1] IN
                /\ forwarding' = [forwarding EXCEPT ![location] = Append(@, NewFd(e))]
                /\ serverConns' = Insert(serverConns, NewFd(e), e)
          /\ UNCHANGED <<parseVars, stage, up, port, workers, capacity, todo, location>>
       \/ Servers[Len(Row) + 1].port \notin DOMAIN Number /\ Fail

LocationDone ==
    /\ stage = "location" /\ Len(Row) = Len(Servers)
    /\ stage' = "connecting"
    /\ UNCHANGED <<parseVars, up, port, workers, capacity, todo, location, forwarding, serverConns>>

\* _threadpool.start() (Threadpool) and the loop (ProxyServer).
StartPool ==
    /\ stage = "connecting" /\ outcome = "parsed" /\ todo = {}
    /\ stage' = "running"
    /\ UNCHANGED <<parseVars, up, port, workers, capacity, todo, location, forwarding, serverConns>>

StartNext ==
    \/ Parse \/ Construct \/ Ready \/ LocationDone \/ ConnectOne \/ StartPool
    \/ \E l \in todo : NextLocation(l)

StartSpec == StartInit /\ [][StartNext]_vars

\* One thread, which runs on; connect() comes back, with or without a connection.
StartFairSpec == StartSpec /\ WF_vars(StartNext)

--------------------------------------------------------------------------------
(* Properties *)

\* The proxy begins with what a plain file says, seen from the file to the tables:
\* each location has one number for each server of its upstream, in the order of
\* the file, the number of a connection to that very server, and -1 exactly
\* where nobody answers, so that a failed one moves none of the others.
LocationsHaveTheirServers ==
    stage = "running" /\ Plain(Lines) =>
        LET ls == Lines IN
        /\ DOMAIN forwarding = Named(ls, "location")
        /\ \A l \in DOMAIN forwarding :
              LET told == ToldServers(ls, Host[ToldPass(ls, l)]) IN
              /\ Len(forwarding[l]) = Cardinality(told)
              /\ \A i \in told :
                    LET e  == Endpoint[Value(ls, i)]
                        fd == forwarding[l][Place(told, i)]
                    IN  IF Address(e) \in up THEN fd >= FirstFd /\ serverConns[fd] = e ELSE fd = -1

\* proxyserver.conf is the only description of the format there is: a file written
\* the way it is, in any layout and any order of its blocks, with a number of
\* threads, known protocols and ports that are numbers, is not refused.
Startable(ls) ==
    /\ ToldNumber(ls, "threadNum") \in Nat
    /\ \A name \in Named(ls, "location") : ToldPass(ls, name) \in DOMAIN Host
    /\ \A i \in LinesOf(ls, "server") :
          Value(ls, i) \in DOMAIN Endpoint => Endpoint[Value(ls, i)].port \in DOMAIN Number
ProperAccepted == outcome = "threw" => ~(WellFormed(Lines) /\ Startable(Lines))

\* EventLoop.cc:131-136: no two entries of the forwarding table share a
\* connection, not even two locations with one upstream: do_server2client
\* takes a lost connection out of every location at its first place only.
EntriesOwnTheirConns ==
    \A k, l \in DOMAIN forwarding : \A i \in DOMAIN forwarding[k], j \in DOMAIN forwarding[l] :
        forwarding[k][i] = forwarding[l][j] => <<k, i>> = <<l, j>> \/ forwarding[k][i] = -1

\* The inductive invariant behind it: the numbers given out are those from
\* FirstFd on, and the forwarding table holds no other.
StartInv ==
    /\ DOMAIN serverConns \ {-1} = FirstFd .. FirstFd + Cardinality(DOMAIN serverConns \ {-1}) - 1
    /\ \A l \in DOMAIN forwarding : forwarding[l] \in Seq(DOMAIN serverConns)
    /\ stage = "location" => location \in DOMAIN forwarding
    /\ EntriesOwnTheirConns

\* Whatever the file and whoever answers, the program comes to run or ends with
\* an exception: no line is read for ever, no server is waited for.
StartEnds == <>(stage = "running" \/ outcome = "threw")
================================================================================
