----------------------------- MODULE MCProxyStart -----------------------------
(* Instances of ProxyStart for TLC: files in the shapes of the shipped proxyserver.conf, *)
(* odd ones, and all of them damaged in one place.                                       *)
EXTENDS ProxyStart

Numbers == [w \in {"0", "-1", "8", "1024", "10001", "75538"} |->
               CASE w = "0" -> 0 [] w = "-1" -> -1 [] w = "8" -> 8 [] w = "1024" -> 1024
                 [] w = "10001" -> 10001 [] w = "75538" -> 75538]
At(p) == [ip |-> "127.0.0.1", port |-> p]
Endpoints  == ("a:8" :> At("8")) @@ ("a:1024" :> At("1024"))
                  @@ ("a:75538" :> At("75538")) @@ ("a:x" :> At("x"))
Hosts      == ("http://one" :> "one") @@ ("http://two" :> "two")
MayAnswer  == SUBSET {At(8), At(1024), At(10002)}

\* A block in one of its layouts, each a sequence of lines.
Block(header, body, brace) ==
    (IF brace = "same" THEN <<header \o <<"{">>>> ELSE <<header, <<"{">>>>) \o body \o <<<<"}">>>>
Crowded(header, body) == <<header \o <<"{">> \o body[1]>> \o Tail(body) \o <<<<"}">>>>

Location(id, pass, brace) == Block(<<"location", id>>, <<<<"proxy_pass", pass>>>>, brace)
Sizes(threads, size) == <<<<"threadNum", threads, ";", "#", "note">>, <<"queSize", size, ";">>>>
One(brace) == Block(<<"upstream", "one">>,
                    <<<<"#", "server", "a:8", ";">>, <<"server", "a:1024", ";", "#", "note">>>>, brace)
Two(brace) == Block(<<"upstream", "two">>, <<<<"server", "a:8">>, <<"server", "a:75538">>>>, brace)
Server(locations, brace) ==
    Block(<<"server">>, <<<<"listen", "10001", ";">>, <<"server_name", "x">>>> \o locations, brace)

ProperFiles ==
    UNION {{
        \* the shipped file, its blocks in the other order, a server block in two parts
        Sizes("8", "1024") \o <<<<>>>>
            \o Server(Location("/1/", "http://one", b) \o Location("/2/", "http://two", c), c)
            \o One(b) \o <<<<"#", "note">>>> \o Two(c),
        Two(b) \o One(c) \o Server(Location("/1/", "http://two", c), b)
            \o Server(Location("/2/", "http://two", b), c) \o Sizes("8", "0"),
        \* an upstream in two blocks, a location in two blocks, an unknown upstream
        Sizes("0", "8") \o One(b)
            \o Server(Location("/1/", "http://two", b) \o Location("/1/", "http://one", c)
                        \o Location("/2/", "http://two", c), b)
            \o Block(<<"upstream", "one">>, <<<<"server", "a:8">>>>, c)}
      : b, c \in {"same", "next"}}

OddFiles ==
    {<<>>, <<<<"threadNum", "-1">>>>, <<<<"threadNum">>>>, <<<<"listen", "10001">>>>,
     Sizes("x", "8"), Sizes("8", "x"), <<<<"upstream", "one">>, <<"server", "a:8">>>>,
     Server(<<<<"listen">>>>, "same"), Server(<<<<"listen", "-1">>>>, "same"),
     Server(Location("/1/", "one", "same"), "same"),
     Server(Location("/1/", "http://one", "same"), "same")
        \o Block(<<"upstream", "one">>, <<<<"server", "a:x">>>>, "same"),
     Block(<<"upstream", "one">>, <<<<"server", "a">>>>, "same"),
     Block(<<"upstream", "one">>, <<<<"server">>>>, "same"),
     Server(Crowded(<<"location", "/1/">>, <<<<"proxy_pass", "http://one">>, <<"proxy_pass", "http://two">>>>), "same"),
     Crowded(<<"upstream", "one">>, <<<<"server", "a:8">>, <<"server", "a:1024">>>>),
     Server(Block(<<"location", "/1/">>, <<<<"proxy_pass", "http://one">>, <<"proxy_pass">>>>, "same"), "next"),
     Sizes("8", "8") \o <<<<"server", "oops">>, <<"{">>, <<"listen", "8">>, <<"}">>>>}

\* A file cut after some line, without one, with one twice, with a word too many.
Damaged(f) == UNION {{SubSeq(f, 1, i), RemoveAt(f, i), InsertAt(f, i, f[i]), ReplaceAt(f, i, <<"oops">>)}
                      : i \in DOMAIN f}

AllFiles == UNION {{f} \cup Damaged(f) : f \in ProperFiles \cup OddFiles}

\* The files are what they are meant to be, and the theorems are about them all.
ASSUME ProperAssumption == \A f \in ProperFiles : WellFormed(Text(f)) /\ Startable(Text(f))
ASSUME PlainAssumption  == \A f \in AllFiles : Plain(Text(f))

SomeNumbers == {-1, 0, 8}
================================================================================
