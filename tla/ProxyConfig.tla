------------------------------ MODULE ProxyConfig ------------------------------
(***************************************************************************)
(* Parser::parse (proxy_server/config.h): a state machine over the lines of *)
(* proxyserver.conf that fills the tables the proxy starts from.  parse()   *)
(* handles a line outside all blocks itself and hands the line of a block   *)
(* to parse_server, parse_location or parse_upstream, which go through it   *)
(* word by word.                                                           *)
(*                                                                         *)
(* A line is the sequence of its words.  "#" and ";" are words of their own *)
(* wherever they stand: trim() cuts a line at the first of them.  A file    *)
(* that cannot be opened has no lines.                                      *)
(*                                                                         *)
(* OpenUpstreamAnew, CloseUpstreamOpen, OpenLocationUnlisted and            *)
(* ParseEndUnchecked are mistaken forms of the definition after each: no    *)
(* part of ParseNext, they show that the properties can fail.               *)
(***************************************************************************)
EXTENDS Integers, SequencesExt

CONSTANTS Number,    \* the words std::stoi reads as a number, with that number
          Endpoint,  \* the words that have a colon, with the parts around it
          Files,     \* the files the program may be started with
          Unset      \* the value of an int that nobody has assigned

\* The words that are no names.
LeftBrace    == "{"
RightBrace   == "}"
CommentSigns == {"#", ";"}
NoWord       == ""

\* The words at which a method does something.
Special == {LeftBrace, RightBrace, "server", "server_name", "listen", "location", "proxy_pass"}

\* No number and no address is a word the parser knows.
ASSUME ConfigAssumption ==
    /\ \A w \in DOMAIN Number : Number[w] \in Int
    /\ DOMAIN Number \cap (Special \cup {NoWord, "threadNum", "queSize"}) = {}
    /\ DOMAIN Endpoint \cap {NoWord, LeftBrace, RightBrace} = {}
    /\ Unset \notin Int
    /\ \A f \in Files : f \in Seq(Seq(STRING))

VARIABLES file,        \* the lines of the configuration file
          lineno,      \* how many of them have been read
          reading,     \* the method at work on the current line, "parse" between lines
          iss,         \* the words it has not read yet
          checkState,  \* check_state
          lineState,   \* line_state
          bracket,     \* server_left_bracket, location_left_bracket, upstream_left_bracket
          curLocation, curUpstream,
          server,      \* listen, server_name and the proxy_pass of each location
          upstreams,   \* the endpoints of each upstream
          threadNum, queSize,
          outcome      \* "parsing", then "parsed", or "threw" an exception nobody catches

cursorVars == <<file, lineno, reading, iss>>
stateVars  == <<checkState, lineState, bracket, curLocation, curUpstream>>
tableVars  == <<server, upstreams, threadNum, queSize>>
parseVars  == <<file, lineno, reading, iss, checkState, lineState, bracket, curLocation,
                curUpstream, server, upstreams, threadNum, queSize, outcome>>

Blocks == {"SERVER", "LOCATION", "UPSTREAM"}

ParseInit ==
    /\ file \in Files
    /\ lineno = 0 /\ reading = "parse" /\ iss = <<>>
    /\ checkState = "BEGAIN" /\ lineState = "LINE_OK"
    /\ bracket = [b \in Blocks |-> FALSE]
    /\ curLocation = NoWord /\ curUpstream = NoWord
    /\ server = [listen |-> Unset, server_name |-> NoWord, locations |-> <<>>]
    /\ upstreams = <<>> /\ threadNum = Unset /\ queSize = Unset
    /\ outcome = "parsing"

\* trim(): what stands before the first comment sign.
Trim(line) ==
    LET sign == SelectInSeq(line, LAMBDA w : w \in CommentSigns)
    IN  IF sign = 0 THEN line ELSE SubSeq(line, 1, sign - 1)

\* iss >> word: at the end of the line the variable keeps what it held.
Word(words, old) == IF words = <<>> THEN old ELSE Head(words)
Rest(words) == IF words = <<>> THEN <<>> ELSE Tail(words)

\* map::insert: a key that is there keeps its value.
Insert(f, k, v) == [x \in DOMAIN f \cup {k} |-> IF x \in DOMAIN f THEN f[x] ELSE v]

\* parse_bracket: every caller ignores that another word stood there.
ParseBracket(block, words) == [bracket EXCEPT ![block] = @ \/ Word(words, NoWord) = LeftBrace]

Throw == outcome' = "threw" /\ UNCHANGED <<cursorVars, stateVars, tableVars>>

--------------------------------------------------------------------------------
(* parse() *)

Line == Trim(file[lineno + 1])

\* The loop takes another line.
AtLine == /\ outcome = "parsing" /\ reading = "parse"
          /\ lineno < Len(file) /\ lineState = "LINE_OK"
AtOuterLine(word) == AtLine /\ checkState = "BEGAIN" /\ Line # <<>> /\ Head(Line) = word
LineDone == lineno' = lineno + 1 /\ UNCHANGED <<file, reading, iss, outcome>>

SkipLine ==
    /\ AtLine
    /\ Line = <<>>
    /\ LineDone
    /\ UNCHANGED <<stateVars, tableVars>>

\* A setting without its value hands the name of the setting to stoi.
Setting ==
    LET value == Word(Tail(Line), Head(Line)) IN
    \/ /\ AtOuterLine("threadNum") /\ value \in DOMAIN Number
       /\ threadNum' = Number[value]
       /\ LineDone /\ UNCHANGED <<stateVars, server, upstreams, queSize>>
    \/ /\ AtOuterLine("queSize") /\ value \in DOMAIN Number
       /\ queSize' = Number[value]
       /\ LineDone /\ UNCHANGED <<stateVars, server, upstreams, threadNum>>
    \/ /\ AtOuterLine("threadNum") \/ AtOuterLine("queSize")
       /\ value \notin DOMAIN Number
       /\ Throw

OpenServer ==
    /\ AtOuterLine("server")
    /\ checkState' = "SERVER"
    /\ bracket' = ParseBracket("SERVER", Tail(Line))
    /\ LineDone
    /\ UNCHANGED <<lineState, curLocation, curUpstream, tableVars>>

\* An upstream of that name keeps what it has.
OpenUpstreamAnew ==
    /\ AtOuterLine("upstream")
    /\ checkState' = "UPSTREAM"
    /\ curUpstream' = Word(Tail(Line), NoWord)
    /\ upstreams' = [x \in DOMAIN upstreams \cup {curUpstream'} |->
                        IF x = curUpstream' THEN <<>> ELSE upstreams[x]]
    /\ bracket' = ParseBracket("UPSTREAM", Rest(Tail(Line)))
    /\ LineDone
    /\ UNCHANGED <<lineState, curLocation, server, threadNum, queSize>>
OpenUpstream ==
    /\ AtOuterLine("upstream")
    /\ checkState' = "UPSTREAM"
    /\ curUpstream' = Word(Tail(Line), NoWord)
    /\ upstreams' = Insert(upstreams, curUpstream', <<>>)
    /\ bracket' = ParseBracket("UPSTREAM", Rest(Tail(Line)))
    /\ LineDone
    /\ UNCHANGED <<lineState, curLocation, server, threadNum, queSize>>

NoBlock ==
    /\ AtLine /\ checkState = "BEGAIN" /\ Line # <<>>
    /\ Head(Line) \notin {"threadNum", "queSize", "server", "upstream"}
    /\ Throw

\* The line of a block goes to the block's method.
CallMethod ==
    /\ AtLine /\ checkState # "BEGAIN" /\ Line # <<>>
    /\ reading' = checkState
    /\ iss' = Line
    /\ lineno' = lineno + 1
    /\ UNCHANGED <<file, stateVars, tableVars, outcome>>

ParseEndUnchecked ==
    /\ outcome = "parsing" /\ reading = "parse"
    /\ lineno = Len(file) \/ lineState = "LINE_BAD"
    /\ outcome' = IF lineState = "LINE_OK" THEN "parsed" ELSE "threw"
    /\ checkState' = "BEGAIN"
    /\ UNCHANGED <<cursorVars, lineState, bracket, curLocation, curUpstream, tableVars>>
ParseEnd ==
    /\ outcome = "parsing" /\ reading = "parse"
    /\ lineno = Len(file) \/ lineState = "LINE_BAD"
    /\ outcome' = IF lineState = "LINE_OK" /\ checkState = "BEGAIN" THEN "parsed" ELSE "threw"
    /\ checkState' = "BEGAIN"
    /\ UNCHANGED <<cursorVars, lineState, bracket, curLocation, curUpstream, tableVars>>

--------------------------------------------------------------------------------
(* parse_server, parse_location, parse_upstream: one step per word *)

\* The method has the word w in hand; a block needs its bracket first.
InMethod(m)   == outcome = "parsing" /\ reading = m /\ iss # <<>>
InBlock(m, w) == InMethod(m) /\ bracket[m] /\ Head(iss) = w
After(words)  == iss' = words /\ UNCHANGED <<file, lineno, reading, outcome>>
Return        == reading' = "parse" /\ iss' = <<>> /\ UNCHANGED <<file, lineno, outcome>>

MethodEnd ==
    /\ outcome = "parsing" /\ reading # "parse" /\ iss = <<>>
    /\ Return
    /\ UNCHANGED <<stateVars, tableVars>>

LeftBracket(m) ==
    /\ InMethod(m) /\ ~bracket[m]
    /\ \/ /\ Head(iss) = LeftBrace
          /\ bracket' = [bracket EXCEPT ![m] = TRUE]
          /\ After(Tail(iss))
          /\ UNCHANGED <<checkState, lineState, curLocation, curUpstream, tableVars>>
       \/ Head(iss) # LeftBrace /\ Throw

\* The words a block does not know.
BadWord(m) ==
    /\ InMethod(m) /\ bracket[m]
    /\ Head(iss) \notin CASE m = "SERVER"   -> {"server_name", "listen", "location", RightBrace}
                          [] m = "LOCATION" -> {"proxy_pass", RightBrace}
                          [] m = "UPSTREAM" -> {"server", RightBrace}
    /\ lineState' = "LINE_BAD"
    /\ Return
    /\ UNCHANGED <<checkState, bracket, curLocation, curUpstream, tableVars>>

\* The right bracket: the method goes on with the rest of the line.
CloseUpstreamOpen(m) ==
    /\ InBlock(m, RightBrace)
    /\ bracket' = IF m = "UPSTREAM" THEN bracket ELSE [bracket EXCEPT ![m] = FALSE]
    /\ checkState' = IF m = "LOCATION" THEN "SERVER" ELSE "BEGAIN"
    /\ After(Tail(iss))
    /\ UNCHANGED <<lineState, curLocation, curUpstream, tableVars>>
CloseBlock(m) ==
    /\ InBlock(m, RightBrace)
    /\ bracket' = [bracket EXCEPT ![m] = FALSE]
    /\ checkState' = IF m = "LOCATION" THEN "SERVER" ELSE "BEGAIN"
    /\ After(Tail(iss))
    /\ UNCHANGED <<lineState, curLocation, curUpstream, tableVars>>

ServerName ==
    /\ InBlock("SERVER", "server_name")
    /\ server' = [server EXCEPT !.server_name = Word(Tail(iss), @)]
    /\ After(Rest(Tail(iss)))
    /\ UNCHANGED <<stateVars, upstreams, threadNum, queSize>>

Listen ==
    /\ InBlock("SERVER", "listen")
    /\ LET value == Word(Tail(iss), "listen") IN
          \/ /\ value \in DOMAIN Number
             /\ server' = [server EXCEPT !.listen = Number[value]]
             /\ After(Rest(Tail(iss)))
             /\ UNCHANGED <<stateVars, upstreams, threadNum, queSize>>
          \/ value \notin DOMAIN Number /\ Throw

\* After the header of a location the rest of the line is dropped.
OpenLocationUnlisted ==
    /\ InBlock("SERVER", "location")
    /\ checkState' = "LOCATION"
    /\ curLocation' = Word(Tail(iss), NoWord)
    /\ bracket' = ParseBracket("LOCATION", Rest(Tail(iss)))
    /\ Return
    /\ UNCHANGED <<lineState, curUpstream, tableVars>>
OpenLocation ==
    /\ InBlock("SERVER", "location")
    /\ checkState' = "LOCATION"
    /\ curLocation' = Word(Tail(iss), NoWord)
    /\ server' = [server EXCEPT !.locations = Insert(@, curLocation', NoWord)]
    /\ bracket' = ParseBracket("LOCATION", Rest(Tail(iss)))
    /\ Return
    /\ UNCHANGED <<lineState, curUpstream, upstreams, threadNum, queSize>>

ProxyPass ==
    /\ InBlock("LOCATION", "proxy_pass")
    /\ server' = [server EXCEPT !.locations[curLocation] = Word(Tail(iss), @)]
    /\ After(Rest(Tail(iss)))
    /\ UNCHANGED <<stateVars, upstreams, threadNum, queSize>>

UpstreamServer ==
    /\ InBlock("UPSTREAM", "server")
    /\ LET ip_port == Word(Tail(iss), NoWord) IN
          \/ /\ ip_port \in DOMAIN Endpoint
             /\ upstreams' = [upstreams EXCEPT ![curUpstream] = Append(@, Endpoint[ip_port])]
             /\ After(Rest(Tail(iss)))
             /\ UNCHANGED <<stateVars, server, threadNum, queSize>>
          \/ /\ ip_port \notin DOMAIN Endpoint
             /\ lineState' = "LINE_BAD"
             /\ Return
             /\ UNCHANGED <<checkState, bracket, curLocation, curUpstream, tableVars>>

--------------------------------------------------------------------------------
ParseNext ==
    \/ SkipLine \/ Setting \/ OpenServer \/ OpenUpstream \/ NoBlock \/ CallMethod
    \/ MethodEnd
    \/ \E m \in Blocks : LeftBracket(m) \/ BadWord(m) \/ CloseBlock(m)
    \/ ServerName \/ Listen \/ OpenLocation \/ ProxyPass \/ UpstreamServer
    \/ ParseEnd

ParseSpec == ParseInit /\ [][ParseNext]_parseVars

--------------------------------------------------------------------------------
(* What a file says, read as a text and without a state machine: ls is the sequence *)
(* of its lines without their comments, or of the first of them.                      *)

Text(f) == [i \in DOMAIN f |-> Trim(f[i])]
Lines   == Text(file)

LastOf(set) == CHOOSE i \in set : \A j \in set : j <= i

First(ls, i)   == Word(ls[i], NoWord)
Value(ls, i)   == Word(Rest(ls[i]), NoWord)
LinesOf(ls, w) == {i \in DOMAIN ls : First(ls, i) = w}
LinesWith(ls, w) == {i \in DOMAIN ls : Contains(ls[i], w)}

\* The last header or closing line before line i.
Mark(ls, i) ==
    LastOf({0} \cup {j \in 1 .. i - 1 : First(ls, j) \in {"location", "upstream", RightBrace}})

\* The lines that begin with w and stand in a block called name.
LinesIn(ls, block, name, w) ==
    {i \in LinesOf(ls, w) : /\ Mark(ls, i) \in LinesOf(ls, block)
                            /\ Value(ls, Mark(ls, i)) = name}

Named(ls, block) == {Value(ls, i) : i \in LinesOf(ls, block)}

\* What the last of some lines says: one without a value says nothing.
Said(ls, lines) ==
    LET saying == {i \in lines : Len(ls[i]) > 1}
    IN  IF saying = {} THEN NoWord ELSE Value(ls, LastOf(saying))

ToldNumber(ls, w) ==
    IF LinesOf(ls, w) = {} THEN Unset ELSE Number[Value(ls, LastOf(LinesOf(ls, w)))]
ToldPass(ls, name)    == Said(ls, LinesIn(ls, "location", name, "proxy_pass"))
ToldServers(ls, name) == LinesIn(ls, "upstream", name, "server")

\* The place of line i among some lines, and the list they make.
Place(lines, i) == Cardinality({j \in lines : j <= i})
ListsServers(list, ls, lines) ==
    /\ Len(list) = Cardinality(lines)
    /\ \A i \in lines : list[Place(lines, i)] = Endpoint[Value(ls, i)]

HeaderLines(ls) ==
    LinesOf(ls, "location") \cup LinesOf(ls, "upstream")
        \cup {i \in LinesOf(ls, "server") : Mark(ls, i) \notin LinesOf(ls, "upstream")}

\* The blocks that are not closed, and the headers whose left bracket is to come.
Depth(ls)   == Cardinality(HeaderLines(ls)) - Cardinality(LinesWith(ls, RightBrace))
Waiting(ls) == Cardinality(HeaderLines(ls)) - Cardinality(LinesWith(ls, LeftBrace))

--------------------------------------------------------------------------------
(* The format, of which proxyserver.conf is the only description *)

\* A header with a name, and with its bracket or without.
IsHeader(l, word) == /\ l[1] = word /\ Len(l) \in {2, 3} /\ l[2] \notin Special
                     /\ Len(l) = 3 => l[3] = LeftBrace
IsNumber(l, word) == Len(l) = 2 /\ l[1] = word /\ l[2] \in DOMAIN Number
IsName(l, word)   == Len(l) = 2 /\ l[1] = word /\ l[2] \notin Special

\* l may be the next line after the lines ls.
MayFollow(ls, l) ==
    \/ Waiting(ls) # 0 /\ l = <<LeftBrace>>
    \/ /\ Waiting(ls) = 0 /\ Depth(ls) = 0
       /\ \/ IsNumber(l, "threadNum") \/ IsNumber(l, "queSize")
          \/ l = <<"server">> \/ l = <<"server", LeftBrace>> \/ IsHeader(l, "upstream")
    \/ /\ Waiting(ls) = 0 /\ Depth(ls) = 1 /\ Mark(ls, Len(ls) + 1) \notin LinesOf(ls, "upstream")
       /\ \/ IsNumber(l, "listen") \/ IsName(l, "server_name") \/ IsHeader(l, "location")
          \/ l = <<RightBrace>>
    \/ /\ Waiting(ls) = 0 /\ Mark(ls, Len(ls) + 1) \in LinesOf(ls, "upstream")
       /\ \/ IsName(l, "server") /\ l[2] \in DOMAIN Endpoint
          \/ l = <<RightBrace>>
    \/ /\ Waiting(ls) = 0 /\ Depth(ls) = 2
       /\ \/ IsName(l, "proxy_pass") \/ l = <<RightBrace>>

WellFormed(ls) ==
    /\ Depth(ls) = 0
    /\ \A i \in DOMAIN ls : ls[i] = <<>> \/ MayFollow(SubSeq(ls, 1, i - 1), ls[i])

\* Special words stand first on their lines, but for the bracket of a header and what
\* follows that on its line, which nobody reads.
BracketPlace(l) == IF Head(l) = "server" THEN 2 ELSE 3
IsPlain(l) ==
    \A k \in 2 .. Len(l) :
        l[k] \in Special =>
            /\ Head(l) \in {"server", "location", "upstream"}
            /\ k >= BracketPlace(l) /\ l[BracketPlace(l)] = LeftBrace
            /\ k > BracketPlace(l) => l[k] \notin {LeftBrace, RightBrace}
Plain(ls) == \A i \in DOMAIN ls : IsPlain(ls[i])

--------------------------------------------------------------------------------
(* Properties *)

ConfigTypeOK ==
    /\ file \in Seq(Seq(STRING)) /\ lineno \in 0 .. Len(file)
    /\ reading \in Blocks \cup {"parse"}
    /\ checkState \in Blocks \cup {"BEGAIN"} /\ lineState \in {"LINE_OK", "LINE_BAD"}
    /\ bracket \in [Blocks -> BOOLEAN]
    /\ threadNum \in Int \cup {Unset} /\ queSize \in Int \cup {Unset}
    /\ server = [listen |-> server.listen, server_name |-> server.server_name,
                 locations |-> server.locations]
    /\ server.listen \in Int \cup {Unset}
    /\ outcome \in {"parsing", "parsed", "threw"}

\* config.h:205 and 243: operator[] meets the location and the upstream whose
\* header was read last, and never makes one that the file does not name.
NamesExist ==
    /\ "LOCATION" \in {checkState, reading} => curLocation \in DOMAIN server.locations
    /\ "UPSTREAM" \in {checkState, reading} => curUpstream \in DOMAIN upstreams

\* A plain file that is accepted fills the tables with what its lines say, block by
\* block, whatever the order of the blocks, with the brackets on the line of
\* the header or the next, a name used by two blocks, comments and empty lines;
\* the last of several lines counts, and only the lines of upstreams add up.
\* What stands behind a header's bracket on the same line is not read.
TablesFollowFile ==
    outcome = "parsed" /\ Plain(Lines) =>
        LET ls == Lines IN
        /\ threadNum = ToldNumber(ls, "threadNum") /\ queSize = ToldNumber(ls, "queSize")
        /\ server.listen = ToldNumber(ls, "listen")
        /\ server.server_name = Said(ls, LinesOf(ls, "server_name"))
        /\ server.locations = [name \in Named(ls, "location") |-> ToldPass(ls, name)]
        /\ Named(ls, "upstream") \subseteq DOMAIN upstreams
        /\ \A name \in DOMAIN upstreams : ListsServers(upstreams[name], ls, ToldServers(ls, name))

\* No plain file is accepted with a block that is not opened or not closed: one that
\* was cut, or has lost or doubled a header or a bracket, is refused.
AcceptedIsBalanced ==
    outcome = "parsed" /\ Plain(Lines) => Depth(Lines) = 0 /\ Waiting(Lines) = 0
================================================================================
