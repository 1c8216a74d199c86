--------------------------- MODULE ProxyStartProofs ---------------------------
(***************************************************************************)
(* For every configuration file and whoever answers: the parser never       *)
(* writes into a block that the file has not opened; the forwarding table   *)
(* the proxy begins with shares no connection; from a plain file the tables *)
(* come out as its lines say, and no unbalanced one is accepted; a          *)
(* well-formed one is not refused.                                          *)
(*                                                                         *)
(* The definitions that read a file as a text are about a whole file; each  *)
(* lemma of the second part says what such a definition makes of one more   *)
(* line, so that the invariant can go along with the parser.                *)
(***************************************************************************)
EXTENDS ProxyStart, TLAPS, FiniteSetTheorems, SequenceTheorems, WellFoundedInduction

--------------------------------------------------------------------------------
(* The parser *)

ConfigInv == ConfigTypeOK /\ NamesExist

LEMMA ConfigInvInit == ParseInit => ConfigInv
<1> SUFFICES ASSUME ParseInit PROVE ConfigInv
  OBVIOUS
<1>1. file \in Seq(Seq(STRING))
  BY ConfigAssumption DEF ParseInit
<1>2. Len(file) \in Nat
  BY <1>1
<1>3. lineno \in 0 .. Len(file)
  <2>1. lineno = 0
    BY DEF ParseInit
  <2> QED BY <1>2, <2>1
<1> QED BY <1>1, <1>3 DEF ParseInit, ConfigInv, ConfigTypeOK, NamesExist, Blocks

LEMMA OuterLineInv ==
    ASSUME ConfigInv, SkipLine \/ Setting \/ OpenServer \/ OpenUpstream \/ NoBlock \/ CallMethod
    PROVE  ConfigInv'
<1> USE DEF ConfigInv, ConfigTypeOK
<1>1. ASSUME AtLine PROVE lineno + 1 \in 0 .. Len(file) /\ reading = "parse"
  BY <1>1 DEF AtLine
<1>2. CASE SkipLine
  BY <1>1, <1>2 DEF SkipLine, LineDone, stateVars, tableVars, NamesExist
<1>3. CASE Setting
  <2>1. ASSUME NEW w \in DOMAIN Number PROVE Number[w] \in Int
    BY <2>1, ConfigAssumption
  <2> QED BY <1>1, <1>3, <2>1 DEF Setting, AtOuterLine, LineDone, Throw, cursorVars, stateVars, tableVars,
        NamesExist
<1>4. CASE OpenServer
  BY <1>1, <1>4 DEF OpenServer, AtOuterLine, LineDone, ParseBracket, tableVars, NamesExist, Blocks
<1>5. CASE OpenUpstream
  <2>1. DOMAIN upstreams' = DOMAIN upstreams \cup {curUpstream'}
    BY <1>5 DEF OpenUpstream, Insert
  <2> QED BY <1>1, <1>5, <2>1 DEF OpenUpstream, AtOuterLine, LineDone, ParseBracket, NamesExist, Blocks
<1>6. CASE NoBlock
  BY <1>6 DEF NoBlock, Throw, cursorVars, stateVars, tableVars, NamesExist
<1>7. CASE CallMethod
  BY <1>1, <1>7 DEF CallMethod, AtLine, stateVars, tableVars, NamesExist, Blocks
<1> QED BY <1>2, <1>3, <1>4, <1>5, <1>6, <1>7

LEMMA MethodInv ==
    ASSUME ConfigInv,
           \/ MethodEnd \/ ParseEnd
           \/ \E m \in Blocks : LeftBracket(m) \/ BadWord(m) \/ CloseBlock(m)
    PROVE  ConfigInv'
<1> USE DEF ConfigInv, ConfigTypeOK
<1>1. CASE MethodEnd
  BY <1>1 DEF MethodEnd, Return, stateVars, tableVars, NamesExist
<1>2. CASE ParseEnd
  BY <1>2 DEF ParseEnd, cursorVars, tableVars, NamesExist
<1>3. ASSUME NEW m \in Blocks, LeftBracket(m) PROVE ConfigInv'
  BY <1>3 DEF LeftBracket, After, Throw, cursorVars, stateVars, tableVars, NamesExist, Blocks
<1>4. ASSUME NEW m \in Blocks, BadWord(m) PROVE ConfigInv'
  BY <1>4 DEF BadWord, Return, tableVars, NamesExist
<1>5. ASSUME NEW m \in Blocks, CloseBlock(m) PROVE ConfigInv'
  BY <1>5 DEF CloseBlock, InBlock, InMethod, After, tableVars, NamesExist, Blocks
<1> QED BY <1>1, <1>2, <1>3, <1>4, <1>5

LEMMA DirectiveInv ==
    ASSUME ConfigInv, ServerName \/ Listen \/ OpenLocation \/ ProxyPass \/ UpstreamServer
    PROVE  ConfigInv'
<1> USE DEF ConfigInv, ConfigTypeOK
<1>1. CASE ServerName
  BY <1>1 DEF ServerName, After, stateVars, NamesExist
<1>2. CASE Listen
  <2>1. ASSUME NEW w \in DOMAIN Number PROVE Number[w] \in Int
    BY <2>1, ConfigAssumption
  <2> QED BY <1>2, <2>1 DEF Listen, After, Throw, cursorVars, stateVars, tableVars, NamesExist
<1>3. CASE OpenLocation
  <2>1. /\ server'.locations = Insert(server.locations, curLocation', NoWord)
        /\ server'.listen = server.listen
        /\ server' = [listen |-> server'.listen, server_name |-> server'.server_name,
                      locations |-> server'.locations]
    BY <1>3 DEF OpenLocation
  <2>2. DOMAIN server'.locations = DOMAIN server.locations \cup {curLocation'}
    BY <2>1 DEF Insert
  <2> QED BY <1>3, <2>1, <2>2 DEF OpenLocation, InBlock, InMethod, Return, ParseBracket, NamesExist, Blocks
<1>4. CASE ProxyPass
  <2>1. /\ DOMAIN server'.locations = DOMAIN server.locations
        /\ server'.listen = server.listen
        /\ server' = [listen |-> server'.listen, server_name |-> server'.server_name,
                      locations |-> server'.locations]
    BY <1>4 DEF ProxyPass
  <2> QED BY <1>4, <2>1 DEF ProxyPass, After, stateVars, NamesExist
<1>5. CASE UpstreamServer
  BY <1>5 DEF UpstreamServer, After, Return, stateVars, tableVars, NamesExist
<1> QED BY <1>1, <1>2, <1>3, <1>4, <1>5

LEMMA ConfigInvParse == ConfigInv /\ ParseNext => ConfigInv'
BY OuterLineInv, MethodInv, DirectiveInv DEF ParseNext

\* What follows the parser leaves its state alone but for the upstreams, to which
\* operator[] may add, and the outcome.
LEMMA ConfigInvStep == ConfigInv /\ [StartNext]_vars => ConfigInv'
<1> SUFFICES ASSUME ConfigInv, [StartNext]_vars PROVE ConfigInv'
  OBVIOUS
<1> USE DEF ConfigInv, ConfigTypeOK, NamesExist
<1>1. CASE Parse
  BY <1>1, ConfigInvParse DEF Parse
<1>2. ASSUME NEW l \in todo, NextLocation(l) PROVE ConfigInv'
  <2>1. CASE Fail
    BY <2>1 DEF Fail, cursorVars, stateVars, tableVars
  <2>2. CASE ~Fail
    <3>1. DOMAIN upstreams \subseteq DOMAIN upstreams'
      BY <1>2, <2>2 DEF NextLocation, Insert
    <3> QED BY <1>2, <2>2, <3>1 DEF NextLocation, cursorVars, stateVars
  <2> QED BY <2>1, <2>2
<1>3. CASE Construct
  BY <1>3 DEF Construct, Fail, cursorVars, stateVars, tableVars, parseVars
<1>4. CASE ConnectOne
  BY <1>4 DEF ConnectOne, Fail, cursorVars, stateVars, tableVars, parseVars
<1>5. CASE Ready \/ LocationDone \/ StartPool
  BY <1>5 DEF Ready, LocationDone, StartPool, parseVars
<1>6. CASE UNCHANGED vars
  BY <1>6 DEF vars
<1> QED BY <1>1, <1>2, <1>3, <1>4, <1>5, <1>6 DEF StartNext

\* The types of the parser's variables, for every file.
THEOREM ConfigTypes == StartSpec => []ConfigTypeOK
<1>1. StartInit => ConfigInv
  BY ConfigInvInit DEF StartInit
<1>2. ConfigInv => ConfigTypeOK
  BY DEF ConfigInv
<1> QED BY <1>1, <1>2, ConfigInvStep, PTL DEF StartSpec

\* config.h:205 and 243 write into the block whose header was read last: for
\* every file, accepted or refused, it is one that this header has made.
THEOREM ParserNamesExist == StartSpec => []NamesExist
<1>1. StartInit => ConfigInv
  BY ConfigInvInit DEF StartInit
<1>2. ConfigInv => NamesExist
  BY DEF ConfigInv
<1> QED BY <1>1, <1>2, ConfigInvStep, PTL DEF StartSpec

--------------------------------------------------------------------------------
(* What the first lines of a file say *)

LEMMA LeastElement ==
    ASSUME NEW T \in SUBSET Nat, T # {}
    PROVE  \E n \in T : \A m \in T : n <= m
<1>1. \E n \in T : \A m \in T : ~(<<m, n>> \in OpToRel(<, Nat))
  BY WFMin, NatLessThanWellFounded, Zenon
<1>2. PICK n \in T : \A m \in T : ~(<<m, n>> \in OpToRel(<, Nat))
  BY <1>1
<1>3. \A m \in T : ~(m < n)
  BY <1>2 DEF OpToRel
<1>4. \A m \in T : n <= m
  BY <1>3
<1> QED BY <1>4

\* Files, or parts of a file.
Texts == Seq(Seq(STRING))

LEMMA TrimType == ASSUME NEW line \in Seq(STRING) PROVE Trim(line) \in Seq(STRING)
<1> DEFINE I == {i \in 1 .. Len(line) : line[i] \in CommentSigns}
<1>1. CASE I = {}
  <2>1. SelectInSeq(line, LAMBDA w : w \in CommentSigns) = 0
    BY <1>1 DEF SelectInSeq
  <2> QED BY <2>1 DEF Trim
<1>2. CASE I # {}
  <2>1. SelectInSeq(line, LAMBDA w : w \in CommentSigns) = Min(I)
    BY <1>2 DEF SelectInSeq
  <2>0. I \in SUBSET Nat /\ \A i \in I : i \in 1 .. Len(line)
    OBVIOUS
  <2> HIDE DEF I
  <2>2. \E n \in I : \A m \in I : n <= m
    BY <1>2, <2>0, LeastElement
  <2>3. Min(I) \in I
    BY <2>2 DEF Min
  <2>4. Min(I) \in 1 .. Len(line)
    BY <2>0, <2>3
  <2>5. SubSeq(line, 1, Min(I) - 1) \in Seq(STRING)
    BY <2>4
  <2>6. Trim(line) = SubSeq(line, 1, Min(I) - 1)
    <3>1. Min(I) # 0
      BY <2>4
    <3> QED BY <2>1, <3>1, Zenon DEF Trim
  <2> QED BY <2>5, <2>6
<1> QED BY <1>1, <1>2

LEMMA LastOfMember ==
    ASSUME NEW n \in Nat, NEW S \in SUBSET (0 .. n), S # {}
    PROVE  LastOf(S) \in S /\ \A i \in S : i <= LastOf(S)
<1> DEFINE T == {n - i : i \in S}
<1>1. T \subseteq Nat /\ T # {} /\ \A t \in T : \E i \in S : t = n - i
  <2>1. \A t \in T : t \in Nat
    OBVIOUS
  <2>2. PICK i \in S : TRUE
    OBVIOUS
  <2>3. n - i \in T
    OBVIOUS
  <2> QED BY <2>1, <2>3
<1>1a. \A i \in S : n - i \in T
  OBVIOUS
<1> HIDE DEF T
<1>2. PICK t \in T : \A m \in T : t <= m
  BY <1>1, LeastElement
<1>3. PICK k \in S : t = n - k
  BY <1>1
<1>4. \A i \in S : i <= k
  BY <1>1a, <1>2, <1>3
<1> QED BY <1>3, <1>4 DEF LastOf

LEMMA LastOfAdded ==
    ASSUME NEW n \in Nat, NEW S \in SUBSET (0 .. n)
    PROVE  LastOf(S \cup {n + 1}) = n + 1
<1> DEFINE T == S \cup {n + 1}
<1>1. T \in SUBSET (0 .. n + 1) /\ T # {} /\ n + 1 \in T
  OBVIOUS
<1>2. \A i \in T : i <= n \/ i = n + 1
  OBVIOUS
<1> HIDE DEF T
<1>3. n + 1 \in Nat
  OBVIOUS
<1>4. LastOf(T) \in T /\ \A i \in T : i <= LastOf(T)
  BY <1>1, <1>3, LastOfMember
<1>5. \A k \in T : (\A i \in T : i <= k) => k = n + 1
  BY <1>1, <1>2
<1>6. LastOf(T) = n + 1
  BY <1>4, <1>5
<1> QED BY <1>6 DEF T

--------------------------------------------------------------------------------
(* What one more line l changes in what the lines ls say. *)

More(ls, l) == Append(ls, l)

\* What the old lines say stays as it is.
LEMMA OldLines ==
    ASSUME NEW ls \in Texts, NEW l \in Seq(STRING)
    PROVE  /\ More(ls, l) \in Texts /\ Len(ls) \in Nat
           /\ DOMAIN ls = 1 .. Len(ls) /\ DOMAIN More(ls, l) = 1 .. Len(ls) + 1
           /\ Len(More(ls, l)) = Len(ls) + 1
           /\ More(ls, l)[Len(ls) + 1] = l
           /\ First(More(ls, l), Len(ls) + 1) = Word(l, NoWord)
           /\ Value(More(ls, l), Len(ls) + 1) = Word(Rest(l), NoWord)
           /\ \A i \in 1 .. Len(ls) : /\ More(ls, l)[i] = ls[i]
                                      /\ First(More(ls, l), i) = First(ls, i)
                                      /\ Value(More(ls, l), i) = Value(ls, i)
<1> DEFINE S == Seq(STRING)
<1>1. ls \in Seq(S) /\ l \in S
  BY DEF Texts
<1> HIDE DEF S
<1>2. /\ Append(ls, l) \in Seq(S) /\ Len(ls) \in Nat /\ DOMAIN ls = 1 .. Len(ls)
      /\ DOMAIN Append(ls, l) = 1 .. Len(ls) + 1 /\ Len(Append(ls, l)) = Len(ls) + 1
  BY <1>1
<1>3. /\ Append(ls, l)[Len(ls) + 1] = l
      /\ \A i \in 1 .. Len(ls) : Append(ls, l)[i] = ls[i]
  BY <1>1
<1> QED BY <1>2, <1>3 DEF More, First, Value, Texts, S

LEMMA LinesOfMore ==
    ASSUME NEW ls \in Texts, NEW l \in Seq(STRING), NEW w
    PROVE  /\ LinesOf(ls, w) \subseteq 1 .. Len(ls)
           /\ LinesOf(More(ls, l), w) = IF Word(l, NoWord) = w THEN LinesOf(ls, w) \cup {Len(ls) + 1}
                                                           ELSE LinesOf(ls, w)
<1> DEFINE n == Len(ls)
<1>1. /\ n \in Nat /\ DOMAIN ls = 1 .. n /\ DOMAIN More(ls, l) = 1 .. n + 1
      /\ First(More(ls, l), n + 1) = Word(l, NoWord)
      /\ \A i \in 1 .. n : First(More(ls, l), i) = First(ls, i)
  BY OldLines
<1> HIDE DEF n
<1>2. \A i : i \in 1 .. n + 1 <=> i \in 1 .. n \/ i = n + 1
  BY <1>1
<1>3. LinesOf(ls, w) = {i \in 1 .. n : First(ls, i) = w}
  BY <1>1 DEF LinesOf
<1>4. LinesOf(More(ls, l), w) = {i \in 1 .. n + 1 : First(More(ls, l), i) = w}
  BY <1>1 DEF LinesOf
<1> QED BY <1>1, <1>2, <1>3, <1>4 DEF n

LEMMA LinesWithMore ==
    ASSUME NEW ls \in Texts, NEW l \in Seq(STRING), NEW w
    PROVE  /\ LinesWith(ls, w) \subseteq 1 .. Len(ls)
           /\ LinesWith(More(ls, l), w) = IF Contains(l, w) THEN LinesWith(ls, w) \cup {Len(ls) + 1}
                                                            ELSE LinesWith(ls, w)
<1> DEFINE n == Len(ls)
<1>1. /\ n \in Nat /\ DOMAIN ls = 1 .. n /\ DOMAIN More(ls, l) = 1 .. n + 1
      /\ More(ls, l)[n + 1] = l
      /\ \A i \in 1 .. n : More(ls, l)[i] = ls[i]
  BY OldLines
<1> HIDE DEF n
<1>2. \A i : i \in 1 .. n + 1 <=> i \in 1 .. n \/ i = n + 1
  BY <1>1
<1>3. LinesWith(ls, w) = {i \in 1 .. n : Contains(ls[i], w)}
  BY <1>1 DEF LinesWith
<1>4. LinesWith(More(ls, l), w) = {i \in 1 .. n + 1 : Contains(More(ls, l)[i], w)}
  BY <1>1 DEF LinesWith
<1> QED BY <1>1, <1>2, <1>3, <1>4 DEF n

\* The words whose lines Mark looks for.
Marking == {"location", "upstream", RightBrace}

\* The mark of a line is fixed when the lines before it are.
LEMMA MarkMore ==
    ASSUME NEW ls \in Texts, NEW l \in Seq(STRING)
    PROVE  /\ \A i \in 1 .. Len(ls) + 1 : /\ Mark(ls, i) \in 0 .. i - 1
                                          /\ Mark(More(ls, l), i) = Mark(ls, i)
           /\ Mark(More(ls, l), Len(ls) + 2) = IF Word(l, NoWord) \in Marking
                                               THEN Len(ls) + 1 ELSE Mark(ls, Len(ls) + 1)
<1> DEFINE n == Len(ls)
           m == More(ls, l)
           Marks(t, i) == {j \in 1 .. i - 1 : First(t, j) \in Marking}
<1>0. /\ n \in Nat /\ First(m, n + 1) = Word(l, NoWord)
      /\ \A i \in 1 .. n : First(m, i) = First(ls, i)
  BY OldLines
<1> HIDE DEF n, m
<1>1. ASSUME NEW i \in 1 .. n + 1
      PROVE  Mark(ls, i) \in 0 .. i - 1 /\ Mark(m, i) = Mark(ls, i)
  <2>1. i - 1 \in Nat /\ {0} \cup Marks(ls, i) \in SUBSET (0 .. i - 1)
    BY <1>0
  <2>2. Marks(m, i) = Marks(ls, i)
    <3>1. \A j \in 1 .. i - 1 : First(m, j) = First(ls, j)
      BY <1>0
    <3> QED BY <3>1
  <2>3. LastOf({0} \cup Marks(ls, i)) \in 0 .. i - 1
    <3> DEFINE S == {0} \cup Marks(ls, i)
    <3>1. S \in SUBSET (0 .. i - 1) /\ S # {}
      BY <2>1
    <3> HIDE DEF S
    <3>2. LastOf(S) \in S
      BY <2>1, <3>1, LastOfMember
    <3> QED BY <3>1, <3>2 DEF S
  <2> QED BY <2>2, <2>3 DEF Mark, Marking
<1>2. CASE Word(l, NoWord) \in Marking
  <2> DEFINE S == {0} \cup Marks(ls, n + 1)
  <2>1. S \in SUBSET (0 .. n)
    BY <1>0
  <2>2. {0} \cup Marks(m, n + 2) = S \cup {n + 1}
    <3>1. \A j \in 1 .. n + 1 : First(m, j) \in Marking <=> j = n + 1 \/ First(ls, j) \in Marking
      BY <1>0, <1>2
    <3>2. \A j : j \in 1 .. (n + 2) - 1 <=> j \in 1 .. (n + 1) - 1 \/ j = n + 1
      BY <1>0
    <3> QED BY <1>0, <3>1, <3>2
  <2>3. LastOf(S \cup {n + 1}) = n + 1
    <3> HIDE DEF S
    <3> QED BY <1>0, <2>1, LastOfAdded
  <2>4. LastOf({0} \cup Marks(m, n + 2)) = n + 1
    <3> HIDE DEF S, Marks
    <3> QED BY <2>2, <2>3
  <2>5. Mark(m, n + 2) = n + 1
    BY <2>4 DEF Mark, Marking
  <2> QED BY <1>1, <1>2, <2>5 DEF n, m
<1>3. CASE Word(l, NoWord) \notin Marking
  <2>1. Marks(m, n + 2) = Marks(ls, n + 1)
    <3>1. \A j : j \in 1 .. (n + 2) - 1 <=> j \in 1 .. (n + 1) - 1 \/ j = n + 1
      BY <1>0
    <3> QED BY <1>0, <1>3, <3>1
  <2>2. Mark(m, n + 2) = Mark(ls, n + 1)
    BY <2>1 DEF Mark, Marking
  <2> QED BY <1>1, <1>3, <2>2 DEF n, m
<1> QED BY <1>2, <1>3

\* A line more, and the places of the others.
LEMMA CardAdded ==
    ASSUME NEW n \in Nat, NEW S \in SUBSET (1 .. n)
    PROVE  /\ IsFiniteSet(S) /\ Cardinality(S) \in Nat
           /\ Cardinality(S \cup {n + 1}) = Cardinality(S) + 1
<1>1. IsFiniteSet(1 .. n)
  BY FS_Interval
<1>2. IsFiniteSet(S)
  BY <1>1, FS_Subset
<1>3. n + 1 \notin S
  OBVIOUS
<1> QED BY <1>2, <1>3, FS_CardinalityType, FS_AddElement

LEMMA PlaceAdded ==
    ASSUME NEW n \in Nat, NEW S \in SUBSET (1 .. n)
    PROVE  /\ \A i \in S : /\ Place(S, i) \in 1 .. Cardinality(S)
                           /\ Place(S \cup {n + 1}, i) = Place(S, i)
           /\ Place(S \cup {n + 1}, n + 1) = Cardinality(S) + 1
<1>1. IsFiniteSet(S) /\ Cardinality(S) \in Nat /\ Cardinality(S \cup {n + 1}) = Cardinality(S) + 1
  BY CardAdded
<1>2. ASSUME NEW i \in S
      PROVE  Place(S, i) \in 1 .. Cardinality(S) /\ Place(S \cup {n + 1}, i) = Place(S, i)
  <2> DEFINE T == {j \in S : j <= i}
  <2>1. T \in SUBSET S /\ i \in T
    OBVIOUS
  <2>2. {j \in S \cup {n + 1} : j <= i} = T
    OBVIOUS
  <2> HIDE DEF T
  <2>3. IsFiniteSet(T) /\ Cardinality(T) <= Cardinality(S)
    BY <1>1, <2>1, FS_Subset
  <2>4. Cardinality(T) \in Nat /\ Cardinality(T) # 0
    BY <2>1, <2>3, FS_CardinalityType, FS_EmptySet
  <2>5. Place(S, i) = Cardinality(T) /\ Place(S \cup {n + 1}, i) = Cardinality(T)
    BY <2>2 DEF Place, T
  <2> QED BY <1>1, <2>3, <2>4, <2>5
<1>3. {j \in S \cup {n + 1} : j <= n + 1} = S \cup {n + 1}
  <2>1. \A j \in S \cup {n + 1} : j <= n + 1
    OBVIOUS
  <2> QED BY <2>1
<1>4. Place(S \cup {n + 1}, n + 1) = Cardinality(S) + 1
  BY <1>1, <1>3 DEF Place
<1> QED BY <1>2, <1>4

\* A list that follows some lines goes on with the server on the next one.
LEMMA ListsMore ==
    ASSUME NEW ls \in Texts, NEW l \in Seq(STRING), NEW S \in SUBSET (1 .. Len(ls)),
           NEW E, NEW list \in Seq(E),
           ListsServers(list, ls, S)
    PROVE  /\ ListsServers(list, More(ls, l), S)
           /\ Endpoint[Word(Rest(l), NoWord)] \in E =>
                 ListsServers(Append(list, Endpoint[Word(Rest(l), NoWord)]), More(ls, l), S \cup {Len(ls) + 1})
<1> DEFINE n == Len(ls)
           m == More(ls, l)
           e == Endpoint[Word(Rest(l), NoWord)]
           T == S \cup {n + 1}
<1>1. n \in Nat /\ Value(m, n + 1) = Word(Rest(l), NoWord) /\ \A i \in 1 .. n : Value(m, i) = Value(ls, i)
  BY OldLines
<1>2. /\ \A i \in S : Place(S, i) \in 1 .. Cardinality(S) /\ Place(T, i) = Place(S, i)
      /\ Place(T, n + 1) = Cardinality(S) + 1
  BY <1>1, PlaceAdded
<1>3. Cardinality(S) \in Nat /\ Cardinality(T) = Cardinality(S) + 1
  BY <1>1, CardAdded
<1>4. Endpoint[Value(m, n + 1)] = e
  BY <1>1
<1>5. \A i \in T : i \in S \/ i = n + 1
  OBVIOUS
<1>6. S \subseteq 1 .. n
  OBVIOUS
<1> HIDE DEF n, m, e, T
<1>7. Len(list) = Cardinality(S) /\ \A i \in S : list[Place(S, i)] = Endpoint[Value(ls, i)]
  BY DEF ListsServers
<1>8. ListsServers(list, m, S)
  BY <1>1, <1>6, <1>7 DEF ListsServers
<1>9. ASSUME e \in E PROVE ListsServers(Append(list, e), m, T)
  <2>1. Len(Append(list, e)) = Cardinality(T)
    BY <1>3, <1>7, <1>9
  <2>2. \A k \in 1 .. Cardinality(S) : Append(list, e)[k] = list[k]
    BY <1>7, <1>9
  <2>3. Append(list, e)[Cardinality(S) + 1] = e
    BY <1>7, <1>9
  <2>4. \A i \in T : Append(list, e)[Place(T, i)] = Endpoint[Value(m, i)]
    BY <1>1, <1>2, <1>4, <1>5, <1>6, <1>7, <2>2, <2>3
  <2> QED BY <2>1, <2>4 DEF ListsServers
<1> QED BY <1>8, <1>9 DEF n, m, e, T

\* The last of some lines speaks: a line with a value takes over.
LEMMA SaidMore ==
    ASSUME NEW ls \in Texts, NEW l \in Seq(STRING), NEW S \in SUBSET (1 .. Len(ls))
    PROVE  /\ Said(More(ls, l), S) = Said(ls, S)
           /\ Said(More(ls, l), S \cup {Len(ls) + 1}) =
                 IF Len(l) > 1 THEN Word(Rest(l), NoWord) ELSE Said(ls, S)
<1> DEFINE n == Len(ls)
           m == More(ls, l)
           old == {i \in S : Len(ls[i]) > 1}
<1>1. /\ n \in Nat /\ Value(m, n + 1) = Word(Rest(l), NoWord) /\ m[n + 1] = l
      /\ \A i \in 1 .. n : Value(m, i) = Value(ls, i) /\ m[i] = ls[i]
  BY OldLines
<1>2. S \subseteq 1 .. n
  OBVIOUS
<1> HIDE DEF n, m
<1>3. {i \in S : Len(m[i]) > 1} = old
  BY <1>1, <1>2
<1>4. {i \in S \cup {n + 1} : Len(m[i]) > 1} = IF Len(l) > 1 THEN old \cup {n + 1} ELSE old
  BY <1>1, <1>2
<1>5. old \in SUBSET (0 .. n) /\ old \subseteq 1 .. n
  <2>1. old \subseteq S
    OBVIOUS
  <2> HIDE DEF old
  <2>2. \A i \in old : i \in 1 .. n /\ i \in 0 .. n
    BY <1>1, <1>2, <2>1
  <2> QED BY <2>2
<1> HIDE DEF old
<1>6. old # {} => LastOf(old) \in 1 .. n
  BY <1>1, <1>5, LastOfMember
<1>7. LastOf(old \cup {n + 1}) = n + 1
  BY <1>1, <1>5, LastOfAdded
<1>8. Said(ls, S) = IF old = {} THEN NoWord ELSE Value(ls, LastOf(old))
  BY DEF Said, old
<1>9. Said(m, S) = IF old = {} THEN NoWord ELSE Value(m, LastOf(old))
  BY <1>3 DEF Said
<1>10. Said(m, S) = Said(ls, S)
  BY <1>1, <1>6, <1>8, <1>9
<1>11. CASE Len(l) > 1
  <2>1. Said(m, S \cup {n + 1}) = Value(m, LastOf(old \cup {n + 1}))
    BY <1>4, <1>11 DEF Said
  <2> QED BY <1>1, <1>7, <1>10, <1>11, <2>1 DEF n, m
<1>12. CASE ~(Len(l) > 1)
  <2>1. Said(m, S \cup {n + 1}) = Said(m, S)
    BY <1>3, <1>4, <1>12 DEF Said
  <2> QED BY <1>10, <1>12, <2>1 DEF n, m
<1> QED BY <1>11, <1>12

\* The next line stands in a block called name.
Within(ls, block, name) == /\ Mark(ls, Len(ls) + 1) \in LinesOf(ls, block)
                           /\ Value(ls, Mark(ls, Len(ls) + 1)) = name

\* A line belongs to the block it stands in when it is read.
LEMMA LinesInMore ==
    ASSUME NEW ls \in Texts, NEW l \in Seq(STRING), NEW block, NEW name, NEW w
    PROVE  /\ LinesIn(ls, block, name, w) \subseteq 1 .. Len(ls)
           /\ LinesIn(More(ls, l), block, name, w) =
                 IF Word(l, NoWord) = w /\ Within(ls, block, name)
                 THEN LinesIn(ls, block, name, w) \cup {Len(ls) + 1} ELSE LinesIn(ls, block, name, w)
<1> DEFINE n == Len(ls)
           m == More(ls, l)
           In(t, i) == Mark(t, i) \in LinesOf(t, block) /\ Value(t, Mark(t, i)) = name
<1>1. n \in Nat /\ \A i \in 1 .. n : Value(m, i) = Value(ls, i)
  BY OldLines
<1>2. \A i \in 1 .. n + 1 : Mark(ls, i) \in 0 .. i - 1 /\ Mark(m, i) = Mark(ls, i)
  BY MarkMore
<1>3. /\ LinesOf(ls, w) \subseteq 1 .. n /\ LinesOf(ls, block) \subseteq 1 .. n
      /\ LinesOf(m, w) = IF Word(l, NoWord) = w THEN LinesOf(ls, w) \cup {n + 1} ELSE LinesOf(ls, w)
      /\ LinesOf(m, block) = LinesOf(ls, block) \/ LinesOf(m, block) = LinesOf(ls, block) \cup {n + 1}
  BY LinesOfMore
<1>4. /\ LinesIn(ls, block, name, w) = {i \in LinesOf(ls, w) : In(ls, i)}
      /\ LinesIn(m, block, name, w) = {i \in LinesOf(m, w) : In(m, i)}
      /\ Within(ls, block, name) <=> In(ls, n + 1)
  BY DEF LinesIn, Within
<1> HIDE DEF n, m
<1>5. \A i \in 1 .. n + 1 : In(m, i) <=> In(ls, i)
  <2> SUFFICES ASSUME NEW i \in 1 .. n + 1 PROVE In(m, i) <=> In(ls, i)
    OBVIOUS
  <2>1. Mark(m, i) = Mark(ls, i) /\ Mark(ls, i) # n + 1 /\ Mark(ls, i) \in 0 .. n
    BY <1>1, <1>2
  <2>2. Mark(ls, i) \in LinesOf(m, block) <=> Mark(ls, i) \in LinesOf(ls, block)
    BY <1>3, <2>1
  <2>3. Mark(ls, i) \in LinesOf(ls, block) => Value(m, Mark(ls, i)) = Value(ls, Mark(ls, i))
    BY <1>1, <1>3
  <2> QED BY <2>1, <2>2, <2>3
<1> HIDE DEF In
<1>6. \A i \in LinesOf(m, w) : i \in 1 .. n + 1
  BY <1>1, <1>3
<1>7. {i \in LinesOf(m, w) : In(m, i)} = {i \in LinesOf(m, w) : In(ls, i)}
  BY <1>5, <1>6
<1> QED BY <1>3, <1>4, <1>7 DEF n, m

LEMMA NamedMore ==
    ASSUME NEW ls \in Texts, NEW l \in Seq(STRING), NEW block
    PROVE  Named(More(ls, l), block) =
              IF Word(l, NoWord) = block THEN Named(ls, block) \cup {Word(Rest(l), NoWord)} ELSE Named(ls, block)
<1> DEFINE n == Len(ls)
           m == More(ls, l)
<1>1. /\ n \in Nat /\ Value(m, n + 1) = Word(Rest(l), NoWord)
      /\ \A i \in 1 .. n : Value(m, i) = Value(ls, i)
  BY OldLines
<1>2. /\ LinesOf(ls, block) \subseteq 1 .. n
      /\ LinesOf(m, block) = IF Word(l, NoWord) = block THEN LinesOf(ls, block) \cup {n + 1} ELSE LinesOf(ls, block)
  BY LinesOfMore
<1> HIDE DEF n, m
<1>3. \A i \in LinesOf(ls, block) : Value(m, i) = Value(ls, i)
  BY <1>1, <1>2
<1>4. Named(ls, block) = {Value(m, i) : i \in LinesOf(ls, block)}
  BY <1>3 DEF Named
<1>5. Named(m, block) = {Value(m, i) : i \in LinesOf(m, block)}
  BY DEF Named
<1> QED BY <1>1, <1>2, <1>4, <1>5 DEF m

LEMMA ToldNumberMore ==
    ASSUME NEW ls \in Texts, NEW l \in Seq(STRING), NEW w
    PROVE  ToldNumber(More(ls, l), w) =
              IF Word(l, NoWord) = w THEN Number[Word(Rest(l), NoWord)] ELSE ToldNumber(ls, w)
<1> DEFINE n == Len(ls)
           m == More(ls, l)
           S == LinesOf(ls, w)
<1>1. /\ n \in Nat /\ Value(m, n + 1) = Word(Rest(l), NoWord)
      /\ \A i \in 1 .. n : Value(m, i) = Value(ls, i)
  BY OldLines
<1>2. /\ S \subseteq 1 .. n
      /\ LinesOf(m, w) = IF Word(l, NoWord) = w THEN S \cup {n + 1} ELSE S
  BY LinesOfMore
<1> HIDE DEF n, m, S
<1>3. S \in SUBSET (0 .. n)
  BY <1>1, <1>2
<1>4. S # {} => LastOf(S) \in 1 .. n
  BY <1>1, <1>2, <1>3, LastOfMember
<1>5. LastOf(S \cup {n + 1}) = n + 1
  BY <1>1, <1>3, LastOfAdded
<1>6. ToldNumber(ls, w) = IF S = {} THEN Unset ELSE Number[Value(ls, LastOf(S))]
  BY DEF ToldNumber, S
<1>7. CASE Word(l, NoWord) = w
  <2>1. LinesOf(m, w) = S \cup {n + 1} /\ LinesOf(m, w) # {}
    BY <1>2, <1>7
  <2>2. ToldNumber(m, w) = Number[Value(m, LastOf(S \cup {n + 1}))]
    BY <2>1 DEF ToldNumber
  <2> QED BY <1>1, <1>5, <1>7, <2>2 DEF m
<1>8. CASE Word(l, NoWord) # w
  <2>1. ToldNumber(m, w) = IF S = {} THEN Unset ELSE Number[Value(m, LastOf(S))]
    BY <1>2, <1>8 DEF ToldNumber
  <2> QED BY <1>1, <1>4, <1>6, <1>8, <2>1 DEF m
<1> QED BY <1>7, <1>8

\* The next line stands in an upstream; as the next line, l opens a block.
InUpstream(ls) == Mark(ls, Len(ls) + 1) \in LinesOf(ls, "upstream")
OpensBlock(ls, l) == \/ Word(l, NoWord) \in {"location", "upstream"}
                     \/ Word(l, NoWord) = "server" /\ ~InUpstream(ls)

\* Depth and Waiting count up with headers, down with brackets.
LEMMA HeaderLinesMore ==
    ASSUME NEW ls \in Texts, NEW l \in Seq(STRING)
    PROVE  /\ HeaderLines(ls) \subseteq 1 .. Len(ls)
           /\ HeaderLines(More(ls, l)) = IF OpensBlock(ls, l) THEN HeaderLines(ls) \cup {Len(ls) + 1}
                                                              ELSE HeaderLines(ls)
<1> DEFINE n == Len(ls)
           m == More(ls, l)
           up1 == LinesOf(ls, "upstream")
           up2 == LinesOf(m, "upstream")
           sv1 == LinesOf(ls, "server")
           sv2 == LinesOf(m, "server")
           lo1 == LinesOf(ls, "location")
           lo2 == LinesOf(m, "location")
           f   == Word(l, NoWord)
<1>1. n \in Nat
  BY OldLines
<1>2. \A i \in 1 .. n + 1 : Mark(ls, i) \in 0 .. i - 1 /\ Mark(m, i) = Mark(ls, i)
  BY MarkMore
<1>3. /\ up1 \subseteq 1 .. n /\ up2 = IF f = "upstream" THEN up1 \cup {n + 1} ELSE up1
      /\ sv1 \subseteq 1 .. n /\ sv2 = IF f = "server" THEN sv1 \cup {n + 1} ELSE sv1
      /\ lo1 \subseteq 1 .. n /\ lo2 = IF f = "location" THEN lo1 \cup {n + 1} ELSE lo1
  BY LinesOfMore
<1>4. /\ HeaderLines(ls) = lo1 \cup up1 \cup {i \in sv1 : Mark(ls, i) \notin up1}
      /\ HeaderLines(m)  = lo2 \cup up2 \cup {i \in sv2 : Mark(m, i) \notin up2}
  BY DEF HeaderLines
<1>5. InUpstream(ls) <=> Mark(ls, n + 1) \in up1
  BY DEF InUpstream
<1> HIDE DEF n, m, up1, up2, sv1, sv2, lo1, lo2, f
<1>6. \A i \in 1 .. n + 1 : Mark(m, i) \in up2 <=> Mark(ls, i) \in up1
  <2> SUFFICES ASSUME NEW i \in 1 .. n + 1 PROVE Mark(m, i) \in up2 <=> Mark(ls, i) \in up1
    OBVIOUS
  <2>1. Mark(m, i) = Mark(ls, i) /\ Mark(ls, i) # n + 1
    BY <1>1, <1>2
  <2> QED BY <1>3, <2>1
<1>7. \A i \in sv2 : Mark(m, i) \in up2 <=> Mark(ls, i) \in up1
  BY <1>1, <1>3, <1>6
<1>8. HeaderLines(m) = lo2 \cup up2 \cup {i \in sv2 : Mark(ls, i) \notin up1}
  BY <1>4, <1>7
<1>9. HeaderLines(ls) \subseteq 1 .. n
  BY <1>3, <1>4
<1>10. OpensBlock(ls, l) <=> f \in {"location", "upstream"} \/ (f = "server" /\ Mark(ls, n + 1) \notin up1)
  BY DEF OpensBlock, f, InUpstream, up1, n
<1>11. CASE f = "location"
  <2>1. OpensBlock(ls, l)
    BY <1>10, <1>11
  <2>2. lo2 = lo1 \cup {n + 1} /\ up2 = up1 /\ sv2 = sv1
    BY <1>3, <1>11
  <2> QED BY <1>4, <1>8, <1>9, <2>1, <2>2 DEF n, m
<1>12. CASE f = "upstream"
  <2>1. OpensBlock(ls, l)
    BY <1>10, <1>12
  <2>2. lo2 = lo1 /\ up2 = up1 \cup {n + 1} /\ sv2 = sv1
    BY <1>3, <1>12
  <2> QED BY <1>4, <1>8, <1>9, <2>1, <2>2 DEF n, m
<1>13. CASE f = "server"
  <2>1. lo2 = lo1 /\ up2 = up1 /\ sv2 = sv1 \cup {n + 1}
    BY <1>3, <1>13
  <2>2. CASE Mark(ls, n + 1) \in up1
    <3>1. {i \in sv2 : Mark(ls, i) \notin up1} = {i \in sv1 : Mark(ls, i) \notin up1}
      BY <2>1, <2>2
    <3>2. ~OpensBlock(ls, l)
      BY <1>10, <1>13, <2>2
    <3> QED BY <1>4, <1>8, <1>9, <2>1, <3>1, <3>2 DEF n, m
  <2>3. CASE Mark(ls, n + 1) \notin up1
    <3>1. {i \in sv2 : Mark(ls, i) \notin up1} = {i \in sv1 : Mark(ls, i) \notin up1} \cup {n + 1}
      BY <2>1, <2>3
    <3>2. OpensBlock(ls, l)
      BY <1>10, <1>13, <2>3
    <3> QED BY <1>4, <1>8, <1>9, <2>1, <3>1, <3>2 DEF n, m
  <2> QED BY <2>2, <2>3
<1>14. CASE f \notin {"location", "upstream", "server"}
  <2>1. ~OpensBlock(ls, l)
    BY <1>10, <1>14
  <2>2. lo2 = lo1 /\ up2 = up1 /\ sv2 = sv1
    BY <1>3, <1>14
  <2> QED BY <1>4, <1>8, <1>9, <2>1, <2>2 DEF n, m
<1> QED BY <1>11, <1>12, <1>13, <1>14

LEMMA DepthMore ==
    ASSUME NEW ls \in Texts, NEW l \in Seq(STRING)
    PROVE  /\ Depth(ls) \in Int /\ Waiting(ls) \in Int
           /\ Depth(More(ls, l)) = Depth(ls) + (IF OpensBlock(ls, l) THEN 1 ELSE 0)
                                             - (IF Contains(l, RightBrace) THEN 1 ELSE 0)
           /\ Waiting(More(ls, l)) = Waiting(ls) + (IF OpensBlock(ls, l) THEN 1 ELSE 0)
                                                 - (IF Contains(l, LeftBrace) THEN 1 ELSE 0)
<1> DEFINE n == Len(ls)
           m == More(ls, l)
           H == HeaderLines(ls)
<1>1. n \in Nat
  BY OldLines
<1>2. H \subseteq 1 .. n /\ HeaderLines(m) = IF OpensBlock(ls, l) THEN H \cup {n + 1} ELSE H
  BY HeaderLinesMore
<1>3. \A w : /\ LinesWith(ls, w) \subseteq 1 .. n
             /\ LinesWith(m, w) = IF Contains(l, w) THEN LinesWith(ls, w) \cup {n + 1} ELSE LinesWith(ls, w)
  BY LinesWithMore
<1> HIDE DEF n, m, H
<1>4. ASSUME NEW S \in SUBSET (1 .. n)
      PROVE  Cardinality(S) \in Nat /\ Cardinality(S \cup {n + 1}) = Cardinality(S) + 1
  BY <1>1, CardAdded
<1>4a. H \in SUBSET (1 .. n)
  BY <1>2
<1>5. /\ Cardinality(H) \in Nat
      /\ Cardinality(HeaderLines(m)) = Cardinality(H) + (IF OpensBlock(ls, l) THEN 1 ELSE 0)
  <2>1. CASE OpensBlock(ls, l)
    BY <1>2, <1>4, <1>4a, <2>1
  <2>2. CASE ~OpensBlock(ls, l)
    <3>1. HeaderLines(m) = H
      BY <1>2, <2>2, Zenon
    <3>2. (IF OpensBlock(ls, l) THEN 1 ELSE 0) = 0
      BY <2>2, Zenon
    <3>3. Cardinality(H) \in Nat
      BY <1>4, <1>4a
    <3> DEFINE d == IF OpensBlock(ls, l) THEN 1 ELSE 0
    <3>4. d = 0
      BY <3>2
    <3> HIDE DEF d
    <3>5. Cardinality(H) \in Nat /\ Cardinality(HeaderLines(m)) = Cardinality(H) + d
      BY <3>1, <3>3, <3>4
    <3> QED BY <3>5 DEF d
  <2> QED BY <2>1, <2>2
<1>6. \A w : /\ Cardinality(LinesWith(ls, w)) \in Nat
             /\ Cardinality(LinesWith(m, w)) = Cardinality(LinesWith(ls, w)) + (IF Contains(l, w) THEN 1 ELSE 0)
  <2> SUFFICES ASSUME NEW w
               PROVE  /\ Cardinality(LinesWith(ls, w)) \in Nat
                      /\ Cardinality(LinesWith(m, w)) =
                            Cardinality(LinesWith(ls, w)) + (IF Contains(l, w) THEN 1 ELSE 0)
    OBVIOUS
  <2>1. LinesWith(ls, w) \in SUBSET (1 .. n)
    BY <1>3
  <2>2. CASE Contains(l, w)
    BY <1>3, <1>4, <2>1, <2>2
  <2>3. CASE ~Contains(l, w)
    <3>1. LinesWith(m, w) = LinesWith(ls, w)
      BY <1>3, <2>3, Zenon
    <3>2. Cardinality(LinesWith(ls, w)) \in Nat
      BY <1>4, <2>1
    <3>3. (IF Contains(l, w) THEN 1 ELSE 0) = 0
      BY <2>3, Zenon
    <3> DEFINE d == IF Contains(l, w) THEN 1 ELSE 0
    <3>4. d = 0
      BY <3>3
    <3> HIDE DEF d
    <3>5. /\ Cardinality(LinesWith(ls, w)) \in Nat
          /\ Cardinality(LinesWith(m, w)) = Cardinality(LinesWith(ls, w)) + d
      BY <3>1, <3>2, <3>4
    <3> QED BY <3>5 DEF d
  <2> QED BY <2>2, <2>3
<1> HIDE DEF H
<1> QED BY <1>5, <1>6 DEF Depth, Waiting, H, m

\* Nothing stands in a block that no line names, and no line says nothing.
LEMMA UnnamedBlock ==
    ASSUME NEW ls \in Texts, NEW block, NEW w, NEW name, name \notin Named(ls, block)
    PROVE  LinesIn(ls, block, name, w) = {}
BY DEF LinesIn, Named

LEMMA NothingSaid == ASSUME NEW ls PROVE Said(ls, {}) = NoWord /\ ListsServers(<<>>, ls, {})
<1>1. Said(ls, {}) = NoWord
  BY DEF Said
<1>2. Cardinality({}) = 0
  BY FS_EmptySet
<1> QED BY <1>1, <1>2 DEF ListsServers

\* The words with a part of their own are different.
LEMMA Words ==
    /\ LeftBrace # RightBrace /\ NoWord # LeftBrace /\ NoWord # RightBrace
    /\ {LeftBrace, RightBrace, NoWord}
          \cap {"threadNum", "queSize", "server", "upstream", "location", "listen",
                "server_name", "proxy_pass"} = {}
BY Zenon DEF LeftBrace, RightBrace, NoWord

LEMMA TextType ==
    ASSUME NEW f \in Texts
    PROVE  /\ Text(f) \in Texts /\ Len(Text(f)) = Len(f)
           /\ \A i \in 1 .. Len(f) : Text(f)[i] = Trim(f[i]) /\ Text(f)[i] \in Seq(STRING)
<1>1. DOMAIN f = 1 .. Len(f) /\ Len(f) \in Nat /\ \A i \in 1 .. Len(f) : f[i] \in Seq(STRING)
  BY DEF Texts
<1>2. \A i \in 1 .. Len(f) : Trim(f[i]) \in Seq(STRING)
  BY <1>1, TrimType
<1> DEFINE S == Seq(STRING)
<1>3. Text(f) \in [1 .. Len(f) -> S]
  BY <1>1, <1>2 DEF Text
<1> HIDE DEF S
<1>4. Text(f) \in Seq(S) /\ Len(Text(f)) = Len(f)
  BY <1>1, <1>3
<1> QED BY <1>1, <1>2, <1>4 DEF Text, Texts, S

\* The lines of a file, one after the other.
LEMMA Prefix ==
    ASSUME NEW t \in Texts
    PROVE  /\ Len(t) \in Nat
           /\ \A k \in 0 .. Len(t) : SubSeq(t, 1, k) \in Texts /\ Len(SubSeq(t, 1, k)) = k
           /\ SubSeq(t, 1, 0) = <<>> /\ SubSeq(t, 1, Len(t)) = t
           /\ \A k \in 0 .. Len(t) - 1 : /\ t[k + 1] \in Seq(STRING)
                                         /\ SubSeq(t, 1, k + 1) = More(SubSeq(t, 1, k), t[k + 1])
<1> DEFINE S == Seq(STRING)
<1>1. t \in Seq(S)
  BY DEF Texts
<1> HIDE DEF S
<1>2. Len(t) \in Nat /\ \A k \in 0 .. Len(t) : SubSeq(t, 1, k) \in Seq(S) /\ Len(SubSeq(t, 1, k)) = k
  BY <1>1
<1>3. SubSeq(t, 1, 0) = <<>> /\ SubSeq(t, 1, Len(t)) = t
  BY <1>1
<1>4. ASSUME NEW k \in 0 .. Len(t) - 1
      PROVE  t[k + 1] \in S /\ SubSeq(t, 1, k + 1) = Append(SubSeq(t, 1, k), t[k + 1])
  <2>1. t[k + 1] \in S /\ k \in Nat /\ k + 1 \in Nat
    BY <1>1
  <2>2. SubSeq(t, 1, k + 1) \in Seq(S) /\ Len(SubSeq(t, 1, k + 1)) = k + 1
    BY <1>2
  <2>3. Append(SubSeq(t, 1, k), t[k + 1]) \in Seq(S) /\ Len(Append(SubSeq(t, 1, k), t[k + 1])) = k + 1
    BY <1>2, <2>1
  <2>4. \A i \in 1 .. k + 1 : SubSeq(t, 1, k + 1)[i] = t[i]
    BY <1>1, <2>1
  <2>5. \A i \in 1 .. k + 1 : Append(SubSeq(t, 1, k), t[k + 1])[i] = t[i]
    BY <1>1, <1>2, <2>1
  <2> QED BY <2>1, <2>2, <2>3, <2>4, <2>5, SeqEqual
<1> QED BY <1>2, <1>3, <1>4 DEF More, Texts, S

\* The words that are left on a line do nothing.
Quiet(words) == \A k \in 1 .. Len(words) : words[k] \notin Special

\* On a plain line only the first word counts, and the bracket of a header.
LEMMA PlainLine ==
    ASSUME NEW l \in Seq(STRING), IsPlain(l), l # <<>>
    PROVE  /\ Head(l) \notin {"server", "location", "upstream"} => Quiet(Tail(l))
           /\ Head(l) = "server" /\ Word(Tail(l), NoWord) # LeftBrace => Quiet(Tail(l))
           /\ Contains(l, RightBrace) <=> Head(l) = RightBrace
           /\ Contains(l, LeftBrace) <=>
                 \/ Head(l) = LeftBrace
                 \/ Head(l) = "server" /\ Word(Tail(l), NoWord) = LeftBrace
                 \/ Head(l) \in {"location", "upstream"} /\ Word(Rest(Tail(l)), NoWord) = LeftBrace
<1> DEFINE n == Len(l)
<1>1. n \in Nat \ {0} /\ Head(l) = l[1] /\ Tail(l) \in Seq(STRING) /\ Len(Tail(l)) = n - 1
      /\ \A k \in 1 .. n - 1 : Tail(l)[k] = l[k + 1]
  OBVIOUS
<1>2. Word(Tail(l), NoWord) = IF n = 1 THEN NoWord ELSE l[2]
  BY <1>1 DEF Word
<1>3. Word(Rest(Tail(l)), NoWord) = IF n <= 2 THEN NoWord ELSE l[3]
  BY <1>1 DEF Word, Rest
<1>4. \A k \in 2 .. n :
        l[k] \in Special =>
            /\ l[1] \in {"server", "location", "upstream"}
            /\ l[1] = "server" => l[2] = LeftBrace /\ (k > 2 => l[k] \notin {LeftBrace, RightBrace})
            /\ l[1] # "server" => l[3] = LeftBrace /\ k >= 3
                                  /\ (k > 3 => l[k] \notin {LeftBrace, RightBrace})
  BY <1>1 DEF IsPlain, BracketPlace
<1>5. LeftBrace \in Special /\ RightBrace \in Special
  BY DEF Special
<1>6. LeftBrace # RightBrace /\ NoWord # LeftBrace
      /\ {LeftBrace, RightBrace} \cap {"server", "upstream", "location"} = {}
  BY Words
<1>7. \A w : Contains(l, w) <=> \E k \in 1 .. n : l[k] = w
  BY DEF Contains
<1> HIDE DEF n
<1>8. l[1] \notin {"server", "location", "upstream"} => Quiet(Tail(l))
  BY <1>1, <1>4 DEF Quiet
<1>9. l[1] = "server" /\ (n = 1 \/ l[2] # LeftBrace) => Quiet(Tail(l))
  BY <1>1, <1>4 DEF Quiet
<1>10. (\E k \in 1 .. n : l[k] = RightBrace) <=> l[1] = RightBrace
  BY <1>1, <1>4, <1>5, <1>6
<1>11. (\E k \in 1 .. n : l[k] = LeftBrace) <=>
          \/ l[1] = LeftBrace
          \/ l[1] = "server" /\ n # 1 /\ l[2] = LeftBrace
          \/ l[1] \in {"location", "upstream"} /\ n > 2 /\ l[3] = LeftBrace
  BY <1>1, <1>4, <1>5, <1>6
<1>12. Word(Tail(l), NoWord) = LeftBrace <=> n # 1 /\ l[2] = LeftBrace
  BY <1>1, <1>2, <1>6
<1>13. Word(Rest(Tail(l)), NoWord) = LeftBrace <=> n > 2 /\ l[3] = LeftBrace
  BY <1>1, <1>3, <1>6
<1>14. Contains(l, RightBrace) <=> Head(l) = RightBrace
  BY <1>1, <1>7, <1>10, Zenon
<1>15. Contains(l, LeftBrace) <=>
                 \/ Head(l) = LeftBrace
                 \/ Head(l) = "server" /\ Word(Tail(l), NoWord) = LeftBrace
                 \/ Head(l) \in {"location", "upstream"} /\ Word(Rest(Tail(l)), NoWord) = LeftBrace
  BY <1>1, <1>7, <1>11, <1>12, <1>13, Zenon
<1>16. Head(l) = "server" /\ Word(Tail(l), NoWord) # LeftBrace => Quiet(Tail(l))
  BY <1>1, <1>9, <1>12
<1> QED BY <1>1, <1>8, <1>14, <1>15, <1>16, Zenon

LEMMA DepthAfter ==
    ASSUME NEW ls \in Texts, NEW l \in Seq(STRING),
           NEW o \in {0, 1}, NEW r \in {0, 1}, NEW b \in {0, 1},
           OpensBlock(ls, l) <=> o = 1, Contains(l, RightBrace) <=> r = 1, Contains(l, LeftBrace) <=> b = 1
    PROVE  /\ Depth(ls) \in Int /\ Waiting(ls) \in Int
           /\ Depth(More(ls, l)) = Depth(ls) + o - r /\ Waiting(More(ls, l)) = Waiting(ls) + o - b
<1>1. (IF OpensBlock(ls, l) THEN 1 ELSE 0) = o
  <2>1. CASE o = 1
    BY <2>1, Zenon
  <2>2. CASE o = 0
    <3>1. o # 1
      BY <2>2
    <3> QED BY <2>2, <3>1, Zenon
  <2> QED BY <2>1, <2>2
<1>2. (IF Contains(l, RightBrace) THEN 1 ELSE 0) = r
  <2>1. CASE r = 1
    BY <2>1, Zenon
  <2>2. CASE r = 0
    <3>1. r # 1
      BY <2>2
    <3> QED BY <2>2, <3>1, Zenon
  <2> QED BY <2>1, <2>2
<1>3. (IF Contains(l, LeftBrace) THEN 1 ELSE 0) = b
  <2>1. CASE b = 1
    BY <2>1, Zenon
  <2>2. CASE b = 0
    <3>1. b # 1
      BY <2>2
    <3> QED BY <2>2, <3>1, Zenon
  <2> QED BY <2>1, <2>2
<1> QED BY <1>1, <1>2, <1>3, DepthMore, Zenon

(* The invariant of the parser. *)

\* ls are the lines that have been handled: between two lines those that were read,
\* while a method has a line before it all others, and all again once nothing that
\* the method knows is left on it.
ReadTo(ls) ==
    \/ reading = "parse" /\ iss = <<>> /\ ls = SubSeq(Lines, 1, lineno)
    \/ /\ reading \in Blocks /\ reading = checkState
       /\ lineno > 0 /\ iss = Lines[lineno] /\ iss # <<>> /\ ls = SubSeq(Lines, 1, lineno - 1)
    \/ reading \in Blocks /\ iss \in Seq(STRING) /\ Quiet(iss) /\ ls = SubSeq(Lines, 1, lineno)

\* The block the parser is in is the one these lines leave open.
Stands(ls) ==
    /\ Depth(ls) = IF checkState = "BEGAIN" THEN 0 ELSE IF checkState = "LOCATION" THEN 2 ELSE 1
    /\ Waiting(ls) = IF checkState = "BEGAIN" THEN 0 ELSE IF bracket[checkState] THEN 0 ELSE 1
    /\ \A b \in Blocks : bracket[b] => b = checkState \/ (b = "SERVER" /\ checkState = "LOCATION")
    /\ checkState = "LOCATION" => bracket["SERVER"]

\* Its name is the one on the header that was read last.
Marks(ls) ==
    /\ checkState = "LOCATION" => Within(ls, "location", curLocation)
    /\ checkState = "UPSTREAM" => Within(ls, "upstream", curUpstream)
    /\ checkState \in {"BEGAIN", "SERVER"} =>
          Mark(ls, Len(ls) + 1) \notin LinesOf(ls, "location") \cup LinesOf(ls, "upstream")

\* The tables hold what these lines say.  Of the upstreams more is needed than the
\* property says: each endpoint stands on a line.
SettingsTold(ls) ==
    /\ threadNum = ToldNumber(ls, "threadNum") /\ queSize = ToldNumber(ls, "queSize")
    /\ server.listen = ToldNumber(ls, "listen")
    /\ server.server_name = Said(ls, LinesOf(ls, "server_name"))
LocationsTold(ls) == server.locations = [name \in Named(ls, "location") |-> ToldPass(ls, name)]
Ends == {Endpoint[w] : w \in DOMAIN Endpoint}
UpstreamsTold(ls) ==
    /\ Named(ls, "upstream") \subseteq DOMAIN upstreams
    /\ \A name \in DOMAIN upstreams :
          /\ upstreams[name] \in Seq(Ends)
          /\ ListsServers(upstreams[name], ls, ToldServers(ls, name))
          /\ \A k \in 1 .. Len(upstreams[name]) : \E i \in LinesOf(ls, "server") :
                Value(ls, i) \in DOMAIN Endpoint /\ upstreams[name][k] = Endpoint[Value(ls, i)]
Tells(ls) == SettingsTold(ls) /\ LocationsTold(ls) /\ UpstreamsTold(ls)

Follows(ls) == Stands(ls) /\ Marks(ls) /\ Tells(ls)

\* At every moment the state follows from some of the file's lines, the first ones.
ParseInv ==
    Plain(Lines) /\ outcome = "parsing" /\ lineState = "LINE_OK" =>
        \E ls \in Prefixes(Lines) : ReadTo(ls) /\ Follows(ls)

\* When the file is accepted, from all of them.
ParsedInv ==
    Plain(Lines) /\ outcome = "parsed" => Depth(Lines) = 0 /\ Waiting(Lines) = 0 /\ Tells(Lines)

--------------------------------------------------------------------------------
(* One step of the parser: the first lines and one more *)

LEMMA UpstreamsKept ==
    ASSUME NEW ls \in Texts, NEW l \in Seq(STRING), UpstreamsTold(ls),
           UNCHANGED upstreams, Word(l, NoWord) # "upstream",
           Word(l, NoWord) = "server" => ~InUpstream(ls)
    PROVE  UpstreamsTold(More(ls, l))'
<1> DEFINE m == More(ls, l)
<1>1. Named(m, "upstream") = Named(ls, "upstream")
  BY NamedMore, Zenon
<1>2. \A name : LinesIn(ls, "upstream", name, "server") \in SUBSET (1 .. Len(ls))
                /\ LinesIn(m, "upstream", name, "server") = LinesIn(ls, "upstream", name, "server")
  <2> SUFFICES ASSUME NEW name
               PROVE  /\ LinesIn(ls, "upstream", name, "server") \in SUBSET (1 .. Len(ls))
                      /\ LinesIn(m, "upstream", name, "server") = LinesIn(ls, "upstream", name, "server")
    OBVIOUS
  <2>1. ~(Word(l, NoWord) = "server" /\ Within(ls, "upstream", name))
    BY DEF Within, InUpstream
  <2>2. LinesIn(m, "upstream", name, "server") = LinesIn(ls, "upstream", name, "server")
    BY <2>1, LinesInMore DEF Within
  <2> QED BY <2>2, LinesInMore
<1>3. \A i \in LinesOf(ls, "server") : i \in LinesOf(m, "server") /\ Value(m, i) = Value(ls, i)
  BY OldLines, LinesOfMore
<1> HIDE DEF m
<1>4. ASSUME NEW name \in DOMAIN upstreams'
      PROVE  /\ upstreams'[name] \in Seq(Ends)
             /\ ListsServers(upstreams'[name], m, ToldServers(m, name))
             /\ \A k \in 1 .. Len(upstreams'[name]) : \E i \in LinesOf(m, "server") :
                        Value(m, i) \in DOMAIN Endpoint /\ upstreams'[name][k] = Endpoint[Value(m, i)]
  <2> DEFINE list == upstreams[name]
             told == LinesIn(ls, "upstream", name, "server")
  <2>1. /\ list \in Seq(Ends) /\ ListsServers(list, ls, told)
        /\ \A k \in 1 .. Len(list) : \E i \in LinesOf(ls, "server") :
                        Value(ls, i) \in DOMAIN Endpoint /\ list[k] = Endpoint[Value(ls, i)]
    BY DEF UpstreamsTold, ToldServers
  <2>2. upstreams'[name] = list /\ told \in SUBSET (1 .. Len(ls))
    BY <1>2
  <2> HIDE DEF list
  <2>3. ToldServers(m, name) = told
    BY <1>2 DEF ToldServers
  <2> HIDE DEF told
  <2>4. ListsServers(list, m, told)
    BY <2>1, <2>2, ListsMore DEF m
  <2> QED BY <1>3, <2>1, <2>2, <2>3, <2>4
<1>5. Named(m, "upstream") \subseteq DOMAIN upstreams'
  BY <1>1 DEF UpstreamsTold
<1> QED BY <1>4, <1>5 DEF UpstreamsTold, m

\* A header of an upstream: the first one makes it, without servers.
LEMMA UpstreamOpened ==
    ASSUME NEW ls \in Texts, NEW l \in Seq(STRING), UpstreamsTold(ls),
           Word(l, NoWord) = "upstream",
           upstreams' = Insert(upstreams, Word(Rest(l), NoWord), <<>>)
    PROVE  UpstreamsTold(More(ls, l))'
<1> DEFINE m == More(ls, l)
           v == Word(Rest(l), NoWord)
<1>1. Named(m, "upstream") = Named(ls, "upstream") \cup {v}
  BY NamedMore
<1>2. \A name : LinesIn(ls, "upstream", name, "server") \in SUBSET (1 .. Len(ls))
                /\ LinesIn(m, "upstream", name, "server") = LinesIn(ls, "upstream", name, "server")
  BY LinesInMore
<1>3. \A i \in LinesOf(ls, "server") : i \in LinesOf(m, "server") /\ Value(m, i) = Value(ls, i)
  BY OldLines, LinesOfMore
<1> HIDE DEF m, v
<1>4. /\ DOMAIN upstreams' = DOMAIN upstreams \cup {v}
      /\ \A name \in DOMAIN upstreams : upstreams'[name] = upstreams[name]
      /\ v \notin DOMAIN upstreams => upstreams'[v] = <<>>
  BY DEF Insert, v
<1>5. ASSUME NEW name \in DOMAIN upstreams'
      PROVE  /\ upstreams'[name] \in Seq(Ends)
             /\ ListsServers(upstreams'[name], m, ToldServers(m, name))
             /\ \A k \in 1 .. Len(upstreams'[name]) : \E i \in LinesOf(m, "server") :
                        Value(m, i) \in DOMAIN Endpoint /\ upstreams'[name][k] = Endpoint[Value(m, i)]
  <2>1. CASE name \in DOMAIN upstreams
    <3> DEFINE list == upstreams[name]
               told == LinesIn(ls, "upstream", name, "server")
    <3>1. /\ list \in Seq(Ends) /\ ListsServers(list, ls, told)
          /\ \A k \in 1 .. Len(list) : \E i \in LinesOf(ls, "server") :
                        Value(ls, i) \in DOMAIN Endpoint /\ list[k] = Endpoint[Value(ls, i)]
      BY <2>1 DEF UpstreamsTold, ToldServers
    <3>2. upstreams'[name] = list /\ told \in SUBSET (1 .. Len(ls))
      BY <1>2, <1>4, <2>1
    <3> HIDE DEF list
    <3>3. ToldServers(m, name) = told
      BY <1>2 DEF ToldServers
    <3> HIDE DEF told
    <3>4. ListsServers(list, m, told)
      BY <3>1, <3>2, ListsMore DEF m
    <3> QED BY <1>3, <3>1, <3>2, <3>3, <3>4
  <2>2. CASE name \notin DOMAIN upstreams
    <3>1. upstreams'[name] = <<>>
      BY <1>4, <2>2
    <3>2. name \notin Named(ls, "upstream")
      BY <2>2 DEF UpstreamsTold
    <3>3. ToldServers(m, name) = {}
      BY <1>2, <3>2, UnnamedBlock DEF ToldServers
    <3>4. ListsServers(<<>>, m, {})
      BY NothingSaid, Zenon
    <3>5. <<>> \in Seq(Ends) /\ \A k \in 1 .. Len(<<>>) : FALSE
      OBVIOUS
    <3> QED BY <3>1, <3>3, <3>4, <3>5
  <2> QED BY <2>1, <2>2
<1>6. Named(m, "upstream") \subseteq DOMAIN upstreams'
  BY <1>1, <1>4 DEF UpstreamsTold
<1> QED BY <1>5, <1>6 DEF UpstreamsTold, m

\* A line with a server: it comes last in its upstream and in no other.
LEMMA ServerTold ==
    ASSUME NEW ls \in Texts, NEW l \in Seq(STRING), UpstreamsTold(ls),
           Word(l, NoWord) = "server", Within(ls, "upstream", curUpstream),
           Word(Rest(l), NoWord) \in DOMAIN Endpoint,
           upstreams' = [upstreams EXCEPT ![curUpstream] = Append(@, Endpoint[Word(Rest(l), NoWord)])]
    PROVE  UpstreamsTold(More(ls, l))'
<1> DEFINE m == More(ls, l)
           v == Word(Rest(l), NoWord)
           e == Endpoint[v]
<1>1. Named(m, "upstream") = Named(ls, "upstream")
  BY NamedMore
<1>2. \A name : Within(ls, "upstream", name) <=> name = curUpstream
  BY DEF Within
<1>3. \A name :
         /\ LinesIn(ls, "upstream", name, "server") \in SUBSET (1 .. Len(ls))
         /\ name # curUpstream => LinesIn(m, "upstream", name, "server") = LinesIn(ls, "upstream", name, "server")
         /\ name = curUpstream =>
               LinesIn(m, "upstream", name, "server") = LinesIn(ls, "upstream", name, "server") \cup {Len(ls) + 1}
  BY <1>2, LinesInMore DEF Within
<1>4. /\ \A i \in LinesOf(ls, "server") : i \in LinesOf(m, "server") /\ Value(m, i) = Value(ls, i)
      /\ Len(ls) + 1 \in LinesOf(m, "server") /\ Value(m, Len(ls) + 1) = v
  BY OldLines, LinesOfMore
<1>5. e \in Ends
  BY DEF Ends
<1>6. v \in DOMAIN Endpoint
  OBVIOUS
<1> HIDE DEF m, v, e
<1>7. /\ DOMAIN upstreams' = DOMAIN upstreams
      /\ \A name \in DOMAIN upstreams :
            upstreams'[name] = IF name = curUpstream THEN Append(upstreams[name], e) ELSE upstreams[name]
  BY DEF v, e
<1>8. ASSUME NEW name \in DOMAIN upstreams'
      PROVE  /\ upstreams'[name] \in Seq(Ends)
             /\ ListsServers(upstreams'[name], m, ToldServers(m, name))
             /\ \A k \in 1 .. Len(upstreams'[name]) : \E i \in LinesOf(m, "server") :
                        Value(m, i) \in DOMAIN Endpoint /\ upstreams'[name][k] = Endpoint[Value(m, i)]
  <2> DEFINE list == upstreams[name]
             told == LinesIn(ls, "upstream", name, "server")
  <2>1. /\ list \in Seq(Ends) /\ ListsServers(list, ls, told)
        /\ \A k \in 1 .. Len(list) : \E i \in LinesOf(ls, "server") :
                      Value(ls, i) \in DOMAIN Endpoint /\ list[k] = Endpoint[Value(ls, i)]
    BY <1>7 DEF UpstreamsTold, ToldServers
  <2>2. /\ upstreams'[name] = IF name = curUpstream THEN Append(list, e) ELSE list
        /\ told \in SUBSET (1 .. Len(ls))
    BY <1>3, <1>7
  <2>3. ToldServers(m, name) = IF name = curUpstream THEN told \cup {Len(ls) + 1} ELSE told
    BY <1>3 DEF ToldServers
  <2> HIDE DEF list, told
  <2>4. ListsServers(list, m, told) /\ ListsServers(Append(list, e), m, told \cup {Len(ls) + 1})
    BY <1>5, <2>1, <2>2, ListsMore DEF m, e, v
  <2>5. \A k \in 1 .. Len(list) : \E i \in LinesOf(m, "server") :
                      Value(m, i) \in DOMAIN Endpoint /\ list[k] = Endpoint[Value(m, i)]
    BY <1>4, <2>1
  <2>6. CASE name # curUpstream
    BY <2>1, <2>2, <2>3, <2>4, <2>5, <2>6
  <2>7. CASE name = curUpstream
    <3>1. /\ Append(list, e) \in Seq(Ends) /\ Len(list) \in Nat /\ Len(Append(list, e)) = Len(list) + 1
          /\ Append(list, e)[Len(list) + 1] = e
          /\ \A k \in 1 .. Len(list) : Append(list, e)[k] = list[k]
      BY <1>5, <2>1
    <3>2. \A k \in 1 .. Len(Append(list, e)) : \E i \in LinesOf(m, "server") :
                      Value(m, i) \in DOMAIN Endpoint /\ Append(list, e)[k] = Endpoint[Value(m, i)]
      <4> SUFFICES ASSUME NEW k \in 1 .. Len(list) + 1
                   PROVE  \E i \in LinesOf(m, "server") :
                            Value(m, i) \in DOMAIN Endpoint /\ Append(list, e)[k] = Endpoint[Value(m, i)]
        BY <3>1
      <4>1. CASE k \in 1 .. Len(list)
        BY <2>5, <3>1, <4>1
      <4>2. CASE k = Len(list) + 1
        BY <1>4, <1>6, <3>1, <4>2 DEF e
      <4> QED BY <3>1, <4>1, <4>2
    <3> QED BY <2>2, <2>3, <2>4, <2>7, <3>1, <3>2
  <2> QED BY <2>6, <2>7
<1>9. Named(m, "upstream") \subseteq DOMAIN upstreams'
  BY <1>1, <1>7 DEF UpstreamsTold
<1> QED BY <1>8, <1>9 DEF UpstreamsTold, m

\* The settings.
LEMMA SettingsMore ==
    ASSUME NEW ls \in Texts, NEW l \in Seq(STRING), SettingsTold(ls),
           threadNum' = IF Word(l, NoWord) = "threadNum" THEN Number[Word(Rest(l), NoWord)] ELSE threadNum,
           queSize' = IF Word(l, NoWord) = "queSize" THEN Number[Word(Rest(l), NoWord)] ELSE queSize,
           server'.listen = IF Word(l, NoWord) = "listen" THEN Number[Word(Rest(l), NoWord)] ELSE server.listen,
           server'.server_name = IF Word(l, NoWord) = "server_name" /\ Len(l) > 1
                                 THEN Word(Rest(l), NoWord) ELSE server.server_name
    PROVE  SettingsTold(More(ls, l))'
<1> DEFINE m == More(ls, l)
           S == LinesOf(ls, "server_name")
<1>1. /\ ToldNumber(m, "threadNum") = threadNum' /\ ToldNumber(m, "queSize") = queSize'
      /\ ToldNumber(m, "listen") = server'.listen
  BY ToldNumberMore DEF SettingsTold
<1>2. /\ S \in SUBSET (1 .. Len(ls))
      /\ LinesOf(m, "server_name") = IF Word(l, NoWord) = "server_name" THEN S \cup {Len(ls) + 1} ELSE S
  BY LinesOfMore
<1>3. /\ Said(m, S) = Said(ls, S)
      /\ Said(m, S \cup {Len(ls) + 1}) = IF Len(l) > 1 THEN Word(Rest(l), NoWord) ELSE Said(ls, S)
  <2> HIDE DEF S
  <2> QED BY <1>2, SaidMore
<1>4. server.server_name = Said(ls, S)
  BY DEF SettingsTold
<1> HIDE DEF m, S
<1>5. Said(m, LinesOf(m, "server_name")) = server'.server_name
  BY <1>2, <1>3, <1>4
<1> QED BY <1>1, <1>5 DEF SettingsTold, m

\* The locations.
LEMMA PassMore ==
    ASSUME NEW ls \in Texts, NEW l \in Seq(STRING), NEW name
    PROVE  ToldPass(More(ls, l), name) =
              IF Word(l, NoWord) = "proxy_pass" /\ Within(ls, "location", name) /\ Len(l) > 1
              THEN Word(Rest(l), NoWord) ELSE ToldPass(ls, name)
<1> DEFINE m == More(ls, l)
           S == LinesIn(ls, "location", name, "proxy_pass")
<1>1. /\ S \in SUBSET (1 .. Len(ls))
      /\ LinesIn(m, "location", name, "proxy_pass") =
            IF Word(l, NoWord) = "proxy_pass" /\ Within(ls, "location", name) THEN S \cup {Len(ls) + 1} ELSE S
  BY LinesInMore DEF Within
<1> HIDE DEF S
<1>2. /\ Said(m, S) = Said(ls, S)
      /\ Said(m, S \cup {Len(ls) + 1}) = IF Len(l) > 1 THEN Word(Rest(l), NoWord) ELSE Said(ls, S)
  BY <1>1, SaidMore
<1> HIDE DEF m
<1>3. ToldPass(m, name) = Said(m, LinesIn(m, "location", name, "proxy_pass")) /\ ToldPass(ls, name) = Said(ls, S)
  BY DEF ToldPass, S
<1> QED BY <1>1, <1>2, <1>3 DEF m, Within

LEMMA LocationsKept ==
    ASSUME NEW ls \in Texts, NEW l \in Seq(STRING), LocationsTold(ls),
           Word(l, NoWord) \notin {"location", "proxy_pass"}, server'.locations = server.locations
    PROVE  LocationsTold(More(ls, l))'
<1>1. Named(More(ls, l), "location") = Named(ls, "location")
  BY NamedMore
<1>2. \A name : ToldPass(More(ls, l), name) = ToldPass(ls, name)
  BY PassMore DEF Within
<1> QED BY <1>1, <1>2 DEF LocationsTold

LEMMA LocationOpened ==
    ASSUME NEW ls \in Texts, NEW l \in Seq(STRING), LocationsTold(ls),
           Word(l, NoWord) = "location",
           server'.locations = Insert(server.locations, Word(Rest(l), NoWord), NoWord)
    PROVE  LocationsTold(More(ls, l))'
<1> DEFINE m == More(ls, l)
           v == Word(Rest(l), NoWord)
<1>1. Named(m, "location") = Named(ls, "location") \cup {v}
  BY NamedMore
<1>2. \A name : ToldPass(m, name) = ToldPass(ls, name)
  BY PassMore DEF Within
<1>3. v \notin Named(ls, "location") => ToldPass(ls, v) = NoWord
  <2>1. ASSUME v \notin Named(ls, "location") PROVE ToldPass(ls, v) = NoWord
    <3>1. LinesIn(ls, "location", v, "proxy_pass") = {}
      BY <2>1, UnnamedBlock
    <3> QED BY <3>1, NothingSaid DEF ToldPass
  <2> QED BY <2>1
<1> HIDE DEF m, v
<1>4. server'.locations =
         [x \in DOMAIN server.locations \cup {v} |-> IF x \in DOMAIN server.locations THEN server.locations[x] ELSE NoWord]
  BY DEF Insert, v
<1>5. server.locations = [name \in Named(ls, "location") |-> ToldPass(ls, name)]
  BY DEF LocationsTold
<1>6. server'.locations = [name \in Named(m, "location") |-> ToldPass(m, name)]
  BY <1>1, <1>2, <1>3, <1>4, <1>5
<1> QED BY <1>6 DEF LocationsTold, m

LEMMA PassTold ==
    ASSUME NEW ls \in Texts, NEW l \in Seq(STRING), LocationsTold(ls),
           Word(l, NoWord) = "proxy_pass", Within(ls, "location", curLocation),
           server'.locations = [server.locations EXCEPT ![curLocation] =
                                   IF Len(l) > 1 THEN Word(Rest(l), NoWord) ELSE @]
    PROVE  LocationsTold(More(ls, l))'
<1> DEFINE m == More(ls, l)
           v == Word(Rest(l), NoWord)
<1>1. Named(m, "location") = Named(ls, "location")
  BY NamedMore
<1>2. \A name : ToldPass(m, name) = IF name = curLocation /\ Len(l) > 1 THEN v ELSE ToldPass(ls, name)
  BY PassMore DEF Within
<1> HIDE DEF m, v
<1>3. server.locations = [name \in Named(ls, "location") |-> ToldPass(ls, name)]
  BY DEF LocationsTold
<1>4. server'.locations = [server.locations EXCEPT ![curLocation] = IF Len(l) > 1 THEN v ELSE @]
  BY DEF v
<1>5. server'.locations = [name \in Named(m, "location") |-> ToldPass(m, name)]
  BY <1>1, <1>2, <1>3, <1>4
<1> QED BY <1>5 DEF LocationsTold, m

\* Where the next line stands.
LEMMA HereMore ==
    ASSUME NEW ls \in Texts, NEW l \in Seq(STRING), NEW block
    PROVE  /\ Word(l, NoWord) \notin Marking =>
                 /\ Mark(More(ls, l), Len(More(ls, l)) + 1) \in LinesOf(More(ls, l), block)
                       <=> Mark(ls, Len(ls) + 1) \in LinesOf(ls, block)
                 /\ Mark(ls, Len(ls) + 1) \in LinesOf(ls, block) =>
                       Value(More(ls, l), Mark(More(ls, l), Len(More(ls, l)) + 1)) = Value(ls, Mark(ls, Len(ls) + 1))
           /\ Word(l, NoWord) \in Marking =>
                 /\ Mark(More(ls, l), Len(More(ls, l)) + 1) \in LinesOf(More(ls, l), block)
                       <=> Word(l, NoWord) = block
                 /\ Value(More(ls, l), Mark(More(ls, l), Len(More(ls, l)) + 1)) = Word(Rest(l), NoWord)
<1> DEFINE n == Len(ls)
           m == More(ls, l)
<1>1. /\ n \in Nat /\ Len(m) = n + 1 /\ Value(m, n + 1) = Word(Rest(l), NoWord)
      /\ \A i \in 1 .. n : Value(m, i) = Value(ls, i)
  BY OldLines
<1>2. /\ LinesOf(ls, block) \subseteq 1 .. n
      /\ LinesOf(m, block) = IF Word(l, NoWord) = block THEN LinesOf(ls, block) \cup {n + 1} ELSE LinesOf(ls, block)
  BY LinesOfMore
<1>3. /\ Mark(ls, n + 1) \in 0 .. n
      /\ Mark(m, n + 2) = IF Word(l, NoWord) \in Marking THEN n + 1 ELSE Mark(ls, n + 1)
  <2>1. n + 1 \in 1 .. n + 1 /\ (n + 1) - 1 = n
    BY <1>1
  <2> QED BY <2>1, MarkMore
<1> HIDE DEF n, m
<1>4. Len(m) + 1 = n + 2
  BY <1>1
<1>5. CASE Word(l, NoWord) \in Marking
  BY <1>1, <1>2, <1>3, <1>4, <1>5 DEF n, m
<1>6. CASE Word(l, NoWord) \notin Marking
  <2>1. Mark(m, Len(m) + 1) = Mark(ls, n + 1)
    BY <1>3, <1>4, <1>6
  <2>2. Mark(ls, n + 1) # n + 1 /\ (Mark(ls, n + 1) \in LinesOf(ls, block) => Mark(ls, n + 1) \in 1 .. n)
    BY <1>1, <1>2, <1>3
  <2> QED BY <1>1, <1>2, <1>6, <2>1, <2>2 DEF n, m
<1> QED BY <1>5, <1>6

\* A line that is no header and closes nothing leaves the parser in its block.
LEMMA MarksKept ==
    ASSUME NEW ls \in Texts, NEW l \in Seq(STRING), Marks(ls),
           Word(l, NoWord) \notin Marking,
           UNCHANGED <<curLocation, curUpstream>>,
           \/ checkState' = checkState
           \/ {checkState, checkState'} = {"BEGAIN", "SERVER"}
    PROVE  Marks(More(ls, l))'
BY HereMore DEF Marks, Within

LEMMA Standing ==
    ASSUME NEW ls, Marks(ls), checkState \in Blocks \cup {"BEGAIN"}
    PROVE  InUpstream(ls) <=> checkState = "UPSTREAM"
BY DEF Marks, Within, InUpstream, LinesOf, Blocks

LEMMA StandsKept ==
    ASSUME NEW ls \in Texts, NEW l \in Seq(STRING), Stands(ls), ~OpensBlock(ls, l),
           ~Contains(l, LeftBrace), ~Contains(l, RightBrace), UNCHANGED <<checkState, bracket>>
    PROVE  Stands(More(ls, l))'
<1>1. Depth(More(ls, l)) = Depth(ls) + 0 - 0 /\ Waiting(More(ls, l)) = Waiting(ls) + 0 - 0
      /\ Depth(ls) \in Int /\ Waiting(ls) \in Int
  <2>1. 0 \in {0, 1} /\ ~(0 = 1)
    OBVIOUS
  <2>2. (OpensBlock(ls, l) <=> 0 = 1) /\ (Contains(l, RightBrace) <=> 0 = 1) /\ (Contains(l, LeftBrace) <=> 0 = 1)
    BY <2>1, Zenon
  <2> QED BY <2>1, <2>2, DepthAfter, Zenon
<1>2. Depth(More(ls, l)) = Depth(ls) /\ Waiting(More(ls, l)) = Waiting(ls)
  BY <1>1
<1> QED BY <1>2 DEF Stands

\* The words of a line as iss >> word finds them.
LEMMA LineWords ==
    ASSUME NEW l \in Seq(STRING), l # <<>>
    PROVE  /\ Word(l, NoWord) = Head(l) /\ Rest(l) = Tail(l) /\ Tail(l) \in Seq(STRING) /\ Head(l) = l[1]
           /\ Len(l) > 1 <=> Tail(l) # <<>>
           /\ Tail(l) # <<>> => Tail(l)[1] = l[2]
           /\ \A old : Word(Tail(l), old) = IF Len(l) > 1 THEN Word(Tail(l), NoWord) ELSE old
<1>1. /\ Head(l) = l[1] /\ Tail(l) \in Seq(STRING) /\ Len(l) \in Nat \ {0} /\ Len(Tail(l)) = Len(l) - 1
      /\ \A k \in 1 .. Len(l) - 1 : Tail(l)[k] = l[k + 1]
  OBVIOUS
<1>2. Word(l, NoWord) = Head(l) /\ Rest(l) = Tail(l)
  BY DEF Word, Rest
<1>3. CASE Len(l) = 1
  <2>1. Tail(l) = <<>>
    <3>1. Len(Tail(l)) \notin Nat \ {0}
      BY <1>1, <1>3
    <3> QED BY <1>1, <3>1, EmptySeq, Zenon
  <2>2. ~(Len(l) > 1)
    BY <1>3
  <2>3. \A old : Word(Tail(l), old) = old
    BY <2>1, Zenon DEF Word
  <2> QED BY <1>1, <1>2, <2>1, <2>2, <2>3
<1>4. CASE Len(l) > 1
  <2>1. Tail(l) # <<>> /\ Tail(l)[1] = l[2]
    <3>1. Len(Tail(l)) # 0 /\ 1 \in 1 .. Len(l) - 1 /\ 1 + 1 = 2
      BY <1>1, <1>4
    <3>2. Tail(l)[1] = l[1 + 1]
      BY <1>1, <3>1, Zenon
    <3>3. Tail(l) # <<>>
      BY <3>1
    <3> QED BY <3>1, <3>2, <3>3
  <2>2. \A old : Word(Tail(l), old) = Word(Tail(l), NoWord)
    BY <2>1, Zenon DEF Word
  <2> QED BY <1>1, <1>2, <1>4, <2>1, <2>2
<1> QED BY <1>1, <1>3, <1>4

LEMMA SkipLineFollows ==
    ASSUME ConfigTypeOK, NEW ls \in Texts, NEW l \in Seq(STRING), l = Line, Follows(ls), SkipLine
    PROVE  Follows(More(ls, l))'
<1>1. l = <<>> /\ UNCHANGED <<checkState, bracket, curLocation, curUpstream, server, upstreams, threadNum, queSize>>
  BY DEF SkipLine, stateVars, tableVars
<1>2. Word(l, NoWord) = NoWord /\ Len(l) = 0
  BY <1>1 DEF Word
<1>3. NoWord \notin Marking \cup {"threadNum", "queSize", "listen", "server_name", "location", "proxy_pass", "server",
                                  "upstream"}
  BY Words DEF Marking
<1>4. ~Contains(l, LeftBrace) /\ ~Contains(l, RightBrace)
  BY <1>2 DEF Contains
<1>5. ~OpensBlock(ls, l)
  BY <1>2, <1>3 DEF OpensBlock
<1>6. Stands(More(ls, l))'
  BY <1>1, <1>4, <1>5, StandsKept DEF Follows
<1>7. Marks(More(ls, l))'
  BY <1>1, <1>2, <1>3, MarksKept DEF Follows
<1>8. SettingsTold(More(ls, l))'
  BY <1>1, <1>2, <1>3, SettingsMore DEF Follows, Tells
<1>9. LocationsTold(More(ls, l))'
  BY <1>1, <1>2, <1>3, LocationsKept DEF Follows, Tells
<1>10. UpstreamsTold(More(ls, l))'
  BY <1>1, <1>2, <1>3, UpstreamsKept DEF Follows, Tells
<1> QED BY <1>6, <1>7, <1>8, <1>9, <1>10 DEF Follows, Tells

\* A line with a directive, which changes one table at most.
LEMMA DirectiveStands ==
    ASSUME NEW ls \in Texts, NEW l \in Seq(STRING), l # <<>>, IsPlain(l), Stands(ls), Marks(ls),
           Head(l) \in {"threadNum", "queSize", "listen", "server_name", "proxy_pass"},
           UNCHANGED <<checkState, bracket, curLocation, curUpstream>>
    PROVE  Stands(More(ls, l))' /\ Marks(More(ls, l))'
<1>1. Word(l, NoWord) = Head(l)
  BY LineWords
<1>2. Head(l) # LeftBrace /\ Head(l) # RightBrace
  BY Words
<1>3. ~Contains(l, LeftBrace) /\ ~Contains(l, RightBrace)
  <2>1. Head(l) # "server" /\ Head(l) \notin {"location", "upstream"}
    OBVIOUS
  <2> QED BY <1>2, <2>1, PlainLine, Zenon
<1>4. ~OpensBlock(ls, l)
  BY <1>1 DEF OpensBlock
<1>5. Word(l, NoWord) \notin Marking
  BY <1>1, <1>2 DEF Marking
<1> QED BY <1>3, <1>4, <1>5, StandsKept, MarksKept

LEMMA SettingFollows ==
    ASSUME ConfigTypeOK, NEW ls \in Texts, NEW l \in Seq(STRING), l = Line, IsPlain(l), Follows(ls), Setting,
           outcome' = "parsing"
    PROVE  Follows(More(ls, l))'
<1>1. l # <<>> /\ Head(l) \in {"threadNum", "queSize"}
  BY DEF Setting, AtOuterLine
<1>2. /\ Word(l, NoWord) = Head(l) /\ Rest(l) = Tail(l)
      /\ Word(Tail(l), Head(l)) = IF Len(l) > 1 THEN Word(Tail(l), NoWord) ELSE Head(l)
  BY <1>1, LineWords
<1>3. UNCHANGED <<checkState, bracket, curLocation, curUpstream, server, upstreams>>
  BY DEF Setting, Throw, stateVars
<1>4. /\ Word(Tail(l), Head(l)) \in DOMAIN Number
      /\ threadNum' = IF Head(l) = "threadNum" THEN Number[Word(Tail(l), Head(l))] ELSE threadNum
      /\ queSize' = IF Head(l) = "queSize" THEN Number[Word(Tail(l), Head(l))] ELSE queSize
  BY DEF Setting, Throw, AtOuterLine
<1>5. Word(Tail(l), Head(l)) = Word(Tail(l), NoWord)
  BY <1>1, <1>2, <1>4, ConfigAssumption DEF Special
<1>6. Stands(More(ls, l))' /\ Marks(More(ls, l))'
  BY <1>1, <1>3, DirectiveStands DEF Follows
<1>7. SettingsTold(More(ls, l))'
  BY <1>1, <1>2, <1>3, <1>4, <1>5, SettingsMore DEF Follows, Tells
<1>8. LocationsTold(More(ls, l))'
  BY <1>1, <1>2, <1>3, LocationsKept DEF Follows, Tells
<1>9. UpstreamsTold(More(ls, l))'
  BY <1>1, <1>2, <1>3, UpstreamsKept DEF Follows, Tells
<1> QED BY <1>6, <1>7, <1>8, <1>9 DEF Follows, Tells

LEMMA ServerNameFollows ==
    ASSUME ConfigTypeOK, NEW ls \in Texts, NEW l \in Seq(STRING), l = iss, IsPlain(l), Follows(ls), ServerName
    PROVE  Follows(More(ls, l))'
<1>1. l # <<>> /\ Head(l) = "server_name"
  BY DEF ServerName, InBlock, InMethod
<1>2. /\ Word(l, NoWord) = Head(l) /\ Rest(l) = Tail(l)
      /\ Word(Tail(l), server.server_name) = IF Len(l) > 1 THEN Word(Tail(l), NoWord) ELSE server.server_name
  BY <1>1, LineWords
<1>3. UNCHANGED <<checkState, bracket, curLocation, curUpstream, upstreams, threadNum, queSize>>
  BY DEF ServerName, stateVars
<1>4. /\ server'.server_name = Word(Tail(l), server.server_name)
      /\ server'.listen = server.listen /\ server'.locations = server.locations
  BY DEF ServerName, ConfigTypeOK
<1>5. Stands(More(ls, l))' /\ Marks(More(ls, l))'
  BY <1>1, <1>3, DirectiveStands DEF Follows
<1>6. SettingsTold(More(ls, l))'
  BY <1>1, <1>2, <1>3, <1>4, SettingsMore DEF Follows, Tells
<1>7. LocationsTold(More(ls, l))'
  BY <1>1, <1>2, <1>3, <1>4, LocationsKept DEF Follows, Tells
<1>8. UpstreamsTold(More(ls, l))'
  BY <1>1, <1>2, <1>3, UpstreamsKept DEF Follows, Tells
<1> QED BY <1>5, <1>6, <1>7, <1>8 DEF Follows, Tells

LEMMA ListenFollows ==
    ASSUME ConfigTypeOK, NEW ls \in Texts, NEW l \in Seq(STRING), l = iss, IsPlain(l), Follows(ls), Listen,
           outcome' = "parsing"
    PROVE  Follows(More(ls, l))'
<1>1. l # <<>> /\ Head(l) = "listen"
  BY DEF Listen, InBlock, InMethod
<1>2. /\ Word(l, NoWord) = Head(l) /\ Rest(l) = Tail(l)
      /\ Word(Tail(l), "listen") = IF Len(l) > 1 THEN Word(Tail(l), NoWord) ELSE "listen"
  BY <1>1, LineWords
<1>3. UNCHANGED <<checkState, bracket, curLocation, curUpstream, upstreams, threadNum, queSize>>
  BY DEF Listen, Throw, stateVars, tableVars
<1>4. /\ Word(Tail(l), "listen") \in DOMAIN Number /\ server'.listen = Number[Word(Tail(l), "listen")]
      /\ server'.server_name = server.server_name /\ server'.locations = server.locations
  BY DEF Listen, Throw, ConfigTypeOK
<1>5. Word(Tail(l), "listen") = Word(Tail(l), NoWord)
  BY <1>1, <1>2, <1>4, ConfigAssumption DEF Special
<1>6. Stands(More(ls, l))' /\ Marks(More(ls, l))'
  BY <1>1, <1>3, DirectiveStands DEF Follows
<1>7. SettingsTold(More(ls, l))'
  BY <1>1, <1>2, <1>3, <1>4, <1>5, SettingsMore DEF Follows, Tells
<1>8. LocationsTold(More(ls, l))'
  BY <1>1, <1>2, <1>3, <1>4, LocationsKept DEF Follows, Tells
<1>9. UpstreamsTold(More(ls, l))'
  BY <1>1, <1>2, <1>3, UpstreamsKept DEF Follows, Tells
<1> QED BY <1>6, <1>7, <1>8, <1>9 DEF Follows, Tells

LEMMA ProxyPassFollows ==
    ASSUME ConfigTypeOK, NEW ls \in Texts, NEW l \in Seq(STRING), l = iss, IsPlain(l), Follows(ls), ProxyPass,
           checkState = "LOCATION"
    PROVE  Follows(More(ls, l))'
<1>1. l # <<>> /\ Head(l) = "proxy_pass"
  BY DEF ProxyPass, InBlock, InMethod
<1>2. /\ Word(l, NoWord) = Head(l) /\ Rest(l) = Tail(l)
      /\ \A old : Word(Tail(l), old) = IF Len(l) > 1 THEN Word(Tail(l), NoWord) ELSE old
  BY <1>1, LineWords
<1>3. UNCHANGED <<checkState, bracket, curLocation, curUpstream, upstreams, threadNum, queSize>>
  BY DEF ProxyPass, stateVars
<1>4. /\ server'.server_name = server.server_name /\ server'.listen = server.listen
      /\ server'.locations = [server.locations EXCEPT ![curLocation] = Word(Tail(l), @)]
  BY DEF ProxyPass, ConfigTypeOK
<1>5. Stands(More(ls, l))' /\ Marks(More(ls, l))'
  BY <1>1, <1>3, DirectiveStands DEF Follows
<1>6. SettingsTold(More(ls, l))'
  BY <1>1, <1>2, <1>3, <1>4, SettingsMore DEF Follows, Tells
<1>7. LocationsTold(More(ls, l))'
  <2>1. server'.locations = [server.locations EXCEPT ![curLocation] =
                                IF Len(l) > 1 THEN Word(Rest(l), NoWord) ELSE @]
    BY <1>2, <1>4
  <2>2. Within(ls, "location", curLocation) /\ LocationsTold(ls)
    BY DEF Follows, Marks, Tells
  <2> QED BY <1>1, <1>2, <2>1, <2>2, PassTold
<1>8. UpstreamsTold(More(ls, l))'
  BY <1>1, <1>2, <1>3, UpstreamsKept DEF Follows, Tells
<1> QED BY <1>5, <1>6, <1>7, <1>8 DEF Follows, Tells

LEMMA UpstreamServerFollows ==
    ASSUME ConfigTypeOK, NEW ls \in Texts, NEW l \in Seq(STRING), l = iss, IsPlain(l), Follows(ls), UpstreamServer,
           checkState = "UPSTREAM", lineState' = "LINE_OK", lineState = "LINE_OK"
    PROVE  Follows(More(ls, l))'
<1>1. l # <<>> /\ Head(l) = "server"
  BY DEF UpstreamServer, InBlock, InMethod
<1>2. /\ Word(l, NoWord) = Head(l) /\ Rest(l) = Tail(l)
  BY <1>1, LineWords
<1>3. /\ UNCHANGED <<checkState, bracket, curLocation, curUpstream, server, threadNum, queSize>>
      /\ Word(Tail(l), NoWord) \in DOMAIN Endpoint
      /\ upstreams' = [upstreams EXCEPT ![curUpstream] = Append(@, Endpoint[Word(Tail(l), NoWord)])]
  BY DEF UpstreamServer, stateVars
<1>4. Within(ls, "upstream", curUpstream) /\ UpstreamsTold(ls) /\ InUpstream(ls)
  BY DEF Follows, Marks, Tells, Within, InUpstream
<1>5. ~Contains(l, LeftBrace) /\ ~Contains(l, RightBrace)
  <2>1. Head(l) # LeftBrace /\ Head(l) # RightBrace /\ Head(l) \notin {"location", "upstream"}
    BY <1>1, Words
  <2>2. Word(Tail(l), NoWord) # LeftBrace
    BY <1>3, ConfigAssumption
  <2> QED BY <1>1, <2>1, <2>2, PlainLine, Zenon
<1>6. ~OpensBlock(ls, l)
  BY <1>1, <1>2, <1>4 DEF OpensBlock, InUpstream
<1>7. Word(l, NoWord) \notin Marking
  BY <1>1, <1>2, Words DEF Marking
<1>8. Stands(More(ls, l))' /\ Marks(More(ls, l))'
  BY <1>3, <1>5, <1>6, <1>7, StandsKept, MarksKept DEF Follows
<1>9. SettingsTold(More(ls, l))'
  BY <1>1, <1>2, <1>3, SettingsMore DEF Follows, Tells
<1>10. LocationsTold(More(ls, l))'
  BY <1>1, <1>2, <1>3, LocationsKept DEF Follows, Tells
<1>11. UpstreamsTold(More(ls, l))'
  BY <1>1, <1>2, <1>3, <1>4, ServerTold
<1> QED BY <1>8, <1>9, <1>10, <1>11 DEF Follows, Tells

LEMMA DepthOpened ==
    ASSUME NEW ls \in Texts, NEW l \in Seq(STRING), OpensBlock(ls, l), ~Contains(l, RightBrace)
    PROVE  /\ Depth(ls) \in Int /\ Waiting(ls) \in Int /\ Depth(More(ls, l)) = Depth(ls) + 1
           /\ Contains(l, LeftBrace) => Waiting(More(ls, l)) = Waiting(ls)
           /\ ~Contains(l, LeftBrace) => Waiting(More(ls, l)) = Waiting(ls) + 1
<1>1. 0 \in {0, 1} /\ 1 \in {0, 1} /\ ~(0 = 1) /\ 1 = 1
  OBVIOUS
<1>2. (OpensBlock(ls, l) <=> 1 = 1) /\ (Contains(l, RightBrace) <=> 0 = 1)
  BY <1>1, Zenon
<1>3. CASE Contains(l, LeftBrace)
  <2>1. Contains(l, LeftBrace) <=> 1 = 1
    BY <1>1, <1>3, Zenon
  <2>2. /\ Depth(ls) \in Int /\ Waiting(ls) \in Int
        /\ Depth(More(ls, l)) = Depth(ls) + 1 - 0 /\ Waiting(More(ls, l)) = Waiting(ls) + 1 - 1
    BY <1>1, <1>2, <2>1, DepthAfter, Zenon
  <2>3. /\ Depth(ls) \in Int /\ Waiting(ls) \in Int
        /\ Depth(More(ls, l)) = Depth(ls) + 1 /\ Waiting(More(ls, l)) = Waiting(ls)
    BY <2>2
  <2> QED BY <1>3, <2>3, Zenon
<1>4. CASE ~Contains(l, LeftBrace)
  <2>1. Contains(l, LeftBrace) <=> 0 = 1
    BY <1>1, <1>4, Zenon
  <2>2. /\ Depth(ls) \in Int /\ Waiting(ls) \in Int
        /\ Depth(More(ls, l)) = Depth(ls) + 1 - 0 /\ Waiting(More(ls, l)) = Waiting(ls) + 1 - 0
    BY <1>1, <1>2, <2>1, DepthAfter, Zenon
  <2>3. /\ Depth(ls) \in Int /\ Waiting(ls) \in Int
        /\ Depth(More(ls, l)) = Depth(ls) + 1 /\ Waiting(More(ls, l)) = Waiting(ls) + 1
    BY <2>2
  <2> QED BY <1>4, <2>3, Zenon
<1> QED BY <1>3, <1>4

\* A line with one of the two brackets.
LEMMA DepthBraced ==
    ASSUME NEW ls \in Texts, NEW l \in Seq(STRING), ~OpensBlock(ls, l)
    PROVE  /\ Depth(ls) \in Int /\ Waiting(ls) \in Int
           /\ Contains(l, LeftBrace) /\ ~Contains(l, RightBrace) =>
                 Depth(More(ls, l)) = Depth(ls) /\ Waiting(More(ls, l)) = Waiting(ls) - 1
           /\ ~Contains(l, LeftBrace) /\ Contains(l, RightBrace) =>
                 Depth(More(ls, l)) = Depth(ls) - 1 /\ Waiting(More(ls, l)) = Waiting(ls)
<1>1. 0 \in {0, 1} /\ 1 \in {0, 1} /\ ~(0 = 1) /\ 1 = 1
  OBVIOUS
<1>2. OpensBlock(ls, l) <=> 0 = 1
  BY <1>1, Zenon
<1>3. ASSUME Contains(l, LeftBrace), ~Contains(l, RightBrace)
      PROVE  Depth(More(ls, l)) = Depth(ls) /\ Waiting(More(ls, l)) = Waiting(ls) - 1
  <2>1. (Contains(l, LeftBrace) <=> 1 = 1) /\ (Contains(l, RightBrace) <=> 0 = 1)
    BY <1>1, <1>3, Zenon
  <2>2. /\ Depth(ls) \in Int /\ Waiting(ls) \in Int
        /\ Depth(More(ls, l)) = Depth(ls) + 0 - 0 /\ Waiting(More(ls, l)) = Waiting(ls) + 0 - 1
    BY <1>1, <1>2, <2>1, DepthAfter, Zenon
  <2> QED BY <2>2
<1>4. ASSUME ~Contains(l, LeftBrace), Contains(l, RightBrace)
      PROVE  Depth(More(ls, l)) = Depth(ls) - 1 /\ Waiting(More(ls, l)) = Waiting(ls)
  <2>1. (Contains(l, LeftBrace) <=> 0 = 1) /\ (Contains(l, RightBrace) <=> 1 = 1)
    BY <1>1, <1>4, Zenon
  <2>2. /\ Depth(ls) \in Int /\ Waiting(ls) \in Int
        /\ Depth(More(ls, l)) = Depth(ls) + 0 - 1 /\ Waiting(More(ls, l)) = Waiting(ls) + 0 - 0
    BY <1>1, <1>2, <2>1, DepthAfter, Zenon
  <2> QED BY <2>2
<1>5. Depth(ls) \in Int /\ Waiting(ls) \in Int
  BY DepthMore
<1> QED BY <1>3, <1>4, <1>5, Zenon

LEMMA OpenServerFollows ==
    ASSUME ConfigTypeOK, NEW ls \in Texts, NEW l \in Seq(STRING), l = Line, IsPlain(l), Follows(ls), OpenServer
    PROVE  Follows(More(ls, l))'
<1>1. l # <<>> /\ Head(l) = "server" /\ checkState = "BEGAIN"
  BY DEF OpenServer, AtOuterLine
<1>2. Word(l, NoWord) = Head(l) /\ Rest(l) = Tail(l)
  BY <1>1, LineWords
<1>3. /\ UNCHANGED <<curLocation, curUpstream, server, upstreams, threadNum, queSize>>
      /\ checkState' = "SERVER"
      /\ bracket' = [bracket EXCEPT !["SERVER"] = @ \/ Word(Tail(l), NoWord) = LeftBrace]
  BY DEF OpenServer, tableVars, ParseBracket
<1>4. ~InUpstream(ls)
  BY <1>1, Standing DEF Follows
<1>5. \A b \in Blocks : bracket[b] = FALSE
  BY <1>1 DEF Follows, Stands, ConfigTypeOK, Blocks
<1>6. /\ \A b \in Blocks : bracket'[b] => b = "SERVER"
      /\ bracket'["SERVER"] <=> Word(Tail(l), NoWord) = LeftBrace
  BY <1>3, <1>5 DEF ConfigTypeOK, Blocks
<1>7. Word(l, NoWord) \notin Marking /\ Head(l) # LeftBrace /\ Head(l) # RightBrace
  BY <1>1, <1>2, Words DEF Marking
<1>8. ~Contains(l, RightBrace) /\ (Contains(l, LeftBrace) <=> Word(Tail(l), NoWord) = LeftBrace)
  <2>1. Head(l) \notin {"location", "upstream"}
    BY <1>1
  <2> QED BY <1>1, <1>7, <2>1, PlainLine, Zenon
<1>9. OpensBlock(ls, l)
  BY <1>1, <1>2, <1>4 DEF OpensBlock, InUpstream
<1>10. /\ Depth(ls) \in Int /\ Waiting(ls) \in Int /\ Depth(More(ls, l)) = Depth(ls) + 1
       /\ Word(Tail(l), NoWord) = LeftBrace => Waiting(More(ls, l)) = Waiting(ls)
       /\ Word(Tail(l), NoWord) # LeftBrace => Waiting(More(ls, l)) = Waiting(ls) + 1
  BY <1>8, <1>9, DepthOpened, Zenon
<1>11. Depth(ls) = 0 /\ Waiting(ls) = 0
  BY <1>1 DEF Follows, Stands
<1>12. Stands(More(ls, l))'
  BY <1>3, <1>6, <1>10, <1>11 DEF Stands
<1>13. Marks(More(ls, l))'
  BY <1>1, <1>3, <1>7, MarksKept DEF Follows
<1>14. SettingsTold(More(ls, l))'
  BY <1>1, <1>2, <1>3, SettingsMore DEF Follows, Tells
<1>15. LocationsTold(More(ls, l))'
  BY <1>1, <1>2, <1>3, LocationsKept DEF Follows, Tells
<1>16. UpstreamsTold(More(ls, l))'
  <2>1. UpstreamsTold(ls) /\ UNCHANGED upstreams /\ Word(l, NoWord) # "upstream"
    BY <1>1, <1>2, <1>3 DEF Follows, Tells
  <2> QED BY <1>4, <2>1, UpstreamsKept, Zenon
<1> QED BY <1>12, <1>13, <1>14, <1>15, <1>16 DEF Follows, Tells

LEMMA OpenUpstreamFollows ==
    ASSUME ConfigTypeOK, NEW ls \in Texts, NEW l \in Seq(STRING), l = Line, IsPlain(l), Follows(ls), OpenUpstream
    PROVE  Follows(More(ls, l))'
<1>1. l # <<>> /\ Head(l) = "upstream" /\ checkState = "BEGAIN"
  BY DEF OpenUpstream, AtOuterLine
<1>2. Word(l, NoWord) = Head(l) /\ Rest(l) = Tail(l)
  BY <1>1, LineWords
<1>3. /\ UNCHANGED <<curLocation, server, threadNum, queSize>>
      /\ checkState' = "UPSTREAM" /\ curUpstream' = Word(Tail(l), NoWord)
      /\ upstreams' = Insert(upstreams, Word(Tail(l), NoWord), <<>>)
      /\ bracket' = [bracket EXCEPT !["UPSTREAM"] = @ \/ Word(Rest(Tail(l)), NoWord) = LeftBrace]
  BY DEF OpenUpstream, ParseBracket
<1>5. \A b \in Blocks : bracket[b] = FALSE
  BY <1>1 DEF Follows, Stands, ConfigTypeOK, Blocks
<1>6. /\ \A b \in Blocks : bracket'[b] => b = "UPSTREAM"
      /\ bracket'["UPSTREAM"] <=> Word(Rest(Tail(l)), NoWord) = LeftBrace
  BY <1>3, <1>5 DEF ConfigTypeOK, Blocks
<1>7. Word(l, NoWord) \in Marking /\ Head(l) # LeftBrace /\ Head(l) # RightBrace
  BY <1>1, <1>2, Words DEF Marking
<1>8. ~Contains(l, RightBrace) /\ (Contains(l, LeftBrace) <=> Word(Rest(Tail(l)), NoWord) = LeftBrace)
  <2>1. Head(l) # "server" /\ Head(l) \in {"location", "upstream"}
    BY <1>1
  <2> QED BY <1>1, <1>7, <2>1, PlainLine, Zenon
<1>9. OpensBlock(ls, l)
  BY <1>1, <1>2 DEF OpensBlock
<1>10. /\ Depth(ls) \in Int /\ Waiting(ls) \in Int /\ Depth(More(ls, l)) = Depth(ls) + 1
       /\ Word(Rest(Tail(l)), NoWord) = LeftBrace => Waiting(More(ls, l)) = Waiting(ls)
       /\ Word(Rest(Tail(l)), NoWord) # LeftBrace => Waiting(More(ls, l)) = Waiting(ls) + 1
  BY <1>8, <1>9, DepthOpened, Zenon
<1>11. Depth(ls) = 0 /\ Waiting(ls) = 0
  BY <1>1 DEF Follows, Stands
<1>12. Stands(More(ls, l))'
  BY <1>3, <1>6, <1>10, <1>11 DEF Stands
<1>13. Marks(More(ls, l))'
  <2>1. Word(l, NoWord) = "upstream" /\ curUpstream' = Word(Rest(l), NoWord)
    BY <1>1, <1>2, <1>3
  <2>2. /\ Mark(More(ls, l), Len(More(ls, l)) + 1) \in LinesOf(More(ls, l), "upstream")
        /\ Value(More(ls, l), Mark(More(ls, l), Len(More(ls, l)) + 1)) = Word(Rest(l), NoWord)
    BY <1>7, <2>1, HereMore
  <2> QED BY <1>3, <2>1, <2>2 DEF Marks, Within
<1>14. SettingsTold(More(ls, l))'
  BY <1>1, <1>2, <1>3, SettingsMore DEF Follows, Tells
<1>15. LocationsTold(More(ls, l))'
  BY <1>1, <1>2, <1>3, LocationsKept DEF Follows, Tells
<1>16. UpstreamsTold(More(ls, l))'
  BY <1>1, <1>2, <1>3, UpstreamOpened DEF Follows, Tells
<1> QED BY <1>12, <1>13, <1>14, <1>15, <1>16 DEF Follows, Tells

LEMMA OpenLocationFollows ==
    ASSUME ConfigTypeOK, NEW ls \in Texts, NEW l \in Seq(STRING), l = iss, IsPlain(l), Follows(ls), OpenLocation,
           checkState = "SERVER"
    PROVE  Follows(More(ls, l))'
<1>1. l # <<>> /\ Head(l) = "location" /\ bracket["SERVER"]
  BY DEF OpenLocation, InBlock, InMethod
<1>2. Word(l, NoWord) = Head(l) /\ Rest(l) = Tail(l)
  BY <1>1, LineWords
<1>3. /\ UNCHANGED <<curUpstream, upstreams, threadNum, queSize>>
      /\ checkState' = "LOCATION" /\ curLocation' = Word(Tail(l), NoWord)
      /\ server'.locations = Insert(server.locations, Word(Tail(l), NoWord), NoWord)
      /\ server'.listen = server.listen /\ server'.server_name = server.server_name
      /\ bracket' = [bracket EXCEPT !["LOCATION"] = @ \/ Word(Rest(Tail(l)), NoWord) = LeftBrace]
  BY DEF OpenLocation, ParseBracket, ConfigTypeOK
<1>5. \A b \in Blocks : bracket[b] = (b = "SERVER")
  BY <1>1 DEF Follows, Stands, ConfigTypeOK
<1>6. /\ \A b \in Blocks : bracket'[b] => b = "LOCATION" \/ b = "SERVER"
      /\ bracket'["LOCATION"] <=> Word(Rest(Tail(l)), NoWord) = LeftBrace
      /\ bracket'["SERVER"]
  BY <1>3, <1>5 DEF ConfigTypeOK, Blocks
<1>7. Word(l, NoWord) \in Marking /\ Head(l) # LeftBrace /\ Head(l) # RightBrace
  BY <1>1, <1>2, Words DEF Marking
<1>8. ~Contains(l, RightBrace) /\ (Contains(l, LeftBrace) <=> Word(Rest(Tail(l)), NoWord) = LeftBrace)
  <2>1. Head(l) # "server" /\ Head(l) \in {"location", "upstream"}
    BY <1>1
  <2> QED BY <1>1, <1>7, <2>1, PlainLine, Zenon
<1>9. OpensBlock(ls, l)
  BY <1>1, <1>2 DEF OpensBlock
<1>10. /\ Depth(ls) \in Int /\ Waiting(ls) \in Int /\ Depth(More(ls, l)) = Depth(ls) + 1
       /\ Word(Rest(Tail(l)), NoWord) = LeftBrace => Waiting(More(ls, l)) = Waiting(ls)
       /\ Word(Rest(Tail(l)), NoWord) # LeftBrace => Waiting(More(ls, l)) = Waiting(ls) + 1
  BY <1>8, <1>9, DepthOpened, Zenon
<1>11. Depth(ls) = 1 /\ Waiting(ls) = 0
  BY <1>1 DEF Follows, Stands
<1>12. Stands(More(ls, l))'
  BY <1>3, <1>6, <1>10, <1>11 DEF Stands
<1>13. Marks(More(ls, l))'
  <2>1. Word(l, NoWord) = "location" /\ curLocation' = Word(Rest(l), NoWord)
    BY <1>1, <1>2, <1>3
  <2>2. /\ Mark(More(ls, l), Len(More(ls, l)) + 1) \in LinesOf(More(ls, l), "location")
        /\ Value(More(ls, l), Mark(More(ls, l), Len(More(ls, l)) + 1)) = Word(Rest(l), NoWord)
    BY <1>7, <2>1, HereMore
  <2> QED BY <1>3, <2>1, <2>2 DEF Marks, Within
<1>14. SettingsTold(More(ls, l))'
  BY <1>1, <1>2, <1>3, SettingsMore DEF Follows, Tells
<1>15. LocationsTold(More(ls, l))'
  BY <1>1, <1>2, <1>3, LocationOpened DEF Follows, Tells
<1>16. UpstreamsTold(More(ls, l))'
  BY <1>1, <1>2, <1>3, UpstreamsKept DEF Follows, Tells
<1> QED BY <1>12, <1>13, <1>14, <1>15, <1>16 DEF Follows, Tells

\* A line that begins with a bracket: no table says anything of it.
LEMMA BraceTells ==
    ASSUME NEW ls \in Texts, NEW l \in Seq(STRING), l # <<>>, Head(l) \in {LeftBrace, RightBrace}, Tells(ls),
           UNCHANGED <<server, upstreams, threadNum, queSize>>
    PROVE  Tells(More(ls, l))' /\ ~OpensBlock(ls, l)
<1>1. /\ Word(l, NoWord) = Head(l)
      /\ Head(l) \notin {"threadNum", "queSize", "server", "upstream", "location", "listen", "server_name",
                         "proxy_pass"}
  BY LineWords, Words
<1>2. SettingsTold(More(ls, l))'
  BY <1>1, SettingsMore DEF Tells
<1>3. LocationsTold(More(ls, l))'
  BY <1>1, LocationsKept DEF Tells
<1>4. UpstreamsTold(More(ls, l))'
  BY <1>1, UpstreamsKept DEF Tells
<1>5. ~OpensBlock(ls, l)
  BY <1>1 DEF OpensBlock
<1> QED BY <1>2, <1>3, <1>4, <1>5 DEF Tells

LEMMA LeftBracketFollows ==
    ASSUME ConfigTypeOK, NEW ls \in Texts, NEW l \in Seq(STRING), l = iss, IsPlain(l), Follows(ls),
           LeftBracket(checkState), checkState \in Blocks, outcome' = "parsing"
    PROVE  Follows(More(ls, l))'
<1>1. l # <<>> /\ Head(l) = LeftBrace /\ ~bracket[checkState]
  BY DEF LeftBracket, InMethod, Throw
<1>2. /\ UNCHANGED <<checkState, curLocation, curUpstream, server, upstreams, threadNum, queSize>>
      /\ bracket' = [bracket EXCEPT ![checkState] = TRUE]
  BY DEF LeftBracket, Throw, tableVars
<1>3. Word(l, NoWord) = Head(l) /\ Word(l, NoWord) \notin Marking /\ Head(l) # RightBrace
  BY <1>1, LineWords, Words DEF Marking
<1>4. Contains(l, LeftBrace) /\ ~Contains(l, RightBrace)
  BY <1>1, <1>3, PlainLine, Zenon
<1>5. Tells(More(ls, l))' /\ ~OpensBlock(ls, l)
  BY <1>1, <1>2, BraceTells DEF Follows
<1>6. /\ Depth(ls) \in Int /\ Waiting(ls) \in Int
      /\ Depth(More(ls, l)) = Depth(ls) /\ Waiting(More(ls, l)) = Waiting(ls) - 1
  BY <1>4, <1>5, DepthBraced, Zenon
<1>7. Waiting(ls) = 1
  BY <1>1 DEF Follows, Stands, Blocks
<1>8. /\ \A b \in Blocks : bracket'[b] => bracket[b] \/ b = checkState
      /\ \A b \in Blocks : bracket[b] => bracket'[b]
      /\ bracket'[checkState]
  BY <1>2 DEF ConfigTypeOK
<1>9. Stands(More(ls, l))'
  BY <1>2, <1>6, <1>7, <1>8 DEF Follows, Stands, Blocks
<1>10. Marks(More(ls, l))'
  BY <1>2, <1>3, MarksKept DEF Follows
<1> QED BY <1>5, <1>9, <1>10 DEF Follows

LEMMA CloseBlockFollows ==
    ASSUME ConfigTypeOK, NEW ls \in Texts, NEW l \in Seq(STRING), l = iss, IsPlain(l), Follows(ls),
           CloseBlock(checkState), checkState \in Blocks
    PROVE  Follows(More(ls, l))'
<1>1. l # <<>> /\ Head(l) = RightBrace /\ bracket[checkState]
  BY DEF CloseBlock, InBlock, InMethod
<1>2. /\ UNCHANGED <<curLocation, curUpstream, server, upstreams, threadNum, queSize>>
      /\ bracket' = [bracket EXCEPT ![checkState] = FALSE]
      /\ checkState' = IF checkState = "LOCATION" THEN "SERVER" ELSE "BEGAIN"
  BY DEF CloseBlock, tableVars
<1>3. Word(l, NoWord) = Head(l) /\ Word(l, NoWord) \in Marking /\ Head(l) # LeftBrace
      /\ Word(l, NoWord) \notin {"location", "upstream", "server"}
  BY <1>1, LineWords, Words DEF Marking
<1>4. ~Contains(l, LeftBrace) /\ Contains(l, RightBrace)
  <2>1. Head(l) # "server" /\ Head(l) \notin {"location", "upstream"}
    BY <1>3
  <2> QED BY <1>1, <1>3, <2>1, PlainLine, Zenon
<1>5. Tells(More(ls, l))' /\ ~OpensBlock(ls, l)
  BY <1>1, <1>2, BraceTells DEF Follows
<1>6. /\ Depth(ls) \in Int /\ Waiting(ls) \in Int
      /\ Depth(More(ls, l)) = Depth(ls) - 1 /\ Waiting(More(ls, l)) = Waiting(ls)
  BY <1>4, <1>5, DepthBraced, Zenon
<1>7. Waiting(ls) = 0 /\ Depth(ls) = IF checkState = "LOCATION" THEN 2 ELSE 1
  BY <1>1 DEF Follows, Stands, Blocks
<1>8. \A b \in Blocks : bracket'[b] <=> bracket[b] /\ b # checkState
  BY <1>2 DEF ConfigTypeOK
<1>9. Stands(More(ls, l))'
  BY <1>2, <1>6, <1>7, <1>8 DEF Follows, Stands, Blocks
<1>10. Marks(More(ls, l))'
  BY <1>2, <1>3, HereMore DEF Marks, Within, Blocks
<1> QED BY <1>5, <1>9, <1>10 DEF Follows

--------------------------------------------------------------------------------
(* The parser keeps its invariant *)

LEMMA AllLines ==
    ASSUME ConfigTypeOK
    PROVE  /\ Lines \in Texts /\ Len(Lines) = Len(file) /\ Len(file) \in Nat
           /\ Prefixes(Lines) = {SubSeq(Lines, 1, k) : k \in 0 .. Len(Lines)}
           /\ \A i \in 1 .. Len(Lines) : Lines[i] = Trim(file[i]) /\ Lines[i] \in Seq(STRING)
           /\ Plain(Lines) => \A i \in 1 .. Len(Lines) : IsPlain(Lines[i])
<1>1. file \in Texts
  BY DEF ConfigTypeOK, Texts
<1>2. Lines \in Texts /\ Len(Lines) = Len(file) /\ Len(Lines) \in Nat
  BY <1>1, TextType, Prefix DEF Lines
<1>3. \A i \in 1 .. Len(Lines) : Lines[i] = Trim(file[i]) /\ Lines[i] \in Seq(STRING)
  BY <1>1, <1>2, TextType DEF Lines
<1>4. DOMAIN Lines = 1 .. Len(Lines)
  BY <1>2 DEF Texts
<1>5. Plain(Lines) => \A i \in 1 .. Len(Lines) : IsPlain(Lines[i])
  BY <1>4, Zenon DEF Plain
<1>6. Prefixes(Lines) = {SubSeq(Lines, 1, k) : k \in 0 .. Len(Lines)}
  BY DEF Prefixes
<1> QED BY <1>2, <1>3, <1>5, <1>6

\* The loop takes the line after those that were handled.
LEMMA AtLineRead ==
    ASSUME ConfigTypeOK, Plain(Lines), NEW ls, ReadTo(ls), AtLine
    PROVE  /\ ls \in Texts /\ Line \in Seq(STRING) /\ IsPlain(Line)
           /\ SubSeq(Lines, 1, lineno + 1) = More(ls, Line)
           /\ SubSeq(Lines, 1, lineno + 1) \in Prefixes(Lines) /\ ls \in Prefixes(Lines)
           /\ Line = Lines[lineno + 1] /\ iss = <<>> /\ reading = "parse" /\ ls = SubSeq(Lines, 1, lineno)
           /\ lineno \in Nat
<1>1. reading = "parse" /\ lineno \in 0 .. Len(Lines) - 1 /\ lineno + 1 \in 1 .. Len(Lines)
      /\ lineno + 1 \in 0 .. Len(Lines)
  BY AllLines DEF AtLine, ConfigTypeOK
<1>2. iss = <<>> /\ ls = SubSeq(Lines, 1, lineno)
  BY <1>1 DEF ReadTo, Blocks
<1>3. Line = Lines[lineno + 1] /\ Line \in Seq(STRING) /\ IsPlain(Line)
  BY <1>1, AllLines, Zenon DEF Line
<1>4. ls \in Texts /\ SubSeq(Lines, 1, lineno + 1) = More(ls, Line)
  BY <1>1, <1>2, <1>3, AllLines, Prefix
<1>5. SubSeq(Lines, 1, lineno + 1) \in Prefixes(Lines)
  BY <1>1, AllLines
<1>6. lineno \in 0 .. Len(Lines)
  BY <1>1, AllLines
<1>7. ls \in Prefixes(Lines)
  BY <1>2, <1>6, AllLines
<1>8. lineno \in Nat
  BY <1>1
<1> QED BY <1>1, <1>2, <1>3, <1>4, <1>5, <1>7, <1>8

\* A method has the line after those that were handled, or a rest that does nothing.
LEMMA WordRead ==
    ASSUME ConfigTypeOK, Plain(Lines), NEW ls, ReadTo(ls), reading \in Blocks, iss # <<>>
    PROVE  /\ SubSeq(Lines, 1, lineno) \in Prefixes(Lines)
           /\ \/ iss \in Seq(STRING) /\ Quiet(iss) /\ ls = SubSeq(Lines, 1, lineno)
              \/ /\ reading = checkState /\ ls \in Texts /\ iss \in Seq(STRING) /\ IsPlain(iss)
                 /\ SubSeq(Lines, 1, lineno) = More(ls, iss) /\ lineno > 0 /\ iss = Lines[lineno]
<1>1. SubSeq(Lines, 1, lineno) \in Prefixes(Lines) /\ lineno \in 0 .. Len(Lines)
  BY AllLines DEF ConfigTypeOK
<1>2. ASSUME reading = checkState, lineno > 0, iss = Lines[lineno], ls = SubSeq(Lines, 1, lineno - 1)
      PROVE  ls \in Texts /\ iss \in Seq(STRING) /\ IsPlain(iss) /\ SubSeq(Lines, 1, lineno) = More(ls, iss)
  <2>1. lineno \in 1 .. Len(Lines) /\ lineno - 1 \in 0 .. Len(Lines) - 1 /\ (lineno - 1) + 1 = lineno
        /\ lineno - 1 \in 0 .. Len(Lines)
    BY <1>1, <1>2, AllLines
  <2>2. iss \in Seq(STRING) /\ IsPlain(iss)
    BY <1>2, <2>1, AllLines, Zenon
  <2>3. \A k \in 0 .. Len(Lines) - 1 : SubSeq(Lines, 1, k + 1) = More(SubSeq(Lines, 1, k), Lines[k + 1])
    BY AllLines, Prefix
  <2>4. SubSeq(Lines, 1, (lineno - 1) + 1) = More(SubSeq(Lines, 1, lineno - 1), Lines[(lineno - 1) + 1])
    BY <2>1, <2>3
  <2>5. SubSeq(Lines, 1, lineno) = More(ls, iss)
    BY <1>2, <2>1, <2>4
  <2>6. ls \in Texts
    BY <1>2, <2>1, AllLines, Prefix
  <2> QED BY <2>2, <2>5, <2>6
<1>3. \/ iss \in Seq(STRING) /\ Quiet(iss) /\ ls = SubSeq(Lines, 1, lineno)
      \/ reading = checkState /\ lineno > 0 /\ iss = Lines[lineno] /\ ls = SubSeq(Lines, 1, lineno - 1)
  BY DEF ReadTo, Blocks
<1>4. CASE iss \in Seq(STRING) /\ Quiet(iss) /\ ls = SubSeq(Lines, 1, lineno)
  BY <1>1, <1>4
<1>5. CASE reading = checkState /\ lineno > 0 /\ iss = Lines[lineno] /\ ls = SubSeq(Lines, 1, lineno - 1)
  BY <1>1, <1>2, <1>5
<1> QED BY <1>3, <1>4, <1>5

\* The loop: a line is handled, or handed to a method as it is.
LEMMA OuterLineParse ==
    ASSUME ConfigTypeOK, ParseInv, SkipLine \/ Setting \/ OpenServer \/ OpenUpstream \/ NoBlock \/ CallMethod
    PROVE  ParseInv'
<1> SUFFICES ASSUME Plain(Lines)', outcome' = "parsing", lineState' = "LINE_OK"
             PROVE  (\E ls \in Prefixes(Lines) : ReadTo(ls) /\ Follows(ls))'
  BY DEF ParseInv
<1>1. /\ file' = file /\ AtLine /\ outcome = "parsing" /\ lineState = "LINE_OK"
  BY DEF SkipLine, Setting, OpenServer, OpenUpstream, NoBlock, CallMethod, LineDone, Throw, cursorVars, AtLine,
         AtOuterLine
<1>2. Lines' = Lines
  BY <1>1 DEF Lines
<1>3. Plain(Lines)
  BY <1>2
<1>4. PICK ls \in Prefixes(Lines) : ReadTo(ls) /\ Follows(ls)
  BY <1>1, <1>3 DEF ParseInv
<1>5. PICK l : l = Line
  OBVIOUS
<1>6. /\ ls \in Texts /\ l \in Seq(STRING) /\ IsPlain(l)
      /\ SubSeq(Lines, 1, lineno + 1) = More(ls, l)
      /\ SubSeq(Lines, 1, lineno + 1) \in Prefixes(Lines)
      /\ l = Lines[lineno + 1] /\ iss = <<>> /\ reading = "parse" /\ ls = SubSeq(Lines, 1, lineno)
      /\ lineno \in Nat
  BY <1>1, <1>3, <1>4, <1>5, AtLineRead
<1>7. CASE CallMethod
  <2>1. /\ reading' = checkState /\ checkState' = checkState /\ iss' = l /\ l # <<>> /\ lineno' = lineno + 1
        /\ checkState # "BEGAIN"
    BY <1>5, <1>7 DEF CallMethod, stateVars
  <2>2. checkState \in Blocks
    BY <2>1 DEF ConfigTypeOK
  <2>3. lineno' > 0 /\ lineno' - 1 = lineno
    BY <1>6, <2>1
  <2>4. iss' = Lines'[lineno'] /\ ls = SubSeq(Lines', 1, lineno' - 1)
    BY <1>2, <1>6, <2>1, <2>3
  <2>5. ReadTo(ls)'
    BY <2>1, <2>2, <2>3, <2>4 DEF ReadTo
  <2>6. Follows(ls)'
    BY <1>4, <1>7 DEF CallMethod, stateVars, tableVars, Follows, Stands, Marks, Tells, SettingsTold, LocationsTold,
                      UpstreamsTold
  <2> QED BY <1>2, <1>4, <2>5, <2>6
<1>8. CASE ~CallMethod
  <2>1. reading' = "parse" /\ iss' = <<>> /\ lineno' = lineno + 1
    BY <1>6, <1>8 DEF SkipLine, Setting, OpenServer, OpenUpstream, NoBlock, LineDone, Throw
  <2>2. More(ls, l) = SubSeq(Lines', 1, lineno') /\ More(ls, l) \in Prefixes(Lines')
    BY <1>2, <1>6, <2>1
  <2>3. ReadTo(More(ls, l))'
    BY <2>1, <2>2 DEF ReadTo
  <2>4. SkipLine \/ Setting \/ OpenServer \/ OpenUpstream
    BY <1>8 DEF NoBlock, Throw
  <2>5. Follows(More(ls, l))'
    BY <1>4, <1>5, <1>6, <2>4, SkipLineFollows, SettingFollows, OpenServerFollows, OpenUpstreamFollows
  <2> QED BY <2>2, <2>3, <2>5
<1> QED BY <1>7, <1>8

LEMMA QuietTail ==
    ASSUME NEW words \in Seq(STRING), Quiet(words)
    PROVE  /\ Rest(words) \in Seq(STRING) /\ Quiet(Rest(words))
           /\ words # <<>> => Head(words) \notin Special
<1>1. CASE words = <<>>
  BY <1>1 DEF Rest, Quiet
<1>2. CASE words # <<>>
  <2>1. /\ Rest(words) = Tail(words) /\ Tail(words) \in Seq(STRING) /\ Len(Tail(words)) = Len(words) - 1
        /\ Len(words) \in Nat \ {0} /\ Head(words) = words[1]
        /\ \A k \in 1 .. Len(words) - 1 : Tail(words)[k] = words[k + 1]
    BY <1>2 DEF Rest
  <2>2. \A k \in 1 .. Len(words) - 1 : Tail(words)[k] \notin Special
    BY <2>1 DEF Quiet
  <2>3. Quiet(Tail(words))
    BY <2>1, <2>2 DEF Quiet
  <2>4. Head(words) \notin Special
    BY <2>1 DEF Quiet
  <2> QED BY <2>1, <2>3, <2>4
<1> QED BY <1>1, <1>2

LEMMA MethodEndParse ==
    ASSUME ConfigTypeOK, ParseInv, MethodEnd
    PROVE  ParseInv'
<1> SUFFICES ASSUME Plain(Lines)', outcome' = "parsing", lineState' = "LINE_OK"
             PROVE  (\E ls \in Prefixes(Lines) : ReadTo(ls) /\ Follows(ls))'
  BY DEF ParseInv
<1>1. /\ file' = file /\ lineno' = lineno /\ reading' = "parse" /\ iss' = <<>>
      /\ outcome = "parsing" /\ lineState = "LINE_OK" /\ reading # "parse" /\ iss = <<>>
  BY DEF MethodEnd, Return, stateVars
<1>2. Lines' = Lines /\ Plain(Lines)
  <2>1. Lines' = Lines
    BY <1>1 DEF Lines
  <2> QED BY <2>1
<1>3. PICK ls \in Prefixes(Lines) : ReadTo(ls) /\ Follows(ls)
  BY <1>1, <1>2 DEF ParseInv
<1>4. ls = SubSeq(Lines, 1, lineno)
  BY <1>1, <1>3 DEF ReadTo
<1>5. ReadTo(ls)'
  BY <1>1, <1>2, <1>4 DEF ReadTo
<1>6. Follows(ls)'
  BY <1>3 DEF MethodEnd, stateVars, tableVars, Follows, Stands, Marks, Tells, SettingsTold, LocationsTold,
              UpstreamsTold
<1> QED BY <1>2, <1>3, <1>5, <1>6

\* The directives, each a word of one block.
Directive == ServerName \/ Listen \/ OpenLocation \/ ProxyPass \/ UpstreamServer

\* A step of a method that refuses nothing takes a word that the method knows.
LEMMA MethodWord ==
    ASSUME outcome' = "parsing", lineState' = "LINE_OK", ConfigTypeOK,
           Directive \/ \E m \in Blocks : LeftBracket(m) \/ BadWord(m) \/ CloseBlock(m)
    PROVE  /\ file' = file /\ lineno' = lineno /\ outcome = "parsing" /\ lineState = "LINE_OK"
           /\ reading \in Blocks /\ iss # <<>> /\ Head(iss) \in Special
           /\ \/ Directive \/ LeftBracket(reading) \/ CloseBlock(reading)
           /\ ServerName \/ Listen => reading = "SERVER"
           /\ OpenLocation => reading = "SERVER" /\ reading' = "parse" /\ iss' = <<>>
           /\ ProxyPass => reading = "LOCATION"
           /\ UpstreamServer => reading = "UPSTREAM" /\ Word(Tail(iss), NoWord) \in DOMAIN Endpoint
           /\ ~OpenLocation => /\ reading' = reading /\ iss' \in {Tail(iss), Rest(Tail(iss))}
                               /\ Head(iss) \notin {"location", "upstream"}
                               /\ Head(iss) = "server" => UpstreamServer
<1>1. ASSUME NEW m \in Blocks, BadWord(m) PROVE FALSE
  BY <1>1 DEF BadWord
<1>2. ASSUME NEW m \in Blocks, LeftBracket(m)
      PROVE  /\ file' = file /\ lineno' = lineno /\ outcome = "parsing" /\ lineState = "LINE_OK"
             /\ reading = m /\ iss # <<>> /\ Head(iss) = LeftBrace /\ reading' = reading /\ iss' = Tail(iss)
  BY <1>2 DEF LeftBracket, InMethod, After, Throw
<1>3. ASSUME NEW m \in Blocks, CloseBlock(m)
      PROVE  /\ file' = file /\ lineno' = lineno /\ outcome = "parsing" /\ lineState = "LINE_OK"
             /\ reading = m /\ iss # <<>> /\ Head(iss) = RightBrace /\ reading' = reading /\ iss' = Tail(iss)
  BY <1>3 DEF CloseBlock, InBlock, InMethod, After
<1>4. ASSUME ServerName
      PROVE  /\ file' = file /\ lineno' = lineno /\ outcome = "parsing" /\ lineState = "LINE_OK"
             /\ reading = "SERVER" /\ iss # <<>> /\ Head(iss) = "server_name" /\ reading' = reading
             /\ iss' = Rest(Tail(iss))
  BY <1>4 DEF ServerName, InBlock, InMethod, After, stateVars
<1>5. ASSUME Listen
      PROVE  /\ file' = file /\ lineno' = lineno /\ outcome = "parsing" /\ lineState = "LINE_OK"
             /\ reading = "SERVER" /\ iss # <<>> /\ Head(iss) = "listen" /\ reading' = reading
             /\ iss' = Rest(Tail(iss))
  BY <1>5 DEF Listen, InBlock, InMethod, After, stateVars, Throw
<1>6. ASSUME OpenLocation
      PROVE  /\ file' = file /\ lineno' = lineno /\ outcome = "parsing" /\ lineState = "LINE_OK"
             /\ reading = "SERVER" /\ iss # <<>> /\ Head(iss) = "location" /\ reading' = "parse" /\ iss' = <<>>
  BY <1>6 DEF OpenLocation, InBlock, InMethod, Return
<1>7. ASSUME ProxyPass
      PROVE  /\ file' = file /\ lineno' = lineno /\ outcome = "parsing" /\ lineState = "LINE_OK"
             /\ reading = "LOCATION" /\ iss # <<>> /\ Head(iss) = "proxy_pass" /\ reading' = reading
             /\ iss' = Rest(Tail(iss))
  BY <1>7 DEF ProxyPass, InBlock, InMethod, After, stateVars
<1>8. ASSUME UpstreamServer
      PROVE  /\ file' = file /\ lineno' = lineno /\ outcome = "parsing" /\ lineState = "LINE_OK"
             /\ reading = "UPSTREAM" /\ iss # <<>> /\ Head(iss) = "server" /\ reading' = reading
             /\ iss' = Rest(Tail(iss)) /\ Word(Tail(iss), NoWord) \in DOMAIN Endpoint
  BY <1>8 DEF UpstreamServer, InBlock, InMethod, After, stateVars
<1>9. {LeftBrace, RightBrace, "server", "server_name", "listen", "location", "proxy_pass"} = Special
      /\ {"SERVER", "LOCATION", "UPSTREAM"} = Blocks
      /\ {LeftBrace, RightBrace} \cap {"server", "upstream", "location"} = {}
  BY Words DEF Special, Blocks
<1>10. CASE \E m \in Blocks : LeftBracket(m) \/ BadWord(m) \/ CloseBlock(m)
  <2>1. PICK m \in Blocks : LeftBracket(m) \/ CloseBlock(m)
    BY <1>1, <1>10
  <2>2. /\ file' = file /\ lineno' = lineno /\ outcome = "parsing" /\ lineState = "LINE_OK"
        /\ reading = m /\ iss # <<>> /\ Head(iss) \in {LeftBrace, RightBrace} /\ reading' = reading /\ iss' = Tail(iss)
    BY <1>2, <1>3, <2>1
  <2>3. ~(ServerName \/ Listen \/ OpenLocation \/ ProxyPass \/ UpstreamServer)
    BY <1>4, <1>5, <1>6, <1>7, <1>8, <2>2, Words
  <2> QED BY <1>9, <2>1, <2>2, <2>3
<1>11. CASE Directive
  BY <1>4, <1>5, <1>6, <1>7, <1>8, <1>9, <1>11 DEF Directive
<1> QED BY <1>10, <1>11

\* A method: the line has been handled when its first words have, the rest is quiet.
LEMMA WordParse ==
    ASSUME ConfigTypeOK, ParseInv,
           Directive \/ \E m \in Blocks : LeftBracket(m) \/ BadWord(m) \/ CloseBlock(m)
    PROVE  ParseInv'
<1> SUFFICES ASSUME Plain(Lines)', outcome' = "parsing", lineState' = "LINE_OK"
             PROVE  (\E ls \in Prefixes(Lines) : ReadTo(ls) /\ Follows(ls))'
  BY DEF ParseInv
<1>1. /\ file' = file /\ lineno' = lineno /\ outcome = "parsing" /\ lineState = "LINE_OK"
      /\ reading \in Blocks /\ iss # <<>> /\ Head(iss) \in Special
  BY MethodWord
<1>2. Lines' = Lines /\ Plain(Lines)
  <2>1. Lines' = Lines
    BY <1>1 DEF Lines
  <2> QED BY <2>1
<1>3. PICK ls \in Prefixes(Lines) : ReadTo(ls) /\ Follows(ls)
  BY <1>1, <1>2 DEF ParseInv
<1>4. PICK l : l = iss
  OBVIOUS
<1>5. /\ reading = checkState /\ ls \in Texts /\ l \in Seq(STRING) /\ IsPlain(l) /\ l # <<>>
      /\ SubSeq(Lines, 1, lineno) = More(ls, l) /\ SubSeq(Lines, 1, lineno) \in Prefixes(Lines)
  <2>1. ~(iss \in Seq(STRING) /\ Quiet(iss))
    BY <1>1, QuietTail, Zenon
  <2>2. /\ SubSeq(Lines, 1, lineno) \in Prefixes(Lines)
        /\ reading = checkState /\ ls \in Texts /\ iss \in Seq(STRING) /\ IsPlain(iss)
        /\ SubSeq(Lines, 1, lineno) = More(ls, iss)
    BY <1>1, <1>2, <1>3, <2>1, WordRead, Zenon
  <2> QED BY <1>1, <1>4, <2>2
<1>6. More(ls, l) = SubSeq(Lines', 1, lineno') /\ More(ls, l) \in Prefixes(Lines')
  BY <1>1, <1>2, <1>5
<1>7. ReadTo(More(ls, l))'
  <2>1. CASE OpenLocation
    BY <1>6, <2>1, MethodWord DEF ReadTo
  <2>2. CASE ~OpenLocation
    <3>1. /\ reading' = reading /\ iss' \in {Tail(l), Rest(Tail(l))}
          /\ Head(l) \notin {"location", "upstream"}
          /\ Head(l) = "server" => Word(Tail(l), NoWord) \in DOMAIN Endpoint
      BY <1>4, <2>2, MethodWord
    <3>2. Quiet(Tail(l)) /\ Tail(l) \in Seq(STRING)
      <4>1. LeftBrace \notin DOMAIN Endpoint
        BY ConfigAssumption
      <4>2. Head(l) = "server" => Word(Tail(l), NoWord) # LeftBrace
        BY <3>1, <4>1
      <4>3. Head(l) # "server" => Head(l) \notin {"server", "location", "upstream"}
        BY <3>1
      <4>4. Quiet(Tail(l))
        BY <1>5, <4>2, <4>3, PlainLine, Zenon
      <4> QED BY <1>5, <4>4
    <3>3. Quiet(iss') /\ iss' \in Seq(STRING)
      <4>1. Quiet(Rest(Tail(l))) /\ Rest(Tail(l)) \in Seq(STRING)
        BY <3>2, QuietTail
      <4>2. CASE iss' = Tail(l)
        BY <3>2, <4>2
      <4>3. CASE iss' = Rest(Tail(l))
        BY <4>1, <4>3
      <4> QED BY <3>1, <4>2, <4>3
    <3> QED BY <1>1, <1>6, <3>1, <3>3 DEF ReadTo, Quiet
  <2> QED BY <2>1, <2>2
<1>8. Follows(More(ls, l))'
  <2>1. CASE Directive
    BY <1>1, <1>3, <1>4, <1>5, <2>1, MethodWord, ServerNameFollows, ListenFollows, OpenLocationFollows,
       ProxyPassFollows, UpstreamServerFollows DEF Directive
  <2>2. CASE LeftBracket(reading)
    BY <1>1, <1>3, <1>4, <1>5, <2>2, LeftBracketFollows
  <2>3. CASE CloseBlock(reading)
    BY <1>1, <1>3, <1>4, <1>5, <2>3, CloseBlockFollows
  <2> QED BY <2>1, <2>2, <2>3, MethodWord
<1> QED BY <1>6, <1>7, <1>8

LEMMA ParseInvParse ==
    ASSUME ConfigTypeOK, ParseInv, ParseNext
    PROVE  ParseInv'
<1>1. CASE SkipLine \/ Setting \/ OpenServer \/ OpenUpstream \/ NoBlock \/ CallMethod
  BY <1>1, OuterLineParse
<1>2. CASE MethodEnd
  BY <1>2, MethodEndParse
<1>3. CASE Directive \/ \E m \in Blocks : LeftBracket(m) \/ BadWord(m) \/ CloseBlock(m)
  BY <1>3, WordParse
<1>4. CASE ParseEnd
  BY <1>4 DEF ParseEnd, ParseInv
<1> QED BY <1>1, <1>2, <1>3, <1>4 DEF ParseNext, Directive

LEMMA ParseInvInit == ParseInit => ParseInv
<1> SUFFICES ASSUME ParseInit PROVE ParseInv
  OBVIOUS
<1>1. ConfigTypeOK
  BY ConfigInvInit DEF ConfigInv
<1>2. /\ reading = "parse" /\ iss = <<>> /\ lineno = 0 /\ checkState = "BEGAIN"
      /\ bracket = [b \in Blocks |-> FALSE]
      /\ server.listen = Unset /\ server.server_name = NoWord /\ server.locations = <<>>
      /\ upstreams = <<>> /\ threadNum = Unset /\ queSize = Unset
  BY DEF ParseInit
<1>3. SubSeq(Lines, 1, 0) = <<>> /\ SubSeq(Lines, 1, 0) \in Prefixes(Lines)
  <2>1. Lines \in Texts /\ 0 \in 0 .. Len(Lines)
    BY <1>1, AllLines
  <2>2. SubSeq(Lines, 1, 0) = <<>>
    BY <2>1, Prefix
  <2>3. SubSeq(Lines, 1, 0) \in Prefixes(Lines)
    BY <1>1, <2>1, AllLines
  <2> QED BY <2>2, <2>3
<1>4. \A w : LinesOf(<<>>, w) = {} /\ LinesWith(<<>>, w) = {} /\ Named(<<>>, w) = {}
  <2>1. DOMAIN <<>> = {}
    OBVIOUS
  <2>2. \A w : LinesOf(<<>>, w) = {}
    BY <2>1 DEF LinesOf
  <2>3. \A w : LinesWith(<<>>, w) = {}
    BY <2>1 DEF LinesWith
  <2> QED BY <2>2, <2>3 DEF Named
<1>5. ReadTo(<<>>)
  BY <1>2, <1>3 DEF ReadTo
<1>6. Stands(<<>>)
  <2>1. HeaderLines(<<>>) = {}
    BY <1>4 DEF HeaderLines
  <2>2. Cardinality({}) = 0
    BY FS_EmptySet
  <2>3. Depth(<<>>) = 0 - 0 /\ Waiting(<<>>) = 0 - 0
    BY <1>4, <2>1, <2>2, Zenon DEF Depth, Waiting
  <2>4. Depth(<<>>) = 0 /\ Waiting(<<>>) = 0
    BY <2>3
  <2> QED BY <1>2, <2>4 DEF Stands
<1>7. Marks(<<>>)
  BY <1>2, <1>4 DEF Marks
<1>8. Tells(<<>>)
  <2>1. SettingsTold(<<>>)
    BY <1>2, <1>4, NothingSaid DEF SettingsTold, ToldNumber
  <2>2. LocationsTold(<<>>)
    BY <1>2, <1>4 DEF LocationsTold
  <2>3. UpstreamsTold(<<>>)
    BY <1>2, <1>4 DEF UpstreamsTold
  <2> QED BY <2>1, <2>2, <2>3 DEF Tells
<1> QED BY <1>3, <1>5, <1>6, <1>7, <1>8 DEF ParseInv, Follows

\* The file is accepted after its last line, outside of all blocks.
LEMMA ParsedInvParse ==
    ASSUME ConfigTypeOK, ParseInv, ParseNext
    PROVE  ParsedInv'
<1> SUFFICES ASSUME Plain(Lines)', outcome' = "parsed"
             PROVE  (Depth(Lines) = 0 /\ Waiting(Lines) = 0 /\ Tells(Lines))'
  BY DEF ParsedInv
<1>1. ParseEnd
  BY DEF ParseNext, SkipLine, Setting, OpenServer, OpenUpstream, NoBlock, CallMethod, MethodEnd, LeftBracket,
     BadWord, CloseBlock, ServerName, Listen, OpenLocation, ProxyPass, UpstreamServer, AtLine, AtOuterLine,
     LineDone, InBlock, InMethod, After, Return, Throw
<1>2. /\ outcome = "parsing" /\ reading = "parse" /\ lineState = "LINE_OK" /\ lineno = Len(file)
      /\ checkState = "BEGAIN" /\ file' = file
      /\ UNCHANGED tableVars
  BY <1>1 DEF ParseEnd, cursorVars
<1>3. Lines' = Lines
  BY <1>2 DEF Lines
<1>4. Plain(Lines)
  BY <1>3
<1>5. PICK ls \in Prefixes(Lines) : ReadTo(ls) /\ Follows(ls)
  BY <1>2, <1>4 DEF ParseInv
<1>6. ls = SubSeq(Lines, 1, lineno)
  BY <1>2, <1>5 DEF ReadTo, Blocks
<1>7. Lines \in Texts /\ Len(Lines) = Len(file)
  BY AllLines
<1>8. SubSeq(Lines, 1, Len(Lines)) = Lines
  BY <1>7, Prefix
<1>9. ls = Lines'
  BY <1>2, <1>3, <1>6, <1>7, <1>8
<1>10. Depth(ls) = 0 /\ Waiting(ls) = 0 /\ Tells(ls)
  BY <1>2, <1>5 DEF Follows, Stands
<1>11. Tells(ls)'
  BY <1>2, <1>10 DEF tableVars, Tells, SettingsTold, LocationsTold, UpstreamsTold
<1> QED BY <1>9, <1>10, <1>11 DEF Tells, SettingsTold, LocationsTold, UpstreamsTold

LEMMA ParsedSame ==
    ASSUME ParseInv, ParsedInv, UNCHANGED parseVars
    PROVE  ParseInv' /\ ParsedInv'
<1>1. Lines' = Lines
  BY DEF Lines, parseVars
<1>2. ASSUME NEW ls, Tells(ls) PROVE Tells(ls)'
  BY <1>2 DEF parseVars, Tells, SettingsTold, LocationsTold, UpstreamsTold
<1>3. ASSUME NEW ls, ReadTo(ls), Follows(ls) PROVE ReadTo(ls)' /\ Follows(ls)'
  <2>1. ReadTo(ls)'
    BY <1>1, <1>3 DEF parseVars, ReadTo
  <2>2. Stands(ls)' /\ Marks(ls)'
    BY <1>3 DEF parseVars, Stands, Marks, Follows
  <2>3. Tells(ls)'
    BY <1>2, <1>3 DEF Follows
  <2> QED BY <2>1, <2>2, <2>3 DEF Follows
<1>4. ParseInv'
  BY <1>1, <1>3 DEF ParseInv, parseVars
<1>5. ParsedInv'
  <2> SUFFICES ASSUME Plain(Lines)', outcome' = "parsed"
               PROVE  (Depth(Lines) = 0 /\ Waiting(Lines) = 0 /\ Tells(Lines))'
    BY DEF ParsedInv
  <2>1. PICK ls : ls = Lines'
    OBVIOUS
  <2>2. Depth(ls) = 0 /\ Waiting(ls) = 0 /\ Tells(ls)
    BY <1>1, <2>1 DEF ParsedInv, parseVars
  <2>3. Tells(ls)'
    BY <1>2, <2>2
  <2> QED BY <2>1, <2>2, <2>3 DEF Tells, SettingsTold, LocationsTold, UpstreamsTold
<1> QED BY <1>4, <1>5

\* operator[] makes an upstream without servers, of which the file says nothing.
LEMMA ParsedNextLocation ==
    ASSUME ParsedInv, NEW l, NextLocation(l), outcome' = "parsed"
    PROVE  ParsedInv'
<1> SUFFICES ASSUME Plain(Lines)'
             PROVE  (Depth(Lines) = 0 /\ Waiting(Lines) = 0 /\ Tells(Lines))'
  BY DEF ParsedInv
<1> DEFINE h == Host[server.locations[l]]
<1>1. /\ file' = file /\ outcome = "parsed" /\ UNCHANGED <<server, threadNum, queSize>>
      /\ upstreams' = Insert(upstreams, h, <<>>)
  BY DEF NextLocation, Fail, cursorVars
<1>2. Lines' = Lines
  BY <1>1 DEF Lines
<1>3. PICK ls : ls = Lines
  OBVIOUS
<1>4. Depth(ls) = 0 /\ Waiting(ls) = 0 /\ Tells(ls)
  BY <1>1, <1>2, <1>3 DEF ParsedInv
<1> HIDE DEF h
<1>5. /\ DOMAIN upstreams' = DOMAIN upstreams \cup {h}
      /\ \A name \in DOMAIN upstreams : upstreams'[name] = upstreams[name]
      /\ h \notin DOMAIN upstreams => upstreams'[h] = <<>>
  BY <1>1 DEF Insert
<1>6. ASSUME h \notin DOMAIN upstreams
      PROVE  /\ <<>> \in Seq(Ends) /\ ListsServers(<<>>, ls, ToldServers(ls, h))
             /\ \A k \in 1 .. Len(<<>>) : FALSE
  <2>1. h \notin Named(ls, "upstream")
    BY <1>4, <1>6 DEF Tells, UpstreamsTold
  <2>2. ToldServers(ls, h) = {}
    BY <2>1 DEF ToldServers, LinesIn, Named
  <2>3. ListsServers(<<>>, ls, {})
    BY NothingSaid, Zenon
  <2> QED BY <2>2, <2>3
<1>7. UpstreamsTold(ls)'
  <2>1. ASSUME NEW name \in DOMAIN upstreams'
        PROVE  /\ upstreams'[name] \in Seq(Ends)
               /\ ListsServers(upstreams'[name], ls, ToldServers(ls, name))
               /\ \A k \in 1 .. Len(upstreams'[name]) : \E i \in LinesOf(ls, "server") :
                     Value(ls, i) \in DOMAIN Endpoint /\ upstreams'[name][k] = Endpoint[Value(ls, i)]
    <3>1. CASE name \in DOMAIN upstreams
      BY <1>4, <1>5, <3>1 DEF Tells, UpstreamsTold
    <3>2. CASE name \notin DOMAIN upstreams
      <4>1. name = h /\ upstreams'[name] = <<>>
        BY <1>5, <3>2
      <4> QED BY <1>6, <3>2, <4>1
    <3> QED BY <3>1, <3>2
  <2>2. Named(ls, "upstream") \subseteq DOMAIN upstreams'
    BY <1>4, <1>5 DEF Tells, UpstreamsTold
  <2> QED BY <2>1, <2>2 DEF UpstreamsTold
<1>8. Tells(ls)'
  BY <1>1, <1>4, <1>7 DEF Tells, SettingsTold, LocationsTold
<1>9. ls = Lines'
  BY <1>2, <1>3
<1> QED BY <1>4, <1>8, <1>9 DEF Tells, SettingsTold, LocationsTold, UpstreamsTold

--------------------------------------------------------------------------------
(* The start-up *)

Given == DOMAIN serverConns \ {-1}

LEMMA StartInvSame ==
    ASSUME StartInv, IsFiniteSet(Given), UNCHANGED <<serverConns, forwarding>>,
           UNCHANGED <<stage, location>> \/ stage' # "location"
    PROVE  StartInv' /\ IsFiniteSet(Given')
<1>1. Given' = Given
  BY DEF Given
<1>2. Given' = FirstFd .. FirstFd + Cardinality(Given') - 1
  BY <1>1 DEF StartInv, Given
<1>3. EntriesOwnTheirConns'
  BY DEF StartInv, EntriesOwnTheirConns
<1>4. \A l \in DOMAIN forwarding' : forwarding'[l] \in Seq(DOMAIN serverConns')
  BY DEF StartInv
<1>5. stage' = "location" => location' \in DOMAIN forwarding'
  BY DEF StartInv
<1> QED BY <1>1, <1>2, <1>3, <1>4, <1>5 DEF StartInv, Given

\* Each number given out is the next one, and only one row of one location gets it.
LEMMA StartInvConnect ==
    ASSUME StartInv, IsFiniteSet(Given), ConnectOne
    PROVE  StartInv' /\ IsFiniteSet(Given')
<1> DEFINE e   == Servers[Len(Row) + 1]
           n   == Cardinality(Given)
           new == NewFd(e)
<1>1. CASE Fail
  BY <1>1, StartInvSame DEF Fail, startVars
<1>2. CASE ~Fail
  <2>1. /\ stage = "location" /\ stage' = stage /\ location' = location
        /\ forwarding' = [forwarding EXCEPT ![location] = Append(@, new)]
        /\ serverConns' = Insert(serverConns, new, e)
    BY <1>2 DEF ConnectOne
  <2>2. n \in Nat /\ Given = FirstFd .. FirstFd + n - 1
    BY FS_CardinalityType DEF StartInv, Given
  <2>3. new = -1 \/ new = FirstFd + n
    BY DEF NewFd, Given
  <2>4. DOMAIN serverConns' = DOMAIN serverConns \cup {new}
    BY <2>1 DEF Insert
  <2>5. IsFiniteSet(Given') /\ Given' = FirstFd .. FirstFd + Cardinality(Given') - 1
    <3>1. CASE new = -1
      <4>1. Given' = Given
        BY <2>4, <3>1 DEF Given
      <4> QED BY <4>1, <2>2
    <3>2. CASE new = FirstFd + n
      <4>1. new \in Nat /\ new # -1
        BY <2>2, <3>2, StartAssumption
      <4>2. Given' = Given \cup {new}
        BY <2>4, <4>1 DEF Given
      <4>3. new \notin Given
        BY <2>2, <3>2, StartAssumption
      <4>4. Cardinality(Given') = n + 1 /\ IsFiniteSet(Given')
        BY <4>2, <4>3, FS_AddElement
      <4>5. Given \cup {new} = FirstFd .. FirstFd + (n + 1) - 1
        BY <2>2, <3>2, StartAssumption
      <4> QED BY <4>2, <4>4, <4>5
    <3> QED BY <2>3, <3>1, <3>2
  <2>6. /\ location \in DOMAIN forwarding
        /\ \A l \in DOMAIN forwarding : forwarding[l] \in Seq(DOMAIN serverConns)
    BY <2>1 DEF StartInv
  <2>7. /\ DOMAIN forwarding' = DOMAIN forwarding
        /\ forwarding'[location] = Append(Row, new)
        /\ \A l \in DOMAIN forwarding : l # location => forwarding'[l] = forwarding[l]
    BY <2>1, <2>6 DEF Row
  <2>8. \A l \in DOMAIN forwarding' : forwarding'[l] \in Seq(DOMAIN serverConns')
    <3> SUFFICES ASSUME NEW l \in DOMAIN forwarding' PROVE forwarding'[l] \in Seq(DOMAIN serverConns')
      OBVIOUS
    <3>1. forwarding[l] \in Seq(DOMAIN serverConns')
      BY <2>4, <2>6, <2>7
    <3>2. CASE l = location
      BY <2>4, <2>7, <3>1, <3>2 DEF Row
    <3> QED BY <2>7, <3>1, <3>2
  <2>9. EntriesOwnTheirConns'
    <3> SUFFICES ASSUME NEW k \in DOMAIN forwarding', NEW l \in DOMAIN forwarding',
                        NEW i \in DOMAIN (forwarding'[k]), NEW j \in DOMAIN (forwarding'[l]),
                        forwarding'[k][i] = forwarding'[l][j], forwarding'[k][i] # -1
                 PROVE  <<k, i>> = <<l, j>>
      BY DEF EntriesOwnTheirConns
    <3>1. ASSUME NEW m \in DOMAIN forwarding, NEW p \in DOMAIN forwarding'[m]
          PROVE  \/ p \in DOMAIN forwarding[m] /\ forwarding'[m][p] = forwarding[m][p]
                    /\ forwarding[m][p] \in DOMAIN serverConns
                 \/ m = location /\ p = Len(Row) + 1 /\ forwarding'[m][p] = new
      <4>1. forwarding[m] \in Seq(DOMAIN serverConns)
        BY <2>6
      <4>2. CASE m = location
        BY <4>1, <4>2, <2>6, <2>7 DEF Row
      <4>3. CASE m # location
        BY <4>1, <4>3, <2>7
      <4> QED BY <4>2, <4>3
    <3>2. new = -1 \/ new \notin DOMAIN serverConns
      <4>1. new # -1 => new \notin Given
        BY <2>2, <2>3, StartAssumption
      <4> QED BY <4>1 DEF Given
    <3> QED BY <2>7, <3>1, <3>2 DEF StartInv, EntriesOwnTheirConns
  <2> QED BY <2>1, <2>5, <2>7, <2>8, <2>9 DEF StartInv, Given
<1> QED BY <1>1, <1>2

LEMMA StartInvStep ==
    ASSUME StartInv, IsFiniteSet(Given), [StartNext]_vars
    PROVE  StartInv' /\ IsFiniteSet(Given')
<1>1. CASE ConnectOne
  BY <1>1, StartInvConnect
<1>2. ASSUME NEW l \in todo, NextLocation(l)
      PROVE  StartInv' /\ IsFiniteSet(Given')
  <2>1. CASE Fail
    BY <2>1, StartInvSame DEF Fail, startVars
  <2>2. CASE ~Fail
    <3>1. /\ serverConns' = serverConns /\ location' = l
          /\ forwarding' = [x \in DOMAIN forwarding \cup {l} |-> IF x = l THEN <<>> ELSE forwarding[x]]
      BY <1>2, <2>2 DEF NextLocation
    <3>2. \A m \in DOMAIN forwarding' : forwarding'[m] = <<>> \/
              (m \in DOMAIN forwarding /\ forwarding'[m] = forwarding[m])
      BY <3>1
    <3>3. \A m \in DOMAIN forwarding' : forwarding'[m] \in Seq(DOMAIN serverConns')
      <4> SUFFICES ASSUME NEW m \in DOMAIN forwarding' PROVE forwarding'[m] \in Seq(DOMAIN serverConns')
        OBVIOUS
      <4>1. CASE forwarding'[m] = <<>>
        BY <4>1
      <4>2. CASE m \in DOMAIN forwarding /\ forwarding'[m] = forwarding[m]
        BY <3>1, <4>2 DEF StartInv
      <4> QED BY <3>2, <4>1, <4>2
    <3>4. EntriesOwnTheirConns'
      BY <3>2 DEF StartInv, EntriesOwnTheirConns
    <3> QED BY <3>1, <3>3, <3>4 DEF StartInv, Given
  <2> QED BY <2>1, <2>2
<1>3. CASE Parse
  BY <1>3, StartInvSame DEF Parse, startVars
<1>4. CASE Construct
  BY <1>4, StartInvSame DEF Construct, Fail, startVars
<1>5. CASE Ready \/ LocationDone \/ StartPool
  BY <1>5, StartInvSame DEF Ready, LocationDone, StartPool
<1>6. CASE UNCHANGED vars
  BY <1>6, StartInvSame DEF vars
<1> QED BY <1>1, <1>2, <1>3, <1>4, <1>5, <1>6 DEF StartNext

LEMMA StartInvInit == StartInit => StartInv /\ IsFiniteSet(Given)
<1> SUFFICES ASSUME StartInit PROVE StartInv /\ IsFiniteSet(Given)
  OBVIOUS
<1>0. serverConns = <<>> /\ forwarding = <<>> /\ stage = "parsing"
  BY DEF StartInit
<1>1. Given = {} /\ DOMAIN forwarding = {}
  BY <1>0 DEF Given
<1>2. Cardinality(Given) = 0 /\ IsFiniteSet(Given)
  BY <1>1, FS_EmptySet
<1> QED BY <1>0, <1>1, <1>2, StartAssumption DEF StartInv, EntriesOwnTheirConns, Given

\* EventLoop.cc:131-136: for every file and whatever servers answer, no two
\* entries of the forwarding table name one connection.
THEOREM StartEntriesOwnTheirConns == StartSpec => []EntriesOwnTheirConns
<1>2. StartInv /\ IsFiniteSet(Given) /\ [StartNext]_vars => StartInv' /\ IsFiniteSet(Given)'
  BY StartInvStep DEF Given
<1>3. StartInv => EntriesOwnTheirConns
  BY DEF StartInv
<1> QED BY StartInvInit, <1>2, <1>3, PTL DEF StartSpec

--------------------------------------------------------------------------------
(* The rows of the forwarding table *)

\* The rows of the forwarding table: those of the locations that have had their
\* turn are complete, that of the one at hand is as far as it goes, and each
\* number in them is what became of the server at its place.
Served(l) == upstreams[Host[server.locations[l]]]
Connected(fd, e) == IF Address(e) \in up THEN fd >= FirstFd /\ fd \in DOMAIN serverConns /\ serverConns[fd] = e
                                     ELSE fd = -1
RowsInv ==
    /\ stage \in {"parsing", "constructed"} => forwarding = <<>>
    /\ stage \in {"connecting", "location", "running"} =>
          DOMAIN forwarding = DOMAIN server.locations \ todo /\ todo \subseteq DOMAIN server.locations
    /\ stage \in {"constructed", "running"} => outcome = "parsed"
    /\ stage = "running" => todo = {}
    /\ stage \in {"parsing", "constructed", "connecting", "location", "running"}
    /\ \A l \in DOMAIN forwarding :
          /\ server.locations[l] \in DOMAIN Host /\ Host[server.locations[l]] \in DOMAIN upstreams
          /\ Len(forwarding[l]) <= Len(Served(l))
          /\ Len(forwarding[l]) = Len(Served(l)) \/ (stage = "location" /\ l = location)
          /\ \A i \in 1 .. Len(forwarding[l]) : Connected(forwarding[l][i], Served(l)[i])

UpstreamTypes == \A name \in DOMAIN upstreams : upstreams[name] \in Seq(Ends)

\* A location begins with an empty row.
LEMMA RowsNextLocation ==
    ASSUME RowsInv, UpstreamTypes, NEW l \in todo, NextLocation(l)
    PROVE  RowsInv'
<1>1. CASE Fail
  BY <1>1 DEF Fail, cursorVars, stateVars, tableVars, startVars, RowsInv, Served, Connected, NextLocation
<1>2. CASE ~Fail
  <2> DEFINE h == Host[server.locations[l]]
  <2>1. /\ stage = "connecting" /\ stage' = "location" /\ location' = l /\ todo' = todo \ {l}
        /\ server.locations[l] \in DOMAIN Host
        /\ forwarding' = [x \in DOMAIN forwarding \cup {l} |-> IF x = l THEN <<>> ELSE forwarding[x]]
        /\ upstreams' = Insert(upstreams, h, <<>>)
        /\ UNCHANGED <<server, outcome, up, serverConns>>
    BY <1>2 DEF NextLocation
  <2> HIDE DEF h
  <2>2. /\ DOMAIN upstreams' = DOMAIN upstreams \cup {h}
        /\ \A name \in DOMAIN upstreams : upstreams'[name] = upstreams[name]
    BY <2>1 DEF Insert
  <2>3. DOMAIN forwarding' = DOMAIN server'.locations \ todo' /\ todo' \subseteq DOMAIN server'.locations
    BY <2>1 DEF RowsInv
  <2>4. ASSUME NEW k \in DOMAIN forwarding'
        PROVE  /\ server'.locations[k] \in DOMAIN Host /\ Host[server'.locations[k]] \in DOMAIN upstreams'
               /\ Len(forwarding'[k]) <= Len(Served(k))'
               /\ Len(forwarding'[k]) = Len(Served(k))' \/ (stage' = "location" /\ k = location')
               /\ \A i \in 1 .. Len(forwarding'[k]) : Connected(forwarding[k][i], Served(k)[i])'
    <3>1. CASE k = l
      <4>1. forwarding'[k] = <<>> /\ Len(<<>>) = 0
        BY <2>1, <3>1
      <4>2. Host[server'.locations[k]] = h /\ h \in DOMAIN upstreams'
        BY <2>1, <2>2, <3>1 DEF h
      <4>3. h \in DOMAIN upstreams => upstreams'[h] \in Seq(Ends)
        BY <2>2 DEF UpstreamTypes
      <4>4. h \notin DOMAIN upstreams => upstreams'[h] = <<>>
        BY <2>1 DEF Insert
      <4>5. Served(k)' = upstreams'[h]
        BY <4>2 DEF Served
      <4>6. Len(<<>>) <= Len(upstreams'[h])
        <5>1. \A s \in Seq(Ends) : Len(s) \in Nat
          OBVIOUS
        <5> QED BY <4>1, <4>3, <4>4, <5>1
      <4> QED BY <2>1, <3>1, <4>1, <4>2, <4>5, <4>6
    <3>2. CASE k # l
      <4>1. /\ k \in DOMAIN forwarding /\ forwarding'[k] = forwarding[k]
            /\ server'.locations[k] = server.locations[k]
        BY <2>1, <3>2
      <4>2. /\ server.locations[k] \in DOMAIN Host /\ Host[server.locations[k]] \in DOMAIN upstreams
            /\ Len(forwarding[k]) <= Len(Served(k)) /\ Len(forwarding[k]) = Len(Served(k))
            /\ \A i \in 1 .. Len(forwarding[k]) : Connected(forwarding[k][i], Served(k)[i])
        BY <2>1, <4>1 DEF RowsInv
      <4>3. Served(k)' = Served(k) /\ Host[server'.locations[k]] \in DOMAIN upstreams'
        BY <2>1, <2>2, <4>1, <4>2 DEF Served
      <4>4. \A i \in 1 .. Len(forwarding'[k]) : Connected(forwarding[k][i], Served(k)[i])'
        BY <2>1, <4>1, <4>2, <4>3 DEF Connected
      <4> QED BY <4>1, <4>2, <4>3, <4>4
    <3> QED BY <3>1, <3>2
  <2> QED BY <2>1, <2>3, <2>4 DEF RowsInv
<1> QED BY <1>1, <1>2

\* The next server in the file has the next place in the row, connected or not.
LEMMA RowsConnect ==
    ASSUME RowsInv, UpstreamTypes, StartInv, IsFiniteSet(Given), ConnectOne
    PROVE  RowsInv'
<1>1. CASE Fail
  BY <1>1 DEF Fail, cursorVars, stateVars, tableVars, startVars, RowsInv, Served, Connected, ConnectOne
<1>2. CASE ~Fail
  <2>0. PICK e, new, n : e = Servers[Len(Row) + 1] /\ new = NewFd(e) /\ n = Cardinality(Given)
    OBVIOUS
  <2>1. /\ stage = "location" /\ Len(Row) < Len(Servers)
        /\ forwarding' = [forwarding EXCEPT ![location] = Append(@, new)]
        /\ serverConns' = Insert(serverConns, new, e)
        /\ UNCHANGED <<stage, location, server, upstreams, outcome, todo, up>>
    BY <1>2, <2>0 DEF ConnectOne, parseVars, tableVars
  <2>2. n \in Nat /\ Given = FirstFd .. FirstFd + n - 1
    BY <2>0, FS_CardinalityType DEF StartInv, Given
  <2>3. new = IF Address(e) \in up THEN FirstFd + n ELSE -1
    BY <2>0 DEF NewFd, Given
  <2>4. location \in DOMAIN forwarding /\ Row \in Seq(DOMAIN serverConns) /\ Len(Row) \in Nat
    BY <2>1 DEF StartInv, Row
  <2>5. /\ server.locations[location] \in DOMAIN Host /\ Servers = Served(location)
        /\ Servers \in Seq(Ends) /\ Len(Servers) \in Nat
    BY <2>4 DEF RowsInv, UpstreamTypes, Served, Servers
  <2>6. Address(e) \in up => new >= FirstFd /\ new \notin DOMAIN serverConns /\ new # -1
    BY <2>2, <2>3, StartAssumption DEF Given
  <2>7. /\ DOMAIN serverConns' = DOMAIN serverConns \cup {new}
        /\ \A fd \in DOMAIN serverConns : serverConns'[fd] = serverConns[fd]
        /\ new \notin DOMAIN serverConns => serverConns'[new] = e
    BY <2>1 DEF Insert
  <2>8. Connected(new, e)'
    BY <2>1, <2>3, <2>6, <2>7 DEF Connected
  <2>9. ASSUME NEW fd, NEW x, Connected(fd, x)
        PROVE  Connected(fd, x)'
    BY <2>1, <2>7, <2>9 DEF Connected
  <2>10. /\ DOMAIN forwarding' = DOMAIN forwarding
         /\ forwarding'[location] = Append(Row, new)
         /\ \A l \in DOMAIN forwarding : l # location => forwarding'[l] = forwarding[l]
    BY <2>1, <2>4 DEF Row
  <2>11. ASSUME NEW l \in DOMAIN forwarding'
         PROVE  /\ server'.locations[l] \in DOMAIN Host /\ Host[server'.locations[l]] \in DOMAIN upstreams'
                /\ Len(forwarding'[l]) <= Len(Served(l))'
                /\ Len(forwarding'[l]) = Len(Served(l))' \/ (stage' = "location" /\ l = location')
                /\ \A i \in 1 .. Len(forwarding'[l]) : Connected(forwarding[l][i], Served(l)[i])'
    <3>1. /\ l \in DOMAIN forwarding
          /\ server.locations[l] \in DOMAIN Host /\ Host[server.locations[l]] \in DOMAIN upstreams
          /\ Len(forwarding[l]) <= Len(Served(l))
          /\ Len(forwarding[l]) = Len(Served(l)) \/ (stage = "location" /\ l = location)
          /\ \A i \in 1 .. Len(forwarding[l]) : Connected(forwarding[l][i], Served(l)[i])
      BY <2>10 DEF RowsInv
    <3>2. Served(l)' = Served(l) /\ server'.locations[l] = server.locations[l] /\ upstreams' = upstreams
      BY <2>1 DEF Served
    <3>3. CASE l # location
      <4>1. forwarding'[l] = forwarding[l]
        BY <2>10, <3>1, <3>3
      <4>2. \A i \in 1 .. Len(forwarding'[l]) : Connected(forwarding[l][i], Served(l)[i])'
        <5> SUFFICES ASSUME NEW i \in 1 .. Len(forwarding'[l]) PROVE Connected(forwarding[l][i], Served(l)[i])'
          OBVIOUS
        <5>1. PICK fd, x : fd = forwarding[l][i] /\ x = Served(l)[i]
          OBVIOUS
        <5>2. Connected(fd, x)'
          BY <2>9, <3>1, <4>1, <5>1
        <5>3. fd = forwarding'[l][i] /\ x = Served(l)'[i]
          BY <3>2, <4>1, <5>1
        <5> QED BY <5>2, <5>3 DEF Connected
      <4> QED BY <3>1, <3>2, <3>3, <4>1, <4>2
    <3>4. CASE l = location
      <4>1. /\ Len(Append(Row, new)) = Len(Row) + 1 /\ Append(Row, new)[Len(Row) + 1] = new
            /\ \A i \in 1 .. Len(Row) : Append(Row, new)[i] = Row[i]
        BY <2>4
      <4>2. Len(forwarding'[l]) <= Len(Served(l))'
        BY <2>1, <2>4, <2>5, <2>10, <3>2, <3>4, <4>1
      <4>3. \A i \in 1 .. Len(forwarding'[l]) : Connected(forwarding[l][i], Served(l)[i])'
        <5> SUFFICES ASSUME NEW i \in 1 .. Len(Row) + 1 PROVE Connected(forwarding[l][i], Served(l)[i])'
          BY <2>10, <3>4, <4>1
        <5>1. PICK fd, x : fd = forwarding'[l][i] /\ x = Served(l)[i]
          OBVIOUS
        <5>2. CASE i \in 1 .. Len(Row)
          <6>1. fd = forwarding[l][i] /\ i \in 1 .. Len(forwarding[l])
            BY <2>10, <3>4, <4>1, <5>1, <5>2 DEF Row
          <6>2. Connected(fd, x)'
            BY <2>9, <3>1, <5>1, <6>1
          <6> QED BY <3>2, <5>1, <6>2 DEF Connected
        <5>3. CASE i = Len(Row) + 1
          <6>1. fd = new /\ x = e
            BY <2>0, <2>5, <2>10, <3>4, <4>1, <5>1, <5>3
          <6>2. Connected(fd, x)'
            BY <2>8, <6>1 DEF Connected
          <6> QED BY <3>2, <5>1, <6>2 DEF Connected
        <5> QED BY <2>4, <5>2, <5>3
      <4> QED BY <2>1, <3>1, <3>2, <3>4, <4>2, <4>3
    <3> QED BY <3>3, <3>4
  <2> QED BY <2>1, <2>10, <2>11 DEF RowsInv
<1> QED BY <1>1, <1>2

LEMMA RowsOthers ==
    ASSUME RowsInv, StartInv, IsFiniteSet(Given),
           Parse \/ Construct \/ Ready \/ LocationDone \/ StartPool \/ UNCHANGED vars
    PROVE  RowsInv'
<1> USE DEF RowsInv
<1>1. CASE Parse
  BY <1>1 DEF Parse, startVars, Served, Connected
<1>2. CASE Construct
  BY <1>2 DEF Construct, Fail, startVars, parseVars, cursorVars, stateVars, tableVars, Served, Connected
<1>3. CASE Ready
  BY <1>3 DEF Ready, parseVars, Served, Connected
<1>4. CASE LocationDone
  BY <1>4 DEF LocationDone, parseVars, Served, Connected, Row, Servers
<1>5. CASE StartPool
  BY <1>5 DEF StartPool, parseVars, Served, Connected
<1>6. CASE UNCHANGED vars
  BY <1>6 DEF vars, Served, Connected
<1> QED BY <1>1, <1>2, <1>3, <1>4, <1>5, <1>6

LEMMA ParseInvStep ==
    ASSUME ConfigTypeOK, ParseInv, ParsedInv, [StartNext]_vars
    PROVE  ParseInv' /\ ParsedInv'
<1>1. CASE Parse
  BY <1>1, ParseInvParse, ParsedInvParse DEF Parse
<1>2. ASSUME NEW l \in todo, NextLocation(l) PROVE ParseInv' /\ ParsedInv'
  <2>1. outcome' # "parsing"
    BY <1>2 DEF NextLocation, Fail
  <2>2. ParseInv'
    BY <2>1 DEF ParseInv
  <2>3. ParsedInv'
    <3>1. CASE outcome' = "parsed"
      BY <1>2, <3>1, ParsedNextLocation
    <3>2. CASE outcome' # "parsed"
      BY <3>2 DEF ParsedInv
    <3> QED BY <3>1, <3>2
  <2> QED BY <2>2, <2>3
<1>3. CASE Fail
  BY <1>3 DEF Fail, ParseInv, ParsedInv
<1>4. CASE UNCHANGED parseVars
  BY <1>4, ParsedSame
<1>5. Construct \/ ConnectOne => Fail \/ UNCHANGED parseVars
  BY DEF Construct, ConnectOne
<1>6. Ready \/ LocationDone \/ StartPool => UNCHANGED parseVars
  BY DEF Ready, LocationDone, StartPool
<1>7. UNCHANGED vars => UNCHANGED parseVars
  BY DEF vars, parseVars
<1> QED BY <1>1, <1>2, <1>3, <1>4, <1>5, <1>6, <1>7 DEF StartNext

LEMMA RowsStep ==
    ASSUME ParsedInv, Plain(Lines), RowsInv, StartInv, IsFiniteSet(Given), [StartNext]_vars
    PROVE  RowsInv'
<1>1. outcome = "parsed" => UpstreamTypes
  BY DEF ParsedInv, UpstreamTypes, Tells, UpstreamsTold
<1>2. CASE ConnectOne
  BY <1>1, <1>2, RowsConnect DEF ConnectOne
<1>3. ASSUME NEW l \in todo, NextLocation(l) PROVE RowsInv'
  BY <1>1, <1>3, RowsNextLocation DEF NextLocation
<1> QED BY <1>2, <1>3, RowsOthers DEF StartNext

--------------------------------------------------------------------------------
(* From the file to the running proxy *)

\* Together they are inductive.
FileInv == ConfigInv /\ StartInv /\ IsFiniteSet(Given) /\ ParseInv /\ ParsedInv /\ (Plain(Lines) => RowsInv)

\* The file is read once.
LEMMA FileSame == ASSUME [StartNext]_vars PROVE Lines' = Lines
<1>1. file' = file
  <2>1. CASE Parse
    BY <2>1 DEF Parse, ParseNext, SkipLine, Setting, OpenServer, OpenUpstream, NoBlock, CallMethod, MethodEnd,
       LeftBracket, BadWord, CloseBlock, ServerName, Listen, OpenLocation, ProxyPass, UpstreamServer, ParseEnd,
       LineDone, After, Return, Throw, cursorVars
  <2>2. ASSUME NEW l \in todo, NextLocation(l) PROVE file' = file
    BY <2>2 DEF NextLocation, Fail, cursorVars
  <2>3. CASE Construct \/ Ready \/ LocationDone \/ ConnectOne \/ StartPool \/ UNCHANGED vars
    BY <2>3 DEF Construct, Ready, LocationDone, ConnectOne, StartPool, vars, Fail, cursorVars, parseVars
  <2> QED BY <2>1, <2>2, <2>3 DEF StartNext
<1> QED BY <1>1 DEF Lines

LEMMA FileInvInit == StartInit => FileInv
<1> SUFFICES ASSUME StartInit PROVE FileInv
  OBVIOUS
<1>1. ConfigInv /\ ParseInv
  BY ConfigInvInit, ParseInvInit DEF StartInit
<1>2. StartInv /\ IsFiniteSet(Given)
  BY StartInvInit
<1>3. ParsedInv
  BY DEF StartInit, ParseInit, ParsedInv
<1>4. RowsInv
  BY DEF StartInit, RowsInv
<1> QED BY <1>1, <1>2, <1>3, <1>4 DEF FileInv

LEMMA FileInvStep == FileInv /\ [StartNext]_vars => FileInv'
<1> SUFFICES ASSUME FileInv, [StartNext]_vars PROVE FileInv'
  OBVIOUS
<1>1. ConfigInv'
  BY ConfigInvStep DEF FileInv
<1>2. StartInv' /\ IsFiniteSet(Given)'
  <2>1. StartInv' /\ IsFiniteSet(Given')
    BY StartInvStep DEF FileInv
  <2> QED BY <2>1 DEF Given
<1>3. ParseInv' /\ ParsedInv'
  BY ParseInvStep DEF FileInv, ConfigInv
<1>4. (Plain(Lines) => RowsInv)'
  <2>1. Plain(Lines)' => Plain(Lines)
    BY FileSame
  <2> QED BY <2>1, RowsStep DEF FileInv
<1> QED BY <1>1, <1>2, <1>3, <1>4 DEF FileInv

\* The inductive invariant, from the file to the forwarding table.
THEOREM FileInvariant == StartSpec => []FileInv
BY FileInvInit, FileInvStep, PTL DEF StartSpec

\* config.h: whatever plain file the parser accepts, the tables hold what its lines say.
THEOREM ParserFollowsFile == StartSpec => []TablesFollowFile
<1>1. FileInv => TablesFollowFile
  BY DEF FileInv, ParsedInv, Tells, SettingsTold, LocationsTold, UpstreamsTold, TablesFollowFile
<1> QED BY <1>1, FileInvariant, PTL

\* config.h: whatever plain file the parser accepts, its blocks are opened and closed.
THEOREM ParserAcceptsBalanced == StartSpec => []AcceptedIsBalanced
<1>1. FileInv => AcceptedIsBalanced
  BY DEF FileInv, ParsedInv, AcceptedIsBalanced
<1> QED BY <1>1, FileInvariant, PTL

\* A complete row, place by place, is what the lines of its upstream say.
LEMMA RowsFollowFile == FileInv => LocationsHaveTheirServers
<1> SUFFICES ASSUME FileInv, stage = "running", Plain(Lines),
                    NEW ls, ls = Lines
             PROVE  /\ DOMAIN forwarding = Named(ls, "location")
                    /\ \A l \in DOMAIN forwarding :
                          LET told == ToldServers(ls, Host[ToldPass(ls, l)]) IN
                          /\ Len(forwarding[l]) = Cardinality(told)
                          /\ \A i \in told :
                                LET e  == Endpoint[Value(ls, i)]
                                    fd == forwarding[l][Place(told, i)]
                                IN  IF Address(e) \in up THEN fd >= FirstFd /\ serverConns[fd] = e ELSE fd = -1
  BY DEF LocationsHaveTheirServers
<1>1. /\ RowsInv /\ outcome = "parsed" /\ todo = {} /\ Tells(ls)
      /\ DOMAIN forwarding = DOMAIN server.locations
  BY DEF FileInv, RowsInv, ParsedInv
<1>2. server.locations = [name \in Named(ls, "location") |-> ToldPass(ls, name)]
  BY <1>1 DEF Tells, LocationsTold
<1>3. DOMAIN forwarding = Named(ls, "location")
  BY <1>1, <1>2
<1>4. ls \in Texts /\ Len(ls) \in Nat
  BY AllLines DEF FileInv, ConfigInv
<1>5. ASSUME NEW l \in DOMAIN forwarding, NEW told, told = ToldServers(ls, Host[ToldPass(ls, l)])
      PROVE  /\ Len(forwarding[l]) = Cardinality(told)
             /\ \A i \in told :
                   LET e  == Endpoint[Value(ls, i)]
                       fd == forwarding[l][Place(told, i)]
                   IN  IF Address(e) \in up THEN fd >= FirstFd /\ serverConns[fd] = e ELSE fd = -1
  <2> DEFINE list == Served(l)
  <2>1. /\ server.locations[l] = ToldPass(ls, l) /\ Host[server.locations[l]] \in DOMAIN upstreams
        /\ Len(forwarding[l]) = Len(list)
        /\ \A i \in 1 .. Len(forwarding[l]) : Connected(forwarding[l][i], list[i])
    BY <1>1, <1>2, <1>3 DEF RowsInv
  <2>2. ListsServers(list, ls, told)
    BY <1>1, <1>5, <2>1 DEF Tells, UpstreamsTold, Served
  <2> HIDE DEF list
  <2>3. Len(list) = Cardinality(told) /\ \A i \in told : list[Place(told, i)] = Endpoint[Value(ls, i)]
    BY <2>2 DEF ListsServers
  <2>4. told \in SUBSET (1 .. Len(ls))
    <3>1. DOMAIN ls = 1 .. Len(ls)
      BY <1>4 DEF Texts
    <3> QED BY <1>5, <3>1 DEF ToldServers, LinesIn, LinesOf
  <2>5. \A i \in told : Place(told, i) \in 1 .. Cardinality(told)
    <3> PICK n \in Nat : n = Len(ls)
      BY <1>4
    <3>1. told \in SUBSET (1 .. n)
      BY <2>4
    <3> QED BY <3>1, PlaceAdded
  <2>6. \A i \in told : Connected(forwarding[l][Place(told, i)], Endpoint[Value(ls, i)])
    BY <2>1, <2>3, <2>5 DEF Connected
  <2> QED BY <2>1, <2>3, <2>6 DEF Connected
<1> QED BY <1>3, <1>5

\* From the file to the tables the proxy begins with: whatever plain file it starts
\* from and whoever answers, each entry is a connection to the server its line names.
THEOREM StartedLocationsHaveTheirServers == StartSpec => []LocationsHaveTheirServers
BY RowsFollowFile, FileInvariant, PTL

--------------------------------------------------------------------------------
(* A well-formed file is not refused *)

LEMMA ShortLine ==
    ASSUME NEW l \in Seq(STRING)
    PROVE  /\ Len(l) = 1 => l # <<>> /\ Head(l) = l[1] /\ Tail(l) = <<>> /\ Rest(Tail(l)) = <<>>
           /\ Len(l) = 2 => /\ l # <<>> /\ Head(l) = l[1] /\ Rest(Tail(l)) = <<>>
                            /\ \A old : Word(Tail(l), old) = l[2]
           /\ Len(l) > 0 => l # <<>> /\ Head(l) = l[1]
<1>1. ASSUME Len(l) = 1 PROVE l # <<>> /\ Head(l) = l[1] /\ Tail(l) = <<>> /\ Rest(Tail(l)) = <<>>
  <2>0. l # <<>> /\ Head(l) = l[1]
    BY <1>1
  <2>1. Tail(l) \in Seq(STRING) /\ Len(Tail(l)) = 0
    BY <1>1, <2>0
  <2>2. Tail(l) = <<>>
    BY <2>1, EmptySeq
  <2> QED BY <2>0, <2>2 DEF Rest
<1>2. ASSUME Len(l) = 2
      PROVE  /\ l # <<>> /\ Head(l) = l[1] /\ Rest(Tail(l)) = <<>>
             /\ \A old : Word(Tail(l), old) = l[2]
  <2>0. l # <<>>
    BY <1>2
  <2>1. /\ Tail(l) \in Seq(STRING) /\ Len(Tail(l)) = 1 /\ Tail(l)[1] = l[2] /\ Tail(l) # <<>>
        /\ l # <<>> /\ Head(l) = l[1]
    <3>1. Len(Tail(l)) = 1
      BY <1>2, <2>0
    <3> QED BY <1>2, <2>0, <3>1, LineWords
  <2> PICK t \in Seq(STRING) : t = Tail(l)
    BY <2>1
  <2>2. t # <<>>
    BY <2>1
  <2>3. Head(t) = l[2]
    BY <2>1, <2>2, LineWords
  <2>4. Tail(t) \in Seq(STRING) /\ Len(Tail(t)) = 0
    BY <2>1, <2>2
  <2>5. Tail(t) = <<>>
    BY <2>4, EmptySeq
  <2> QED BY <2>1, <2>2, <2>3, <2>5 DEF Rest, Word
<1> QED BY <1>1, <1>2

\* A well-formed file is plain.
LEMMA ProperLine ==
    ASSUME NEW ls, NEW l \in Seq(STRING), MayFollow(ls, l)
    PROVE  IsPlain(l) /\ Len(l) > 0
<1>1. ASSUME NEW w, IsNumber(l, w) \/ IsName(l, w) PROVE IsPlain(l) /\ Len(l) > 0
  <2>1. Len(l) = 2 /\ l[2] \notin Special
    <3>1. \A v \in DOMAIN Number : v \notin Special
      BY ConfigAssumption, Zenon
    <3> QED BY <1>1, <3>1 DEF IsNumber, IsName
  <2>2. \A k \in 2 .. Len(l) : k = 2
    BY <2>1
  <2> QED BY <2>1, <2>2 DEF IsPlain
<1>2. ASSUME NEW w \in {"upstream", "location"}, IsHeader(l, w) PROVE IsPlain(l) /\ Len(l) > 0
  <2>1. Len(l) \in {2, 3} /\ l[2] \notin Special /\ (Len(l) = 3 => l[3] = LeftBrace) /\ Head(l) = w
    BY <1>2 DEF IsHeader
  <2>2. BracketPlace(l) = 3
    BY <2>1 DEF BracketPlace
  <2>3. \A k \in 2 .. Len(l) : k = 2 \/ (k = 3 /\ l[3] = LeftBrace)
    <3>1. CASE Len(l) = 2
      BY <3>1
    <3>2. CASE Len(l) = 3
      BY <2>1, <3>2
    <3> QED BY <2>1, <3>1, <3>2
  <2> QED BY <2>1, <2>2, <2>3 DEF IsPlain
<1>3. ASSUME NEW w, l = <<w>> PROVE IsPlain(l) /\ Len(l) > 0
  BY <1>3 DEF IsPlain
<1>4. ASSUME l = <<"server", LeftBrace>> PROVE IsPlain(l) /\ Len(l) > 0
  <2>1. Head(l) = "server" /\ Len(l) = 2 /\ l[2] = LeftBrace
    <3>1. Len(l) = 2
      BY <1>4
    <3>2. l[1] = "server" /\ l[2] = LeftBrace
      BY <1>4
    <3> QED BY <3>1, <3>2
  <2>2. \A k \in 2 .. Len(l) : k = 2
    BY <2>1
  <2>3. BracketPlace(l) = 2
    BY <2>1 DEF BracketPlace
  <2> QED BY <2>1, <2>2, <2>3 DEF IsPlain
<1> QED BY <1>1, <1>2, <1>3, <1>4 DEF MayFollow

LEMMA WellFormedPlain ==
    ASSUME ConfigTypeOK, WellFormed(Lines)
    PROVE  /\ Plain(Lines)
           /\ \A k \in 1 .. Len(Lines) : Lines[k] # <<>> => MayFollow(SubSeq(Lines, 1, k - 1), Lines[k])
<1>1. DOMAIN Lines = 1 .. Len(Lines) /\ \A k \in 1 .. Len(Lines) : Lines[k] \in Seq(STRING)
  BY AllLines DEF Texts
<1>2. \A k \in 1 .. Len(Lines) : Lines[k] # <<>> => MayFollow(SubSeq(Lines, 1, k - 1), Lines[k])
  BY <1>1, Zenon DEF WellFormed
<1>3. IsPlain(<<>>)
  BY DEF IsPlain
<1>4. \A k \in 1 .. Len(Lines) : IsPlain(Lines[k])
  BY <1>1, <1>2, <1>3, ProperLine, Zenon
<1> QED BY <1>1, <1>2, <1>4, Zenon DEF Plain

\* What the next line of a well-formed file is in each state of the parser.
Fits(l) ==
    \/ checkState # "BEGAIN" /\ ~bracket[checkState] /\ l = <<LeftBrace>>
    \/ /\ checkState = "BEGAIN"
       /\ IsNumber(l, "threadNum") \/ IsNumber(l, "queSize") \/ Head(l) \in {"server", "upstream"}
    \/ /\ checkState # "BEGAIN" /\ bracket[checkState]
       /\ \/ l = <<RightBrace>>
          \/ checkState = "SERVER" /\ (IsNumber(l, "listen") \/ IsName(l, "server_name") \/ IsHeader(l, "location"))
          \/ checkState = "UPSTREAM" /\ IsName(l, "server") /\ l[2] \in DOMAIN Endpoint
          \/ checkState = "LOCATION" /\ IsName(l, "proxy_pass")

\* As the lines and the state of the parser agree, the next line suits both.
LEMMA NextFits ==
    ASSUME ConfigTypeOK, NEW ls \in Texts, NEW l \in Seq(STRING), Stands(ls), Marks(ls), MayFollow(ls, l)
    PROVE  Fits(l)
<1>1. checkState \in {"BEGAIN", "SERVER", "LOCATION", "UPSTREAM"}
  BY DEF ConfigTypeOK, Blocks
<1>2. /\ Depth(ls) = IF checkState = "BEGAIN" THEN 0 ELSE IF checkState = "LOCATION" THEN 2 ELSE 1
      /\ Waiting(ls) = IF checkState = "BEGAIN" THEN 0 ELSE IF bracket[checkState] THEN 0 ELSE 1
  BY DEF Stands
<1>3. Mark(ls, Len(ls) + 1) \in LinesOf(ls, "upstream") <=> checkState = "UPSTREAM"
  BY <1>1, Standing DEF InUpstream, Blocks
<1>4. CASE Waiting(ls) # 0 /\ l = <<LeftBrace>>
  BY <1>2, <1>4 DEF Fits
<1>5. CASE /\ Waiting(ls) = 0 /\ Depth(ls) = 0
           /\ \/ IsNumber(l, "threadNum") \/ IsNumber(l, "queSize")
              \/ l = <<"server">> \/ l = <<"server", LeftBrace>> \/ IsHeader(l, "upstream")
  <2>1. checkState = "BEGAIN"
    BY <1>1, <1>2, <1>5
  <2>2. IsHeader(l, "upstream") => Head(l) = "upstream"
    BY DEF IsHeader
  <2>3. l = <<"server">> \/ l = <<"server", LeftBrace>> => Head(l) = "server"
    OBVIOUS
  <2> QED BY <1>5, <2>1, <2>2, <2>3 DEF Fits
<1>6. CASE /\ Waiting(ls) = 0 /\ Depth(ls) = 1 /\ Mark(ls, Len(ls) + 1) \notin LinesOf(ls, "upstream")
           /\ \/ IsNumber(l, "listen") \/ IsName(l, "server_name") \/ IsHeader(l, "location")
              \/ l = <<RightBrace>>
  <2>1. checkState = "SERVER" /\ bracket[checkState]
    BY <1>1, <1>2, <1>3, <1>6
  <2> QED BY <1>6, <2>1 DEF Fits
<1>7. CASE /\ Waiting(ls) = 0 /\ Mark(ls, Len(ls) + 1) \in LinesOf(ls, "upstream")
           /\ \/ IsName(l, "server") /\ l[2] \in DOMAIN Endpoint
              \/ l = <<RightBrace>>
  <2>1. checkState = "UPSTREAM" /\ bracket[checkState]
    BY <1>1, <1>2, <1>3, <1>7
  <2> QED BY <1>7, <2>1 DEF Fits
<1>8. CASE /\ Waiting(ls) = 0 /\ Depth(ls) = 2
           /\ \/ IsName(l, "proxy_pass") \/ l = <<RightBrace>>
  <2>1. checkState = "LOCATION" /\ bracket[checkState]
    BY <1>1, <1>2, <1>8
  <2> QED BY <1>8, <2>1 DEF Fits
<1> QED BY <1>4, <1>5, <1>6, <1>7, <1>8, Zenon DEF MayFollow

\* Nothing has been refused, and what is left of a line begins with a word that
\* a method knows.
Unrefused ==
    /\ outcome # "threw"
    /\ outcome = "parsing" => lineState = "LINE_OK" /\ (iss = <<>> \/ Head(iss) \in Special)

\* So it is with the line the loop takes, and with the line a method has.
LEMMA LineFits ==
    ASSUME ConfigTypeOK, ParseInv, WellFormed(Lines), Unrefused, AtLine, NEW l, l = Line, l # <<>>
    PROVE  l \in Seq(STRING) /\ Fits(l)
<1>1. Plain(Lines) /\ \A k \in 1 .. Len(Lines) : Lines[k] # <<>> => MayFollow(SubSeq(Lines, 1, k - 1), Lines[k])
  BY WellFormedPlain
<1>2. PICK ls \in Prefixes(Lines) : ReadTo(ls) /\ Follows(ls)
  BY <1>1 DEF ParseInv, AtLine
<1>3. ls \in Texts /\ l \in Seq(STRING) /\ l = Lines[lineno + 1] /\ ls = SubSeq(Lines, 1, lineno) /\ lineno \in Nat
  BY <1>1, <1>2, AtLineRead
<1>4. lineno + 1 \in 1 .. Len(Lines) /\ (lineno + 1) - 1 = lineno
  BY <1>3, AllLines DEF AtLine, ConfigTypeOK
<1>5. MayFollow(ls, l)
  <2>1. MayFollow(SubSeq(Lines, 1, (lineno + 1) - 1), Lines[lineno + 1])
    BY <1>1, <1>3, <1>4, Zenon
  <2> QED BY <1>3, <1>4, <2>1, Zenon
<1> QED BY <1>2, <1>3, <1>5, NextFits DEF Follows

LEMMA WordFits ==
    ASSUME ConfigTypeOK, ParseInv, WellFormed(Lines), Unrefused, outcome = "parsing", reading \in Blocks, iss # <<>>
    PROVE  reading = checkState /\ iss \in Seq(STRING) /\ Fits(iss)
<1>1. Plain(Lines) /\ \A k \in 1 .. Len(Lines) : Lines[k] # <<>> => MayFollow(SubSeq(Lines, 1, k - 1), Lines[k])
  BY WellFormedPlain
<1>2. PICK ls \in Prefixes(Lines) : ReadTo(ls) /\ Follows(ls)
  BY <1>1 DEF ParseInv, Unrefused
<1>3. ~(iss \in Seq(STRING) /\ Quiet(iss))
  BY QuietTail, Zenon DEF Unrefused
<1>4. reading = checkState /\ ls \in Texts /\ iss \in Seq(STRING) /\ lineno > 0 /\ iss = Lines[lineno]
  BY <1>1, <1>2, <1>3, WordRead, Zenon
<1>5. ls = SubSeq(Lines, 1, lineno - 1)
  BY <1>2, <1>3 DEF ReadTo, Blocks
<1>6. lineno \in 1 .. Len(Lines)
  BY <1>4, AllLines DEF ConfigTypeOK
<1>7. MayFollow(ls, iss)
  <2>1. MayFollow(SubSeq(Lines, 1, lineno - 1), Lines[lineno])
    BY <1>1, <1>4, <1>6, Zenon
  <2> QED BY <1>4, <1>5, <2>1, Zenon
<1> QED BY <1>2, <1>4, <1>7, NextFits DEF Follows

\* The loop throws at no such line and hands the methods no word they do not know.
LEMMA UnrefusedOuterLine ==
    ASSUME ConfigTypeOK, ParseInv, WellFormed(Lines), Unrefused,
           SkipLine \/ Setting \/ OpenServer \/ OpenUpstream \/ NoBlock \/ CallMethod
    PROVE  Unrefused'
<1>1. AtLine /\ outcome = "parsing" /\ lineState = "LINE_OK" /\ reading = "parse"
  BY DEF SkipLine, Setting, OpenServer, OpenUpstream, NoBlock, CallMethod, AtLine, AtOuterLine
<1> PICK l : l = Line
  OBVIOUS
<1>2. l # <<>> => l \in Seq(STRING) /\ Fits(l)
  BY <1>1, LineFits
<1>3. iss = <<>>
  <2>1. Plain(Lines)
    BY WellFormedPlain
  <2>2. PICK ls \in Prefixes(Lines) : ReadTo(ls) /\ Follows(ls)
    BY <1>1, <2>1 DEF ParseInv
  <2> QED BY <1>1, <2>1, <2>2, AtLineRead
<1>4. ASSUME Throw PROVE ~Setting /\ ~NoBlock
  <2>1. ASSUME Setting PROVE FALSE
    <3>1. outcome' # "parsing"
      BY <1>4 DEF Throw
    <3>2. /\ checkState = "BEGAIN" /\ l # <<>> /\ Head(l) \in {"threadNum", "queSize"}
          /\ Word(Tail(l), Head(l)) \notin DOMAIN Number
      BY <1>1, <2>1, <3>1 DEF Setting, AtOuterLine, LineDone
    <3>3. IsNumber(l, "threadNum") \/ IsNumber(l, "queSize")
      BY <1>2, <3>2 DEF Fits
    <3>4. Len(l) = 2 /\ l[2] \in DOMAIN Number
      BY <3>3 DEF IsNumber
    <3>5. Word(Tail(l), Head(l)) = l[2]
      BY <1>2, <3>2, <3>4, ShortLine
    <3> QED BY <3>2, <3>4, <3>5
  <2>2. ASSUME NoBlock PROVE FALSE
    <3>1. checkState = "BEGAIN" /\ l # <<>> /\ Head(l) \notin {"threadNum", "queSize", "server", "upstream"}
      BY <2>2 DEF NoBlock
    <3>2. IsNumber(l, "threadNum") \/ IsNumber(l, "queSize")
      BY <1>2, <3>1 DEF Fits
    <3>3. Head(l) \in {"threadNum", "queSize"}
      BY <1>2, <3>1, <3>2, LineWords DEF IsNumber
    <3> QED BY <3>1, <3>3
  <2> QED BY <2>1, <2>2
<1>5. CASE CallMethod
  <2>1. iss' = l /\ l # <<>> /\ checkState # "BEGAIN" /\ UNCHANGED <<outcome, lineState>>
    BY <1>5 DEF CallMethod, stateVars
  <2>2. Head(l) = l[1] /\ l \in Seq(STRING)
    BY <1>2, <2>1, LineWords
  <2>3. Head(l) \in Special
    <3>1. LeftBrace \in Special /\ RightBrace \in Special
          /\ {"server", "server_name", "listen", "location", "proxy_pass"} \subseteq Special
      BY DEF Special
    <3>2. l = <<LeftBrace>> => l[1] = LeftBrace
      OBVIOUS
    <3>3. l = <<RightBrace>> => l[1] = RightBrace
      OBVIOUS
    <3> QED BY <1>2, <2>1, <2>2, <3>1, <3>2, <3>3 DEF Fits, IsNumber, IsName, IsHeader
  <2> QED BY <1>1, <2>1, <2>3 DEF Unrefused
<1>6. CASE ~CallMethod
  <2>1. UNCHANGED <<iss, outcome, lineState>>
    BY <1>4, <1>6 DEF SkipLine, Setting, OpenServer, OpenUpstream, NoBlock, LineDone, stateVars
  <2> QED BY <1>1, <1>3, <2>1 DEF Unrefused
<1> QED BY <1>5, <1>6

\* Each method knows the first word, finds the value after it and nothing behind.
LEMMA UnrefusedMethod ==
    ASSUME ConfigTypeOK, ParseInv, WellFormed(Lines), Unrefused,
           \/ Directive \/ \E m \in Blocks : LeftBracket(m) \/ BadWord(m) \/ CloseBlock(m)
    PROVE  Unrefused'
<1>1. /\ outcome = "parsing" /\ reading \in Blocks /\ iss # <<>>
      /\ \/ Directive \/ LeftBracket(reading) \/ BadWord(reading) \/ CloseBlock(reading)
  BY DEF Directive, LeftBracket, BadWord, CloseBlock, ServerName, Listen, OpenLocation, ProxyPass, UpstreamServer,
         InBlock, InMethod, Blocks
<1>2. reading = checkState /\ iss \in Seq(STRING) /\ Fits(iss)
  BY <1>1, WordFits
<1> PICK l : l = iss
  OBVIOUS
<1>3. /\ l \in Seq(STRING) /\ l # <<>> /\ Head(l) = l[1] /\ lineState = "LINE_OK" /\ checkState \in Blocks
      /\ Len(l) = 1 => Tail(l) = <<>>
      /\ Len(l) = 2 => Rest(Tail(l)) = <<>> /\ \A old : Word(Tail(l), old) = l[2]
  BY <1>1, <1>2, ShortLine, LineWords DEF Unrefused
<1>4. ~bracket[checkState] => Len(l) = 1 /\ Head(l) = LeftBrace
  <2>1. l = <<LeftBrace>> => Len(l) = 1 /\ l[1] = LeftBrace
    OBVIOUS
  <2> QED BY <1>2, <1>3, <2>1 DEF Fits, Blocks
<1>5. bracket[checkState] =>
         \/ Len(l) = 1 /\ Head(l) = RightBrace
         \/ /\ checkState = "SERVER"
            /\ \/ Head(l) = "listen" /\ Len(l) = 2 /\ l[2] \in DOMAIN Number
               \/ Head(l) = "server_name" /\ Len(l) = 2
               \/ Head(l) = "location"
         \/ checkState = "UPSTREAM" /\ Head(l) = "server" /\ Len(l) = 2 /\ l[2] \in DOMAIN Endpoint
         \/ checkState = "LOCATION" /\ Head(l) = "proxy_pass" /\ Len(l) = 2
  <2>1. l = <<RightBrace>> => Len(l) = 1 /\ l[1] = RightBrace
    OBVIOUS
  <2> QED BY <1>2, <1>3, <2>1 DEF Fits, Blocks, IsNumber, IsName, IsHeader
<1>6. ASSUME iss' = <<>>, UNCHANGED <<outcome, lineState>> PROVE Unrefused'
  BY <1>1, <1>3, <1>6 DEF Unrefused
<1>7. CASE LeftBracket(reading)
  <2>1. Len(l) = 1 /\ Head(l) = LeftBrace
    BY <1>2, <1>4, <1>7 DEF LeftBracket
  <2>2. iss' = Tail(l) /\ UNCHANGED <<outcome, lineState>>
    BY <1>7, <2>1 DEF LeftBracket, After
  <2> QED BY <1>3, <1>6, <2>1, <2>2
<1>8. CASE BadWord(reading)
  BY <1>2, <1>3, <1>5, <1>8 DEF BadWord, Blocks
<1>9. CASE CloseBlock(reading)
  <2>1. bracket[checkState] /\ Head(l) = RightBrace
    BY <1>2, <1>9 DEF CloseBlock, InBlock
  <2>2. Len(l) = 1
    BY <1>5, <2>1, Words
  <2>3. iss' = Tail(l) /\ UNCHANGED <<outcome, lineState>>
    BY <1>9 DEF CloseBlock, After
  <2> QED BY <1>3, <1>6, <2>2, <2>3
<1>10. CASE ServerName \/ ProxyPass
  <2>1. bracket[checkState] /\ Head(l) \in {"server_name", "proxy_pass"}
    BY <1>2, <1>10 DEF ServerName, ProxyPass, InBlock, InMethod
  <2>2. Len(l) = 2
    BY <1>5, <2>1, Words
  <2>3. iss' = Rest(Tail(l)) /\ UNCHANGED <<outcome, lineState>>
    BY <1>10 DEF ServerName, ProxyPass, After, stateVars
  <2> QED BY <1>3, <1>6, <2>2, <2>3
<1>11. CASE Listen
  <2>1. bracket[checkState] /\ Head(l) = "listen"
    BY <1>2, <1>11 DEF Listen, InBlock, InMethod
  <2>2. Len(l) = 2 /\ l[2] \in DOMAIN Number
    BY <1>5, <2>1, Words
  <2>3. Word(Tail(l), "listen") \in DOMAIN Number
    BY <1>3, <2>2
  <2>4. iss' = Rest(Tail(l)) /\ UNCHANGED <<outcome, lineState>>
    BY <1>11, <2>3 DEF Listen, After, stateVars
  <2> QED BY <1>3, <1>6, <2>2, <2>4
<1>12. CASE OpenLocation
  <2>1. iss' = <<>> /\ UNCHANGED <<outcome, lineState>>
    BY <1>12 DEF OpenLocation, Return
  <2> QED BY <1>6, <2>1
<1>13. CASE UpstreamServer
  <2>1. bracket[checkState] /\ Head(l) = "server"
    BY <1>2, <1>13 DEF UpstreamServer, InBlock, InMethod
  <2>2. Len(l) = 2 /\ l[2] \in DOMAIN Endpoint
    BY <1>5, <2>1, Words
  <2>3. Word(Tail(l), NoWord) \in DOMAIN Endpoint
    BY <1>3, <2>2
  <2>4. iss' = Rest(Tail(l)) /\ UNCHANGED <<outcome, lineState>>
    BY <1>13, <2>3 DEF UpstreamServer, After, stateVars
  <2> QED BY <1>3, <1>6, <2>2, <2>4
<1> QED BY <1>1, <1>7, <1>8, <1>9, <1>10, <1>11, <1>12, <1>13 DEF Directive

\* At the end of the file all blocks are closed.
LEMMA UnrefusedParse ==
    ASSUME ConfigTypeOK, ParseInv, WellFormed(Lines), Unrefused, ParseNext
    PROVE  Unrefused'
<1>1. CASE SkipLine \/ Setting \/ OpenServer \/ OpenUpstream \/ NoBlock \/ CallMethod
  BY <1>1, UnrefusedOuterLine
<1>2. CASE MethodEnd
  BY <1>2 DEF MethodEnd, Return, stateVars, Unrefused
<1>3. CASE Directive \/ \E m \in Blocks : LeftBracket(m) \/ BadWord(m) \/ CloseBlock(m)
  BY <1>3, UnrefusedMethod
<1>4. CASE ParseEnd
  <2>1. outcome = "parsing" /\ reading = "parse" /\ lineState = "LINE_OK" /\ lineno = Len(file)
    BY <1>4 DEF ParseEnd, Unrefused
  <2>2. Plain(Lines)
    BY WellFormedPlain
  <2>3. PICK ls \in Prefixes(Lines) : ReadTo(ls) /\ Follows(ls)
    BY <2>1, <2>2 DEF ParseInv
  <2>4. ls = SubSeq(Lines, 1, Len(Lines))
    BY <2>1, <2>3, AllLines DEF ReadTo, Blocks
  <2>5. ls = Lines
    BY <2>4, AllLines, Prefix
  <2>6. Depth(ls) = 0
    BY <2>5 DEF WellFormed
  <2>7. checkState = "BEGAIN"
    BY <2>3, <2>6 DEF Follows, Stands
  <2> QED BY <1>4, <2>1, <2>7 DEF ParseEnd, Unrefused
<1> QED BY <1>1, <1>2, <1>3, <1>4 DEF ParseNext, Directive

\* No such file is refused, by the parser or by what comes after it.
ProperInv == WellFormed(Lines) /\ Startable(Lines) => Unrefused

\* The start-up: the number of threads is one, each protocol is known and each port a number.
LEMMA StartsAll ==
    ASSUME FileInv, Startable(Lines), WellFormed(Lines), outcome = "parsed",
           Construct \/ ConnectOne \/ \E l \in todo : NextLocation(l)
    PROVE  outcome' = "parsed"
<1>1. Plain(Lines) /\ RowsInv /\ Tells(Lines)
  BY WellFormedPlain DEF FileInv, ConfigInv, ParsedInv
<1>2. CASE Construct
  <2>1. threadNum \in Nat
    BY <1>1 DEF Tells, SettingsTold, Startable
  <2>2. Settled(threadNum) \subseteq Nat
    BY <2>1, ConfigAssumption DEF Settled
  <2> QED BY <1>2, <2>2 DEF Construct, parseVars
<1>3. ASSUME NEW l \in todo, NextLocation(l) PROVE outcome' = "parsed"
  <2>1. l \in DOMAIN server.locations
    BY <1>1, <1>3 DEF RowsInv, NextLocation
  <2>2. l \in Named(Lines, "location") /\ server.locations[l] = ToldPass(Lines, l)
    BY <1>1, <2>1 DEF Tells, LocationsTold
  <2>3. server.locations[l] \in DOMAIN Host
    BY <2>2 DEF Startable
  <2> QED BY <1>3, <2>3 DEF NextLocation
<1>4. CASE ConnectOne
  <2>1. stage = "location" /\ Len(Row) < Len(Servers)
    BY <1>4 DEF ConnectOne
  <2>2. /\ location \in DOMAIN forwarding /\ Row \in Seq(DOMAIN serverConns)
        /\ Servers = Served(location) /\ Host[server.locations[location]] \in DOMAIN upstreams
    BY <1>1, <2>1 DEF FileInv, StartInv, RowsInv, Row, Servers, Served
  <2> PICK k, list : k = Len(Row) + 1 /\ list = Servers
    OBVIOUS
  <2>3. list \in Seq(Ends)
    BY <1>1, <2>2 DEF Tells, UpstreamsTold, Served
  <2>4. k \in 1 .. Len(list)
    <3>1. Len(Row) \in Nat
      BY <2>2
    <3> QED BY <2>1, <2>3, <3>1
  <2>5. PICK i \in LinesOf(Lines, "server") : Value(Lines, i) \in DOMAIN Endpoint /\ list[k] = Endpoint[Value(Lines, i)]
    BY <1>1, <2>2, <2>4 DEF Tells, UpstreamsTold, Served
  <2>6. Servers[Len(Row) + 1].port \in DOMAIN Number
    BY <2>5 DEF Startable
  <2> QED BY <1>4, <2>6 DEF ConnectOne, parseVars
<1> QED BY <1>2, <1>3, <1>4

LEMMA ProperInvStep == FileInv /\ ProperInv /\ [StartNext]_vars => ProperInv'
<1> SUFFICES ASSUME FileInv, ProperInv, [StartNext]_vars, WellFormed(Lines)', Startable(Lines)'
             PROVE  Unrefused'
  BY DEF ProperInv
<1>1. WellFormed(Lines) /\ Startable(Lines)
  BY FileSame
<1>2. Unrefused
  BY <1>1 DEF ProperInv
<1>3. CASE Parse
  BY <1>1, <1>2, <1>3, UnrefusedParse DEF Parse, FileInv, ConfigInv
<1>4. CASE Construct \/ ConnectOne \/ \E l \in todo : NextLocation(l)
  <2>1. outcome = "parsed"
    <3>1. ASSUME Construct PROVE outcome = "parsed"
      BY <3>1 DEF Construct
    <3>2. ASSUME ConnectOne PROVE outcome = "parsed"
      BY <3>2 DEF ConnectOne
    <3>3. ASSUME NEW l \in todo, NextLocation(l) PROVE outcome = "parsed"
      BY <3>3 DEF NextLocation
    <3> QED BY <1>4, <3>1, <3>2, <3>3
  <2>2. outcome' = "parsed"
    BY <1>1, <1>4, <2>1, StartsAll
  <2> QED BY <2>2 DEF Unrefused
<1>5. CASE Ready \/ LocationDone \/ StartPool \/ UNCHANGED vars
  <2>1. UNCHANGED <<outcome, lineState, iss>>
    BY <1>5 DEF Ready, LocationDone, StartPool, vars, parseVars
  <2> QED BY <1>2, <2>1 DEF Unrefused
<1> QED BY <1>3, <1>4, <1>5 DEF StartNext

\* A file written the way proxyserver.conf is, in any layout and any order of its
\* blocks, with values that can be used, ends neither the parser nor the start-up
\* with an exception.
THEOREM ProperFilesStart == StartSpec => []ProperAccepted
<1>1. StartInit => ProperInv
  BY DEF StartInit, ParseInit, ProperInv, Unrefused
<1>2. ProperInv => ProperAccepted
  BY DEF ProperInv, Unrefused, ProperAccepted
<1> QED BY <1>1, <1>2, ProperInvStep, FileInvariant, PTL DEF StartSpec
================================================================================
