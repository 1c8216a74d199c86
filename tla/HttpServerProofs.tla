---------------------------- MODULE HttpServerProofs ----------------------------
(***************************************************************************)
(* A connection of a business server, for streams of any length, cut        *)
(* anywhere: what is answered is what the stream says.                      *)
(***************************************************************************)
EXTENDS HttpServer, TLAPS, FiniteSetTheorems, WellFoundedInduction

--------------------------------------------------------------------------------
(* The reference: After is a recursive function, of which the proofs use only  *)
(* the value it has at 0 and how each value follows from the one before.       *)

LEMMA LeastElement ==
    ASSUME NEW T \in SUBSET Nat, T # {}
    PROVE  \E n \in T : \A m \in T : n <= m
<1>1. \E n \in T : \A m \in T : ~(<<m, n>> \in OpToRel(<, Nat))
  BY WFMin, NatLessThanWellFounded, Zenon
<1>2. PICK n \in T : \A m \in T : ~(<<m, n>> \in OpToRel(<, Nat))
  BY <1>1
<1>3. \A m \in T : ~(m < n)
  BY <1>2 DEF OpToRel
<1>4. \A m \in T : n <= m
  BY <1>3
<1> QED BY <1>4

\* What a line does to the reference parser.
Turn(s, l) == CASE s = "requestLine" -> IF l.as = "good" THEN "headers" ELSE "bad"
                [] s = "headers" -> IF l.colon THEN "headers" ELSE "requestLine"
                [] OTHER -> "bad"

LEMMA AfterUnfolds ==
    ASSUME input \in Seq(Lines)
    PROVE  /\ After[0] = "requestLine"
           /\ \A i \in 1 .. Len(input) : After[i] = Turn(After[i - 1], input[i])
<1> DEFINE Ok(n) == \E f : f = [i \in 0 .. n |-> IF i = 0 THEN "requestLine"
                                                 ELSE Turn(f[i - 1], input[i])]
           T == {n \in Nat : ~Ok(n)}
<1>0. Len(input) \in Nat
  OBVIOUS
<1>1. T = {}
  <2> SUFFICES ASSUME T # {} PROVE FALSE
    OBVIOUS
  <2>1. PICK n \in T : \A m \in T : n <= m
    BY LeastElement
  <2>2. n \in Nat /\ ~Ok(n)
    OBVIOUS
  <2>3. CASE n = 0
    <3> DEFINE f == [i \in 0 .. 0 |-> "requestLine"]
    <3>1. f = [i \in 0 .. 0 |-> IF i = 0 THEN "requestLine" ELSE Turn(f[i - 1], input[i])]
      OBVIOUS
    <3> QED BY <2>2, <2>3, <3>1
  <2>4. CASE n # 0
    <3>1. n - 1 \in Nat /\ ~(n <= n - 1)
      BY <2>2, <2>4
    <3>2. Ok(n - 1)
      BY <2>1, <3>1
    <3>3. PICK g : g = [i \in 0 .. n - 1 |-> IF i = 0 THEN "requestLine"
                                             ELSE Turn(g[i - 1], input[i])]
      BY <3>2
    <3> DEFINE f == [i \in 0 .. n |-> IF i = n THEN Turn(g[n - 1], input[n]) ELSE g[i]]
    <3>4. \A i \in 0 .. n : f[i] = IF i = 0 THEN "requestLine" ELSE Turn(f[i - 1], input[i])
      <4> SUFFICES ASSUME NEW i \in 0 .. n
                   PROVE  f[i] = IF i = 0 THEN "requestLine" ELSE Turn(f[i - 1], input[i])
        OBVIOUS
      <4>1. CASE i = n
        <5>1. f[i] = Turn(g[n - 1], input[n]) /\ f[n - 1] = g[n - 1]
          BY <2>2, <2>4, <4>1
        <5> QED BY <2>4, <4>1, <5>1
      <4>2. CASE i # n
        <5>1. i \in 0 .. n - 1 /\ f[i] = g[i]
          BY <2>2, <4>2
        <5>2. i # 0 => i - 1 \in 0 .. n /\ i - 1 # n
          BY <2>2
        <5>3. i # 0 => f[i - 1] = g[i - 1]
          BY <5>2
        <5>4. g[i] = IF i = 0 THEN "requestLine" ELSE Turn(g[i - 1], input[i])
          BY <3>3, <5>1
        <5> HIDE DEF f
        <5> QED BY <5>1, <5>3, <5>4
      <4> QED BY <4>1, <4>2
    <3>5. f = [i \in 0 .. n |-> IF i = 0 THEN "requestLine" ELSE Turn(f[i - 1], input[i])]
      <4>1. f = [i \in 0 .. n |-> f[i]]
        OBVIOUS
      <4> HIDE DEF f
      <4> QED BY <3>4, <4>1
    <3> QED BY <2>2, <3>5
  <2> QED BY <2>3, <2>4
<1>2. Ok(Len(input))
  BY <1>0, <1>1
<1>3. After = [i \in 0 .. Len(input) |-> IF i = 0 THEN "requestLine"
                                         ELSE Turn(After[i - 1], input[i])]
  BY <1>2, Zenon DEF After, Turn
<1> QED BY <1>0, <1>3

LEMMA ReferenceUnchanged ==
    ASSUME input' = input
    PROVE  /\ After' = After /\ Starts' = Starts /\ Ends' = Ends
           /\ \A n : Answered(n)' = Answered(n)
<1>1. After' = After
  BY SMT DEF After
<1> QED BY <1>1 DEF Starts, Ends, Answered

\* The lines up to some line at which a request begins, or ends.
LEMMA ReferenceFinite ==
    ASSUME input \in Seq(Lines)
    PROVE  /\ Starts \subseteq 1 .. Len(input) /\ Ends \subseteq 1 .. Len(input)
           /\ \A n : IsFiniteSet({i \in Starts : i <= n}) /\ IsFiniteSet({e \in Ends : e <= n})
<1>1. IsFiniteSet(1 .. Len(input))
  BY FS_Interval
<1>2. Starts \subseteq 1 .. Len(input) /\ Ends \subseteq 1 .. Len(input)
  BY DEF Starts, Ends
<1>3. \A n : {i \in Starts : i <= n} \in SUBSET (1 .. Len(input))
  BY <1>2
<1>4. \A n : {e \in Ends : e <= n} \in SUBSET (1 .. Len(input))
  BY <1>2
<1> QED BY <1>1, <1>2, <1>3, <1>4, FS_Subset

LEMMA OneMoreLine ==
    ASSUME NEW S \in SUBSET Nat, NEW n \in Nat, IsFiniteSet({i \in S : i <= n})
    PROVE  /\ n + 1 \in S => Cardinality({i \in S : i <= n + 1})
                               = Cardinality({i \in S : i <= n}) + 1
           /\ n + 1 \notin S => {i \in S : i <= n + 1} = {i \in S : i <= n}
<1> DEFINE T == {i \in S : i <= n}
           U == {i \in S : i <= n + 1}
<1>0. \A i \in S : i <= n + 1 <=> i <= n \/ i = n + 1
  OBVIOUS
<1>1. n + 1 \in S => U = T \cup {n + 1} /\ n + 1 \notin T
  <2>1. ~(n + 1 <= n)
    OBVIOUS
  <2> QED BY <1>0, <2>1, Zenon
<1>2. n + 1 \notin S => U = T
  BY <1>0, Zenon
<1>3. IsFiniteSet(T)
  OBVIOUS
<1> HIDE DEF T, U
<1>4. n + 1 \in S => Cardinality(U) = Cardinality(T) + 1
  BY <1>1, <1>3, FS_AddElement
<1> QED BY <1>2, <1>4 DEF T, U

\* A parser that has met a bad line meets no other request.
LEMMA BadStaysBad ==
    ASSUME input \in Seq(Lines), NEW n \in 1 .. Len(input), After[n] = "bad"
    PROVE  \A i \in n .. Len(input) : After[i] = "bad"
<1> DEFINE T == {i \in n .. Len(input) : After[i] # "bad"}
<1> SUFFICES ASSUME T # {} PROVE FALSE
  OBVIOUS
<1>1. T \in SUBSET Nat
  OBVIOUS
<1>2. PICK i \in T : \A j \in T : i <= j
  BY <1>1, LeastElement
<1>3. i # n /\ i - 1 \in n .. Len(input) /\ ~(i <= i - 1) /\ i \in 1 .. Len(input)
  OBVIOUS
<1>4. After[i - 1] = "bad"
  BY <1>2, <1>3
<1>5. After[i] = Turn(After[i - 1], input[i])
  BY <1>3, AfterUnfolds
<1> QED BY <1>4, <1>5 DEF Turn

LEMMA Halves ==
    ASSUME NEW a \in Nat, NEW b \in Nat, a <= b
    PROVE  /\ a \div 2 \in Nat /\ b \div 2 \in Nat /\ a \div 2 <= b \div 2
           /\ \A n \in Nat : a <= 2 * n => a \div 2 <= n
  OBVIOUS

--------------------------------------------------------------------------------
(* The inductive invariant *)

Params   == UNION {[K -> Values] : K \in SUBSET Keys}
Requests == [method : BOOLEAN, line : Nat, http10 : BOOLEAN, params : Params,
             headers : SUBSET Nat, token : {"none", "close", "keep", "other"}]
Answers  == [line : Nat, headers : SUBSET Nat, params : Params, close : BOOLEAN, sent : BOOLEAN]

\* The parser stands before a line that it refuses, and will refuse again.
Stuck == state = "requestLine" /\ HasLine /\ Line.as # "good"

HttpTypes ==
    /\ HttpTypeOK
    /\ request \in Requests
    /\ answers \in Seq(Answers)
    /\ hpc = "request" <=> state = "gotAll"
    /\ hpc = "bad" => Stuck

\* state_ is the state of the reference after the lines read.
StateInv ==
    /\ state = "requestLine" => After[read] = "requestLine"
    /\ state = "headers" => After[read] = "headers"
    /\ state = "gotAll" => /\ read \in 1 .. Len(input) /\ ~input[read].colon
                           /\ After[read] = "requestLine"

StartsRead   == {i \in Starts : i <= read}
EndsRead     == {e \in Ends : e <= read}
StartsToLine == {i \in Starts : i <= request.line}

\* How many requests begin and end in what has been read.
CountInv ==
    /\ state = "requestLine" =>
          Cardinality(StartsRead) = Len(answers) /\ Cardinality(EndsRead) = Len(answers)
    /\ state = "headers" =>
          Cardinality(StartsToLine) = Len(answers) + 1 /\ Cardinality(EndsRead) = Len(answers)
    /\ state = "gotAll" =>
          Cardinality(StartsToLine) = Len(answers) + 1 /\ Cardinality(EndsRead) = Len(answers) + 1
    /\ state # "requestLine" => StartsRead = StartsToLine

\* The request under construction has its own headers and no other.
LastHeader == IF state = "headers" THEN read ELSE read - 1
HeadersInv ==
    /\ state = "requestLine" => request.headers = {}
    /\ state # "requestLine" =>
          /\ request.line \in Starts /\ request.line <= LastHeader
          /\ request.headers = request.line + 1 .. LastHeader
          /\ \A i \in request.line + 1 .. LastHeader : input[i].colon

AnswersInv ==
    \A k \in 1 .. Len(answers) :
        LET s == answers[k].line
        IN  /\ s \in Starts /\ Cardinality({i \in Starts : i <= s}) = k
            /\ answers[k].headers = HeadersOf(s)

StreamInv == HttpTypes /\ StateInv /\ CountInv /\ HeadersInv /\ AnswersInv

\* The line the parser looks at.
LEMMA NextLine ==
    ASSUME HttpTypes
    PROVE  /\ input \in Seq(Lines) /\ Len(input) \in Nat /\ arrived \in Nat /\ read \in Nat
           /\ Complete \in Nat /\ Complete <= Len(input)
           /\ HasLine => read + 1 \in 1 .. Len(input) /\ Line \in LineRecords
<1>1. /\ input \in Seq(Lines) /\ arrived \in 0 .. 2 * Len(input) /\ read \in 0 .. Complete
  BY HttpAssumption DEF HttpTypes, HttpTypeOK
<1>2. Len(input) \in Nat /\ arrived \in Nat /\ arrived <= 2 * Len(input)
  BY <1>1
<1>3. Complete \in Nat /\ Complete <= Len(input)
  BY <1>2, Halves DEF Complete
<1>4. read \in Nat
  BY <1>1, <1>3
<1>5. HasLine => read + 1 \in 1 .. Len(input)
  BY <1>2, <1>3, <1>4 DEF HasLine
<1>6. HasLine => Line \in LineRecords
  BY <1>1, <1>5, HttpAssumption DEF Line
<1> QED BY <1>1, <1>2, <1>3, <1>4, <1>5, <1>6

LEMMA HttpTypesInit == HttpInit => HttpTypes
<1> SUFFICES ASSUME HttpInit PROVE HttpTypes
  OBVIOUS
<1>1. <<>> \in Params
  <2>1. <<>> \in [{} -> Values]
    OBVIOUS
  <2> QED BY <2>1 DEF Params
<1>2. input \in Seq(Lines)
  BY HttpAssumption DEF HttpInit
<1>3. NoRequest \in Requests
  BY <1>1 DEF NoRequest, Requests
<1>4. read \in 0 .. Complete
  BY Halves DEF HttpInit, Complete
<1>5. Len(input) \in Nat /\ 0 \in 0 .. 2 * Len(input)
  BY <1>2
<1>6. HttpTypeOK
  BY <1>4, <1>5 DEF HttpInit, HttpTypeOK
<1>7. answers \in Seq(Answers)
  BY DEF HttpInit
<1> QED BY <1>2, <1>3, <1>6, <1>7 DEF HttpInit, HttpTypes

LEMMA ParamsAdded ==
    ASSUME NEW old \in Params, NEW new \in Params
    PROVE  ParamsSet(old, new) \in Params
<1>1. PICK K \in SUBSET Keys, L \in SUBSET Keys : old \in [K -> Values] /\ new \in [L -> Values]
  BY DEF Params
<1>2. ParamsSet(old, new) \in [K \cup L -> Values]
  BY <1>1 DEF ParamsSet
<1>3. K \cup L \in SUBSET Keys
  BY <1>1
<1> QED BY <1>2, <1>3 DEF Params

LEMMA HttpTypesStep == HttpTypes /\ [HttpNext]_httpVars => HttpTypes'
<1> SUFFICES ASSUME HttpTypes, [HttpNext]_httpVars PROVE HttpTypes'
  OBVIOUS
<1>0. /\ input \in Inputs /\ arrived \in 0 .. 2 * Len(input) /\ read \in 0 .. Complete
      /\ hpc \in {"wait", "parse", "bad", "request", "aborted"}
      /\ state \in {"requestLine", "headers", "gotAll"}
      /\ closed \in BOOLEAN /\ before \in Nat
      /\ request \in Requests /\ answers \in Seq(Answers)
      /\ hpc = "request" <=> state = "gotAll"
      /\ hpc = "bad" => Stuck
  BY DEF HttpTypes, HttpTypeOK
<1>a. HasLine => Line.params \in Params /\ Line.http10 \in BOOLEAN
                   /\ Line.token \in {"none", "close", "keep", "other"}
  BY NextLine DEF LineRecords, Params
<1>b. HasLine => read + 1 \in 0 .. Complete
  BY NextLine DEF HasLine
<1>1. CASE OnMessage
  <2>1. /\ arrived' \in arrived + 1 .. 2 * Len(input) /\ before' = Len(answers) /\ hpc' = "parse"
        /\ UNCHANGED <<input, read, state, request, closed, answers>>
    BY <1>1 DEF OnMessage
  <2>2. arrived' \in Nat /\ arrived <= arrived' /\ arrived' \in 0 .. 2 * Len(input)
    BY <2>1, NextLine
  <2>3. read \in 0 .. Complete'
    <3>1. arrived \in Nat /\ arrived' \in Nat
      BY <2>2, NextLine
    <3>2. PICK b \in Nat : b = arrived'
      BY <3>1
    <3>3. /\ arrived \div 2 \in Nat /\ b \div 2 \in Nat /\ arrived \div 2 <= b \div 2
      BY <2>2, <3>1, <3>2, Halves
    <3>4. Complete \in Nat /\ Complete' \in Nat /\ Complete <= Complete'
      BY <3>2, <3>3 DEF Complete
    <3> QED BY <1>0, <3>4
  <2>4. state # "gotAll"
    BY <1>0, <1>1 DEF OnMessage
  <2>5. Len(answers) \in Nat
    BY <1>0
  <2> QED BY <1>0, <2>1, <2>2, <2>3, <2>4, <2>5 DEF HttpTypes, HttpTypeOK
<1>2. CASE NeedMore \/ AssertFails
  <2>1. /\ UNCHANGED <<input, arrived, read, state, request, closed, answers, before>>
        /\ hpc = "parse" /\ hpc' \in {"wait", "aborted"}
    BY <1>2 DEF NeedMore, AssertFails
  <2> QED BY <1>0, <2>1 DEF HttpTypes, HttpTypeOK, Complete
<1>3. CASE RequestLine
  <2>1. /\ UNCHANGED <<input, arrived, closed, answers, before>> /\ read' = read + 1
        /\ hpc' = "parse" /\ state' = "headers" /\ HasLine
    BY <1>3 DEF RequestLine
  <2>2. request' \in Requests
    <3>1. ParamsSet(request.params, Line.params) \in Params
      BY <1>0, <1>a, <2>1, ParamsAdded DEF Requests
    <3>2. request' = [request EXCEPT !.method = TRUE, !.line = read + 1,
                        !.http10 = Line.http10, !.params = ParamsSet(request.params, Line.params)]
      BY <1>3 DEF RequestLine
    <3>3. read + 1 \in Nat
      BY NextLine
    <3> QED BY <1>0, <1>a, <2>1, <3>1, <3>2, <3>3 DEF Requests
  <2> QED BY <1>0, <1>b, <2>1, <2>2 DEF HttpTypes, HttpTypeOK, Complete
<1>4. CASE BadRequestLine
  <2>1. /\ UNCHANGED <<input, arrived, read, state, closed, answers, before>> /\ HasLine
        /\ hpc' = "bad" /\ state = "requestLine" /\ Line.as # "good"
    BY <1>4 DEF BadRequestLine
  <2>2. request' \in Requests
    <3>1. ParamsSet(request.params, Line.params) \in Params
      BY <1>0, <1>a, <2>1, ParamsAdded DEF Requests
    <3>2. request' = request
            \/ request' = [request EXCEPT !.method = TRUE,
                                          !.params = ParamsSet(request.params, Line.params)]
      BY <1>4 DEF BadRequestLine
    <3> HIDE DEF ParamsSet
    <3> QED BY <1>0, <3>1, <3>2 DEF Requests
  <2>3. Stuck'
    BY <2>1 DEF Stuck, HasLine, Line, Complete
  <2> QED BY <1>0, <2>1, <2>2, <2>3 DEF HttpTypes, HttpTypeOK, Complete
<1>5. CASE Header
  <2>1. /\ UNCHANGED <<input, arrived, hpc, state, closed, answers, before>> /\ read' = read + 1
        /\ hpc = "parse" /\ HasLine
    BY <1>5 DEF Header
  <2>2. request' \in Requests
    <3>1. request' = [request EXCEPT !.headers = request.headers \cup {read + 1},
                        !.token = IF Line.token = "none" THEN request.token ELSE Line.token]
      BY <1>5 DEF Header
    <3>2. request.headers \cup {read + 1} \in SUBSET Nat
      BY <1>0, NextLine DEF Requests
    <3> QED BY <1>0, <1>a, <2>1, <3>1, <3>2 DEF Requests
  <2> QED BY <1>0, <1>b, <2>1, <2>2 DEF HttpTypes, HttpTypeOK, Complete
<1>6. CASE EndOfHeaders
  <2>1. /\ UNCHANGED <<input, arrived, request, closed, answers, before>> /\ read' = read + 1
        /\ hpc' = "request" /\ state' = "gotAll" /\ HasLine
    BY <1>6 DEF EndOfHeaders
  <2> QED BY <1>0, <1>b, <2>1 DEF HttpTypes, HttpTypeOK, Complete
<1>7. CASE BadRequest
  <2>1. /\ UNCHANGED <<input, arrived, read, state, request, answers, before>>
        /\ closed' = TRUE /\ hpc = "bad" /\ hpc' = "wait"
    BY <1>7 DEF BadRequest
  <2> QED BY <1>0, <2>1 DEF HttpTypes, HttpTypeOK, Complete
<1>8. CASE OnRequest
  <2>1. /\ UNCHANGED <<input, arrived, read, before>> /\ hpc' = "wait" /\ state' = "requestLine"
        /\ request' = Swapped(request) /\ closed' = (closed \/ WantsClose(request))
    BY <1>8 DEF OnRequest
  <2>2. request' \in Requests
    BY <1>0, <2>1 DEF Swapped, NoRequest, Requests
  <2>3. WantsClose(request) \in BOOLEAN
    BY DEF WantsClose
  <2>4. answers' \in Seq(Answers)
    <3>1. [line |-> request.line, headers |-> request.headers, params |-> request.params,
           close |-> WantsClose(request), sent |-> ~closed] \in Answers
      BY <1>0, <2>3 DEF Requests, Answers
    <3> QED BY <1>0, <1>8, <3>1 DEF OnRequest
  <2>5. closed' \in BOOLEAN
    BY <1>0, <2>1, <2>3
  <2> QED BY <1>0, <2>1, <2>2, <2>4, <2>5 DEF HttpTypes, HttpTypeOK, Complete
<1>9. CASE UNCHANGED httpVars
  BY <1>0, <1>9 DEF httpVars, HttpTypes, HttpTypeOK, Complete, Stuck, HasLine, Line
<1> QED BY <1>1, <1>2, <1>3, <1>4, <1>5, <1>6, <1>7, <1>8, <1>9 DEF HttpNext

LEMMA InputKept == [HttpNext]_httpVars => input' = input
BY DEF HttpNext, httpVars, OnMessage, NeedMore, AssertFails, RequestLine, BadRequestLine,
       Header, EndOfHeaders, BadRequest, OnRequest

--------------------------------------------------------------------------------
(* The requests of the stream *)

LEMMA StreamInit == HttpInit => StreamInv
<1> SUFFICES ASSUME HttpInit PROVE StreamInv
  OBVIOUS
<1>1. HttpTypes
  BY HttpTypesInit
<1>2. read = 0 /\ state = "requestLine" /\ answers = <<>> /\ request.headers = {}
  BY DEF HttpInit, NoRequest
<1>3. After[0] = "requestLine"
  BY <1>1, NextLine, AfterUnfolds
<1>4. StartsRead = {} /\ EndsRead = {}
  <2>1. Starts \subseteq 1 .. Len(input) /\ Ends \subseteq 1 .. Len(input)
    BY <1>1, NextLine, ReferenceFinite
  <2>2. \A i \in 1 .. Len(input) : ~(i <= 0)
    OBVIOUS
  <2> QED BY <1>2, <2>1, <2>2, Zenon DEF StartsRead, EndsRead
<1> QED BY <1>1, <1>2, <1>3, <1>4, FS_EmptySet
        DEF StreamInv, StateInv, CountInv, HeadersInv, AnswersInv

\* What reading the next line adds to the reference's sets.
LEMMA ReadOne ==
    ASSUME HttpTypes, HasLine, input' = input, read' = read + 1
    PROVE  /\ After[read + 1] = Turn(After[read], Line)
           /\ read + 1 \in Starts => Cardinality(StartsRead') = Cardinality(StartsRead) + 1
           /\ read + 1 \notin Starts => StartsRead' = StartsRead
           /\ read + 1 \in Ends => Cardinality(EndsRead') = Cardinality(EndsRead) + 1
           /\ read + 1 \notin Ends => EndsRead' = EndsRead
           /\ read + 1 \in Starts <=> After[read] = "requestLine" /\ After[read + 1] = "headers"
           /\ read + 1 \in Ends <=> After[read] = "headers" /\ After[read + 1] = "requestLine"
<1>1. input \in Seq(Lines) /\ read \in Nat /\ read + 1 \in 1 .. Len(input) /\ Len(input) \in Nat
  BY NextLine
<1>a. (read + 1) - 1 = read
  BY <1>1
<1>2. After[read + 1] = Turn(After[read], Line)
  <2>1. After[read + 1] = Turn(After[(read + 1) - 1], input[read + 1])
    BY <1>1, AfterUnfolds
  <2> QED BY <1>a, <2>1 DEF Line
<1>3. /\ Starts' = Starts /\ Ends' = Ends
  BY ReferenceUnchanged
<1>4. Starts \in SUBSET Nat /\ Ends \in SUBSET Nat
      /\ IsFiniteSet({i \in Starts : i <= read}) /\ IsFiniteSet({e \in Ends : e <= read})
  <2>1. Starts \in SUBSET Nat /\ Ends \in SUBSET Nat
    <3>1. 1 .. Len(input) \subseteq Nat
      OBVIOUS
    <3> QED BY <1>1, <3>1, ReferenceFinite
  <2>2. IsFiniteSet({i \in Starts : i <= read}) /\ IsFiniteSet({e \in Ends : e <= read})
    BY <1>1, ReferenceFinite, Zenon
  <2> QED BY <2>1, <2>2
<1>5. StartsRead' = {i \in Starts : i <= read + 1} /\ EndsRead' = {e \in Ends : e <= read + 1}
  BY <1>3, Zenon DEF StartsRead, EndsRead
<1>6. /\ read + 1 \in Starts => Cardinality(StartsRead') = Cardinality(StartsRead) + 1
      /\ read + 1 \notin Starts => StartsRead' = StartsRead
  BY <1>1, <1>4, <1>5, OneMoreLine DEF StartsRead
<1>7. /\ read + 1 \in Ends => Cardinality(EndsRead') = Cardinality(EndsRead) + 1
      /\ read + 1 \notin Ends => EndsRead' = EndsRead
  BY <1>1, <1>4, <1>5, OneMoreLine DEF EndsRead
<1>8. /\ read + 1 \in Starts <=> After[read] = "requestLine" /\ After[read + 1] = "headers"
      /\ read + 1 \in Ends <=> After[read] = "headers" /\ After[read + 1] = "requestLine"
  <2>1. /\ read + 1 \in Starts <=> After[(read + 1) - 1] = "requestLine" /\ After[read + 1] = "headers"
        /\ read + 1 \in Ends <=> After[(read + 1) - 1] = "headers" /\ After[read + 1] = "requestLine"
    BY <1>1, Zenon DEF Starts, Ends
  <2> QED BY <1>a, <2>1
<1> QED BY <1>2, <1>6, <1>7, <1>8

\* The headers of a request, once the line that ends them has been read.
LEMMA HeadersComplete ==
    ASSUME StreamInv, state = "gotAll"
    PROVE  request.headers = HeadersOf(request.line)
<1> DEFINE s == request.line
<1>1. read \in 1 .. Len(input) /\ ~input[read].colon /\ Len(input) \in Nat /\ read \in Nat
  BY NextLine DEF StreamInv, StateInv
<1>2. /\ s \in Nat /\ s <= read - 1 /\ request.headers = s + 1 .. read - 1
      /\ \A i \in s + 1 .. read - 1 : input[i].colon
  BY DEF StreamInv, HttpTypes, HeadersInv, LastHeader, Requests
<1> HIDE DEF s
<1>3. ASSUME NEW i \in s + 1 .. Len(input), \A j \in s + 1 .. i : input[j].colon
      PROVE  i \in s + 1 .. read - 1
  <2>1. CASE read <= i
    <3>1. read \in s + 1 .. i
      BY <1>1, <1>2, <2>1
    <3> QED BY <1>1, <1>3, <3>1
  <2>2. CASE i < read
    BY <1>1, <1>2, <2>2
  <2> QED BY <1>1, <1>2, <2>1, <2>2
<1>4. ASSUME NEW i \in s + 1 .. read - 1
      PROVE  i \in s + 1 .. Len(input) /\ \A j \in s + 1 .. i : input[j].colon
  <2>1. \A j \in s + 1 .. i : j \in s + 1 .. read - 1
    BY <1>1, <1>2
  <2> QED BY <1>1, <1>2, <2>1
<1> QED BY <1>2, <1>3, <1>4 DEF HeadersOf, s

LEMMA AnswersKept ==
    ASSUME AnswersInv, input' = input, answers' = answers
    PROVE  AnswersInv'
<1>1. Starts' = Starts
  BY ReferenceUnchanged
<1>3. ASSUME NEW k \in 1 .. Len(answers)
      PROVE  /\ answers'[k].line \in Starts'
             /\ Cardinality({i \in Starts' : i <= answers'[k].line}) = k
             /\ answers'[k].headers = {i \in answers'[k].line + 1 .. Len(input') :
                                         \A j \in answers'[k].line + 1 .. i : input'[j].colon}
  <2>1. /\ answers[k].line \in Starts
        /\ Cardinality({i \in Starts : i <= answers[k].line}) = k
        /\ answers[k].headers = {i \in answers[k].line + 1 .. Len(input) :
                                   \A j \in answers[k].line + 1 .. i : input[j].colon}
    BY <1>3 DEF AnswersInv, HeadersOf
  <2> QED BY <1>1, <2>1
<1> QED BY <1>3 DEF AnswersInv, HeadersOf

\* Steps that neither read a line nor answer leave the counts alone.
LEMMA StreamStays ==
    ASSUME StreamInv, HttpTypes', input' = input, read' = read, state' = state,
           answers' = answers, request' = [request EXCEPT !.method = request'.method,
                                                          !.params = request'.params]
    PROVE  StreamInv'
<1>1. /\ After' = After /\ Starts' = Starts /\ Ends' = Ends
  BY ReferenceUnchanged
<1>2. request'.line = request.line /\ request'.headers = request.headers
  BY DEF StreamInv, HttpTypes, Requests
<1>3. StartsRead' = StartsRead /\ EndsRead' = EndsRead /\ StartsToLine' = StartsToLine
  BY <1>1, <1>2 DEF StartsRead, EndsRead, StartsToLine
<1>4. StateInv' /\ CountInv'
  BY <1>1, <1>3 DEF StreamInv, StateInv, CountInv
<1>5. HeadersInv'
  BY <1>1, <1>2 DEF StreamInv, HeadersInv, LastHeader
<1>6. AnswersInv'
  BY AnswersKept DEF StreamInv
<1> QED BY <1>4, <1>5, <1>6 DEF StreamInv

LEMMA StreamRequestLine == StreamInv /\ HttpTypes' /\ RequestLine => StreamInv'
<1> SUFFICES ASSUME StreamInv, HttpTypes', RequestLine PROVE StreamInv'
  OBVIOUS
<1>1. /\ UNCHANGED <<input, answers>> /\ read' = read + 1 /\ state' = "headers" /\ HasLine
      /\ state = "requestLine" /\ Line.as = "good"
  BY DEF RequestLine
<1>2. request'.line = read + 1 /\ request'.headers = {}
  BY <1>1 DEF RequestLine, StreamInv, HttpTypes, Requests, HeadersInv
<1>3. /\ After' = After /\ Starts' = Starts /\ Ends' = Ends
  BY <1>1, ReferenceUnchanged
<1>4. After[read] = "requestLine" /\ After[read + 1] = "headers"
  BY <1>1, ReadOne DEF StreamInv, StateInv, Turn
<1>5. /\ read + 1 \in Starts /\ EndsRead' = EndsRead
      /\ Cardinality(StartsRead') = Cardinality(StartsRead) + 1
  BY <1>1, <1>4, ReadOne DEF StreamInv
<1>6. StartsToLine' = StartsRead'
  BY <1>1, <1>2 DEF StartsToLine, StartsRead
<1>7. StateInv'
  BY <1>1, <1>3, <1>4 DEF StateInv
<1>8. CountInv'
  BY <1>1, <1>5, <1>6 DEF StreamInv, CountInv
<1>9. HeadersInv'
  <2>1. LastHeader' = read + 1 /\ read + 1 \in Nat
    BY <1>1, NextLine DEF LastHeader, StreamInv
  <2>2. (read + 1) + 1 .. read + 1 = {} /\ read + 1 <= read + 1
    BY <2>1
  <2> QED BY <1>1, <1>2, <1>3, <1>5, <2>1, <2>2 DEF HeadersInv
<1>10. AnswersInv'
  BY <1>1, AnswersKept DEF StreamInv
<1> QED BY <1>7, <1>8, <1>9, <1>10 DEF StreamInv

LEMMA StreamHeader == StreamInv /\ HttpTypes' /\ Header => StreamInv'
<1> SUFFICES ASSUME StreamInv, HttpTypes', Header PROVE StreamInv'
  OBVIOUS
<1>1. /\ UNCHANGED <<input, answers, state>> /\ read' = read + 1 /\ HasLine
      /\ state = "headers" /\ Line.colon
  BY DEF Header
<1>2. request'.line = request.line /\ request'.headers = request.headers \cup {read + 1}
  <2>1. request' = [request EXCEPT !.headers = request.headers \cup {read + 1},
                      !.token = IF Line.token = "none" THEN request.token ELSE Line.token]
    BY DEF Header
  <2> QED BY <2>1 DEF StreamInv, HttpTypes, Requests
<1>3. /\ After' = After /\ Starts' = Starts /\ Ends' = Ends
  BY <1>1, ReferenceUnchanged
<1>4. After[read] = "headers" /\ After[read + 1] = "headers"
  BY <1>1, ReadOne DEF StreamInv, StateInv, Turn
<1>5. StartsRead' = StartsRead /\ EndsRead' = EndsRead
  BY <1>1, <1>4, ReadOne DEF StreamInv
<1>6. StartsToLine' = StartsToLine
  BY <1>2, <1>3 DEF StartsToLine
<1>7. StateInv'
  BY <1>1, <1>3, <1>4 DEF StateInv
<1>8. CountInv'
  BY <1>1, <1>5, <1>6 DEF StreamInv, CountInv
<1>9. HeadersInv'
  <2>1. LastHeader' = read + 1 /\ LastHeader = read /\ read \in Nat
    BY <1>1, NextLine DEF LastHeader, StreamInv
  <2>2. /\ request.line \in Nat /\ request.line \in Starts /\ request.line <= read
        /\ request.headers = request.line + 1 .. read
        /\ \A i \in request.line + 1 .. read : input[i].colon
    BY <1>1, <2>1 DEF StreamInv, HttpTypes, HeadersInv, Requests
  <2>3. /\ \A i \in request.line + 1 .. read + 1 : i \in request.line + 1 .. read \/ i = read + 1
        /\ (request.line + 1 .. read) \cup {read + 1} = request.line + 1 .. read + 1
        /\ request.line <= read + 1
    BY <2>1, <2>2
  <2>4. input[read + 1].colon
    BY <1>1 DEF Line
  <2> QED BY <1>1, <1>2, <1>3, <2>1, <2>2, <2>3, <2>4 DEF HeadersInv
<1>10. AnswersInv'
  BY <1>1, AnswersKept DEF StreamInv
<1> QED BY <1>7, <1>8, <1>9, <1>10 DEF StreamInv

LEMMA StreamEndOfHeaders == StreamInv /\ HttpTypes' /\ EndOfHeaders => StreamInv'
<1> SUFFICES ASSUME StreamInv, HttpTypes', EndOfHeaders PROVE StreamInv'
  OBVIOUS
<1>1. /\ UNCHANGED <<input, answers, request>> /\ read' = read + 1 /\ HasLine
      /\ state = "headers" /\ state' = "gotAll" /\ ~Line.colon
  BY DEF EndOfHeaders
<1>3. /\ After' = After /\ Starts' = Starts /\ Ends' = Ends
  BY <1>1, ReferenceUnchanged
<1>4. After[read] = "headers" /\ After[read + 1] = "requestLine"
  BY <1>1, ReadOne DEF StreamInv, StateInv, Turn
<1>5. /\ StartsRead' = StartsRead
      /\ Cardinality(EndsRead') = Cardinality(EndsRead) + 1
  BY <1>1, <1>4, ReadOne DEF StreamInv
<1>6. StartsToLine' = StartsToLine
  BY <1>1, <1>3 DEF StartsToLine
<1>7. StateInv'
  <2>1. read + 1 \in 1 .. Len(input) /\ ~input[read + 1].colon
    BY <1>1, NextLine DEF StreamInv, Line
  <2> QED BY <1>1, <1>3, <1>4, <2>1 DEF StateInv
<1>8. CountInv'
  BY <1>1, <1>5, <1>6 DEF StreamInv, CountInv
<1>9. HeadersInv'
  <2>1. LastHeader' = (read + 1) - 1 /\ LastHeader = read /\ read \in Nat
    BY <1>1, NextLine DEF LastHeader, StreamInv
  <2>2. LastHeader' = LastHeader
    BY <2>1
  <2> QED BY <1>1, <1>3, <2>2 DEF StreamInv, HeadersInv
<1>10. AnswersInv'
  BY <1>1, AnswersKept DEF StreamInv
<1> QED BY <1>7, <1>8, <1>9, <1>10 DEF StreamInv

LEMMA StreamOnRequest == StreamInv /\ HttpTypes' /\ OnRequest => StreamInv'
<1> SUFFICES ASSUME StreamInv, HttpTypes', OnRequest PROVE StreamInv'
  OBVIOUS
<1>1. /\ UNCHANGED <<input, read>> /\ state = "gotAll" /\ state' = "requestLine"
      /\ request' = Swapped(request)
  BY DEF OnRequest, StreamInv, HttpTypes
<1>2. PICK a : /\ answers' = Append(answers, a)
               /\ a.line = request.line /\ a.headers = request.headers /\ a \in Answers
  <2> DEFINE a == [line |-> request.line, headers |-> request.headers,
                   params |-> request.params, close |-> WantsClose(request), sent |-> ~closed]
  <2>1. WantsClose(request) \in BOOLEAN
    BY DEF WantsClose
  <2>2. a \in Answers
    BY <2>1 DEF StreamInv, HttpTypes, HttpTypeOK, Requests, Answers
  <2>3. answers' = Append(answers, a)
    BY DEF OnRequest
  <2> QED BY <2>2, <2>3
<1>3. PICK n \in Nat : Len(answers) = n
  BY DEF StreamInv, HttpTypes
<1>4. /\ Len(answers') = n + 1 /\ answers'[n + 1] = a
      /\ \A k \in 1 .. n : answers'[k] = answers[k]
  BY <1>2, <1>3 DEF StreamInv, HttpTypes
<1>5. /\ After' = After /\ Starts' = Starts /\ Ends' = Ends
  BY <1>1, ReferenceUnchanged
<1>6. StartsRead' = StartsRead /\ EndsRead' = EndsRead
  BY <1>1, <1>5 DEF StartsRead, EndsRead
<1>7. Cardinality(StartsRead) = n + 1 /\ Cardinality(EndsRead) = n + 1 /\ StartsRead = StartsToLine
  BY <1>1, <1>3 DEF StreamInv, CountInv
<1>8. StateInv' /\ CountInv'
  BY <1>1, <1>4, <1>5, <1>6, <1>7 DEF StreamInv, StateInv, CountInv
<1>9. HeadersInv'
  BY <1>1 DEF HeadersInv, Swapped, NoRequest
<1>10. request.line \in Starts /\ request.headers = HeadersOf(request.line)
  BY <1>1, HeadersComplete DEF StreamInv, HeadersInv
<1>11. AnswersInv'
  <2> SUFFICES ASSUME NEW k \in 1 .. n + 1
               PROVE  /\ answers'[k].line \in Starts
                      /\ Cardinality({i \in Starts : i <= answers'[k].line}) = k
                      /\ answers'[k].headers = HeadersOf(answers'[k].line)
    BY <1>1, <1>4, <1>5 DEF AnswersInv, HeadersOf
  <2>1. CASE k = n + 1
    <3>1. answers'[k].line = request.line /\ answers'[k].headers = request.headers
      BY <1>2, <1>4, <2>1
    <3>2. Cardinality({i \in Starts : i <= request.line}) = k
      BY <1>7, <2>1 DEF StartsToLine
    <3> QED BY <1>10, <3>1, <3>2
  <2>2. CASE k # n + 1
    <3>1. k \in 1 .. n /\ answers'[k] = answers[k]
      BY <1>4, <2>2
    <3> QED BY <1>3, <3>1 DEF StreamInv, AnswersInv
  <2> QED BY <2>1, <2>2
<1> QED BY <1>8, <1>9, <1>11 DEF StreamInv

LEMMA StreamStep == StreamInv /\ [HttpNext]_httpVars => StreamInv'
<1> SUFFICES ASSUME StreamInv, [HttpNext]_httpVars PROVE StreamInv'
  OBVIOUS
<1>1. HttpTypes' /\ input' = input
  BY HttpTypesStep, InputKept DEF StreamInv
<1>2. ASSUME read' = read, state' = state, answers' = answers,
             request' = request
               \/ request' = [request EXCEPT !.method = request'.method, !.params = request'.params]
      PROVE  StreamInv'
  <2>1. request' = [request EXCEPT !.method = request'.method, !.params = request'.params]
    BY <1>2 DEF StreamInv, HttpTypes, Requests
  <2> QED BY <1>1, <1>2, <2>1, StreamStays
<1>3. CASE OnMessage \/ NeedMore \/ AssertFails \/ BadRequest \/ UNCHANGED httpVars
  BY <1>2, <1>3 DEF OnMessage, NeedMore, AssertFails, BadRequest, httpVars
<1>4. CASE BadRequestLine
  <2>1. read' = read /\ state' = state /\ answers' = answers
    BY <1>4 DEF BadRequestLine
  <2>2. request' = request
          \/ request' = [request EXCEPT !.method = TRUE,
                                        !.params = ParamsSet(request.params, Line.params)]
    BY <1>4 DEF BadRequestLine
  <2>3. request' = request
          \/ request' = [request EXCEPT !.method = request'.method, !.params = request'.params]
    BY <2>2 DEF StreamInv, HttpTypes, Requests
  <2> QED BY <1>2, <2>1, <2>3
<1> QED BY <1>1, <1>3, <1>4, StreamRequestLine, StreamHeader, StreamEndOfHeaders, StreamOnRequest
        DEF HttpNext

\* The inductive invariant of the parser: its state is that of a parser that reads
\* the stream as a whole, and it has counted the requests.
THEOREM StreamInvariant == HttpSpec => []StreamInv
BY StreamInit, StreamStep, PTL DEF HttpSpec

\* Every variable of the parser keeps its type, for streams of any length.
THEOREM HttpTypesHold == HttpSpec => []HttpTypeOK
<1>1. StreamInv => HttpTypeOK
  BY DEF StreamInv, HttpTypes
<1> QED BY <1>1, StreamInvariant, PTL

\* No request ends unseen: the reference's count grows with the lines.
LEMMA AnsweredGrows ==
    ASSUME HttpTypes
    PROVE  /\ Cardinality(EndsRead) \in Nat /\ Answered(Complete) \in Nat
           /\ Cardinality(EndsRead) <= Answered(Complete)
<1>1. /\ input \in Seq(Lines) /\ Complete \in Nat /\ read \in 0 .. Complete
  BY NextLine DEF HttpTypes, HttpTypeOK
<1> DEFINE there == {e \in Ends : e <= Complete}
<1>2. IsFiniteSet(there) /\ Ends \subseteq Nat
  <2>1. 1 .. Len(input) \subseteq Nat
    OBVIOUS
  <2>2. IsFiniteSet({e \in Ends : e <= Complete})
    BY <1>1, ReferenceFinite, Zenon
  <2> QED BY <1>1, <2>1, <2>2, ReferenceFinite
<1>3. EndsRead \in SUBSET there
  <2>1. \A e \in Nat : e <= read => e <= Complete
    BY <1>1
  <2> QED BY <1>2, <2>1 DEF EndsRead
<1> HIDE DEF there
<1>4. /\ Cardinality(there) \in Nat /\ Cardinality(EndsRead) \in Nat
      /\ Cardinality(EndsRead) <= Cardinality(there)
  BY <1>2, <1>3, FS_Subset, FS_CardinalityType
<1> QED BY <1>4 DEF Answered, there

\* The requests handed on are those of the stream read as a whole, for streams of
\* any length, however their bytes are cut into messages.
THEOREM AnswersAreTheStreams == HttpSpec => []AnswersFollowStream
<1>1. StreamInv => AnswersFollowStream
  <2> SUFFICES ASSUME StreamInv PROVE AnswersFollowStream
    OBVIOUS
  <2>1. Len(answers) \in Nat /\ DOMAIN answers = 1 .. Len(answers)
    BY DEF StreamInv, HttpTypes
  <2>2. Len(answers) <= Cardinality(EndsRead)
    BY <2>1 DEF StreamInv, CountInv, HttpTypes, HttpTypeOK
  <2>3. Len(answers) <= Answered(Complete)
    BY <2>1, <2>2, AnsweredGrows DEF StreamInv
  <2> QED BY <2>1, <2>3 DEF StreamInv, AnswersInv, AnswersFollowStream
<1> QED BY <1>1, StreamInvariant, PTL

--------------------------------------------------------------------------------
(* Nothing follows a line that is refused *)

LEMMA StuckForGood ==
    ASSUME HttpTypes, [HttpNext]_httpVars, Stuck
    PROVE  Stuck' /\ UNCHANGED <<read, state, answers>>
<1>0. /\ state = "requestLine" /\ HasLine /\ Line.as # "good" /\ hpc # "request"
      /\ read \in Nat /\ arrived \in Nat
  BY NextLine DEF Stuck, HttpTypes
<1>1. CASE OnMessage
  <2>1. /\ arrived' \in arrived + 1 .. 2 * Len(input)
        /\ UNCHANGED <<input, read, state, answers>>
    BY <1>1 DEF OnMessage
  <2>2. Len(input) \in Nat
    BY NextLine
  <2>3. PICK b \in Nat : b = arrived' /\ arrived <= b
    BY <1>0, <2>1, <2>2
  <2>4. arrived \div 2 \in Nat /\ b \div 2 \in Nat /\ arrived \div 2 <= b \div 2
    BY <1>0, <2>3, Halves
  <2>5. HasLine'
    <3>1. PICK c \in Nat, d \in Nat : c = Complete /\ d = Complete' /\ c <= d
      BY <2>3, <2>4 DEF Complete
    <3>2. read < c
      BY <1>0, <3>1 DEF HasLine
    <3>3. read' < d
      BY <1>0, <2>1, <3>1, <3>2
    <3> QED BY <3>1, <3>3 DEF HasLine
  <2> QED BY <1>0, <2>1, <2>5 DEF Stuck, Line
<1>2. CASE NeedMore \/ AssertFails \/ BadRequestLine \/ BadRequest \/ UNCHANGED httpVars
  <2>1. UNCHANGED <<input, arrived, read, state, answers>>
    BY <1>2 DEF NeedMore, AssertFails, BadRequestLine, BadRequest, httpVars
  <2> QED BY <1>0, <2>1 DEF Stuck, HasLine, Line, Complete
<1>3. ~RequestLine /\ ~Header /\ ~EndOfHeaders /\ ~OnRequest
  BY <1>0 DEF RequestLine, Header, EndOfHeaders, OnRequest
<1> QED BY <1>1, <1>2, <1>3 DEF HttpNext

\* What onRequest adds to the history.
LEMMA AnswerAdded ==
    ASSUME HttpTypes, OnRequest
    PROVE  \E n \in Nat :
             /\ Len(answers) = n /\ Len(answers') = n + 1
             /\ \A k \in 1 .. n : answers'[k] = answers[k]
             /\ answers'[n + 1].line = request.line
             /\ answers'[n + 1].params = request.params
             /\ answers'[n + 1].close = WantsClose(request)
             /\ answers'[n + 1].sent = ~closed
<1>1. PICK a : /\ answers' = Append(answers, a)
               /\ a.line = request.line /\ a.params = request.params
               /\ a.close = WantsClose(request) /\ a.sent = ~closed
  BY DEF OnRequest
<1>2. PICK n \in Nat : Len(answers) = n
  BY DEF HttpTypes
<1>3. /\ Len(answers') = n + 1 /\ answers'[n + 1] = a
      /\ \A k \in 1 .. n : answers'[k] = answers[k]
  BY <1>1, <1>2 DEF HttpTypes
<1> QED BY <1>1, <1>2, <1>3

\* Any other step leaves the history alone.
LEMMA OnlyOnRequestAnswers ==
    ASSUME [HttpNext]_httpVars, ~OnRequest
    PROVE  answers' = answers
BY DEF HttpNext, httpVars, OnMessage, NeedMore, AssertFails, RequestLine, BadRequestLine,
       Header, EndOfHeaders, BadRequest

--------------------------------------------------------------------------------
(* The end of the connection *)

Told == \E j \in 1 .. Len(answers) : answers[j].close

\* The connection is shut down because an answer said so, or because of a line that
\* keeps the parser from ever answering again.
CloseInv ==
    /\ Told => closed
    /\ closed => Told \/ Stuck
    /\ \A k \in 1 .. Len(answers) :
          answers[k].sent <=> ~\E j \in 1 .. k - 1 : answers[j].close

LEMMA CloseInit == HttpInit => CloseInv
BY DEF HttpInit, CloseInv, Told

LEMMA CloseStep == HttpTypes /\ CloseInv /\ [HttpNext]_httpVars => CloseInv'
<1> SUFFICES ASSUME HttpTypes, CloseInv, [HttpNext]_httpVars PROVE CloseInv'
  OBVIOUS
<1>1. CASE OnRequest
  <2>1. PICK n \in Nat :
             /\ Len(answers) = n /\ Len(answers') = n + 1
             /\ \A k \in 1 .. n : answers'[k] = answers[k]
             /\ answers'[n + 1].close = WantsClose(request)
             /\ answers'[n + 1].sent = ~closed
    BY <1>1, AnswerAdded
  <2>2. ~Stuck /\ closed' = (closed \/ WantsClose(request))
    BY <1>1 DEF OnRequest, HttpTypes, Stuck
  <2>3. closed <=> \E j \in 1 .. n : answers[j].close
    BY <2>1, <2>2 DEF CloseInv, Told
  <2>4. \A j \in 1 .. n + 1 : j \in 1 .. n \/ j = n + 1
    OBVIOUS
  <2>5. Told' <=> closed'
    <3>1. Told' <=> \E j \in 1 .. n + 1 : answers'[j].close
      BY <2>1 DEF Told
    <3>2. n + 1 \in 1 .. n + 1 /\ \A j \in 1 .. n : j \in 1 .. n + 1
      OBVIOUS
    <3> QED BY <2>1, <2>2, <2>3, <2>4, <3>1, <3>2
  <2>6. ASSUME NEW k \in 1 .. n + 1
        PROVE  answers'[k].sent <=> ~\E j \in 1 .. k - 1 : answers'[j].close
    <3>1. CASE k = n + 1
      <4>1. \A j : j \in 1 .. k - 1 <=> j \in 1 .. n
        BY <3>1
      <4> QED BY <2>1, <2>3, <3>1, <4>1
    <3>2. CASE k \in 1 .. n
      <4>1. \A j \in 1 .. k - 1 : j \in 1 .. n
        BY <3>2
      <4>2. answers[k].sent <=> ~\E j \in 1 .. k - 1 : answers[j].close
        BY <2>1, <3>2 DEF CloseInv
      <4> QED BY <2>1, <3>2, <4>1, <4>2
    <3> QED BY <2>4, <3>1, <3>2
  <2> QED BY <2>1, <2>5, <2>6 DEF CloseInv
<1>2. CASE ~OnRequest
  <2>1. answers' = answers
    BY <1>2, OnlyOnRequestAnswers
  <2>2. closed' = closed \/ BadRequest
    BY <1>2 DEF HttpNext, httpVars, OnMessage, NeedMore, AssertFails, RequestLine,
                BadRequestLine, Header, EndOfHeaders
  <2>3. Stuck => Stuck'
    BY StuckForGood
  <2>4. BadRequest => closed' /\ Stuck
    BY DEF BadRequest, HttpTypes
  <2> QED BY <2>1, <2>2, <2>3, <2>4 DEF CloseInv, Told
<1> QED BY <1>1, <1>2

\* A client that was told the connection ends hears nothing more on it, and one that
\* was not told finds it open, on streams of any length.
THEOREM ClosedOnlyWhenTold == HttpSpec => []ClosedWhenTold
<1>1. StreamInv => HttpTypes
  BY DEF StreamInv
<1>2. StreamInv /\ CloseInv /\ [HttpNext]_httpVars => CloseInv'
  BY <1>1, CloseStep
<1>3. StreamInv /\ CloseInv => ClosedWhenTold
  <2> SUFFICES ASSUME StreamInv, CloseInv PROVE ClosedWhenTold
    OBVIOUS
  <2>1. DOMAIN answers = 1 .. Len(answers)
    BY DEF StreamInv, HttpTypes
  <2> QED BY <2>1 DEF CloseInv, ClosedWhenTold
<1> QED BY CloseInit, <1>2, <1>3, StreamInvariant, PTL DEF HttpSpec

--------------------------------------------------------------------------------
(* The parameters *)

\* The parameter q of the function has comes from a request of an earlier line.
From(q, has, last) ==
    \E i \in Starts : i <= last /\ q \in DOMAIN input[i].params /\ has[q] = input[i].params[q]

\* What querys_ holds between two requests, and once a request line has been read.
OwnFirst(line, has) ==
    /\ \A q \in DOMAIN input[line].params : q \in DOMAIN has /\ has[q] = input[line].params[q]
    /\ \A q \in DOMAIN has \ DOMAIN input[line].params : From(q, has, line - 1)

ParamsInv ==
    /\ state = "requestLine" =>
          Stuck \/ \A q \in DOMAIN request.params : From(q, request.params, read)
    /\ state # "requestLine" => OwnFirst(request.line, request.params)
    /\ \A k \in 1 .. Len(answers) : OwnFirst(answers[k].line, answers[k].params)

LEMMA ParamsInit == HttpInit => ParamsInv
BY DEF HttpInit, ParamsInv, NoRequest

LEMMA ParamsNext ==
    ASSUME input' = input,
           state' = "requestLine" =>
              Stuck' \/ \A q \in DOMAIN request'.params : From(q, request'.params, read'),
           state' # "requestLine" => OwnFirst(request'.line, request'.params),
           \A k \in 1 .. Len(answers') : OwnFirst(answers'[k].line, answers'[k].params)
    PROVE  ParamsInv'
<1>1. Starts' = Starts
  BY ReferenceUnchanged
<1>2. state' = "requestLine" =>
         Stuck' \/ \A q \in DOMAIN request'.params : From(q, request.params, read)'
  BY <1>1 DEF From
<1>3. state' # "requestLine" => OwnFirst(request.line, request.params)'
  BY <1>1 DEF OwnFirst, From
<1>4. \A k \in 1 .. Len(answers') : OwnFirst(answers[k].line, answers[k].params)'
  BY <1>1 DEF OwnFirst, From
<1> QED BY <1>2, <1>3, <1>4 DEF ParamsInv

\* querys_[key] = value on top of what is there: the request line's come first, and
\* the others are as old as they were.
LEMMA OwnParamsWin ==
    ASSUME NEW line \in Nat, NEW old, NEW new,
           new = ParamsSet(old, input[line].params),
           \A q \in DOMAIN old : From(q, old, line - 1)
    PROVE  OwnFirst(line, new)
<1> DEFINE own == input[line].params
<1>1. DOMAIN new = DOMAIN old \cup DOMAIN own
  BY DEF ParamsSet
<1>2. \A q \in DOMAIN own : q \in DOMAIN new /\ new[q] = own[q]
  BY DEF ParamsSet
<1>3. \A q \in DOMAIN old \ DOMAIN own : new[q] = old[q]
  BY DEF ParamsSet
<1>4. \A q \in DOMAIN new \ DOMAIN own : From(q, new, line - 1)
  BY <1>1, <1>3 DEF From
<1> QED BY <1>2, <1>4 DEF OwnFirst

LEMMA ParamsStep == StreamInv /\ ParamsInv /\ [HttpNext]_httpVars => ParamsInv'
<1> SUFFICES ASSUME StreamInv, ParamsInv, [HttpNext]_httpVars PROVE ParamsInv'
  OBVIOUS
<1>0. /\ input' = input /\ HttpTypes /\ request \in Requests /\ read \in Nat
      /\ state \in {"requestLine", "headers", "gotAll"}
  BY InputKept, NextLine DEF StreamInv, HttpTypes, HttpTypeOK
<1>1. CASE RequestLine
  <2>1. /\ state = "requestLine" /\ state' = "headers" /\ answers' = answers /\ ~Stuck
    BY <1>1 DEF RequestLine, Stuck
  <2>2. request' = [request EXCEPT !.method = TRUE, !.line = read + 1,
                      !.http10 = Line.http10, !.params = ParamsSet(request.params, Line.params)]
    BY <1>1 DEF RequestLine
  <2>3. request'.line = read + 1 /\ request'.params = ParamsSet(request.params, input[read + 1].params)
    BY <1>0, <2>2 DEF Requests, Line
  <2>4. \A q \in DOMAIN request.params : From(q, request.params, (read + 1) - 1)
    BY <1>0, <2>1 DEF ParamsInv
  <2>5. OwnFirst(read + 1, request'.params)
    BY <1>0, <2>3, <2>4, OwnParamsWin
  <2> QED BY <1>0, <2>1, <2>3, <2>5, ParamsNext DEF ParamsInv
<1>2. CASE OnRequest
  <2>1. /\ state = "gotAll" /\ state' = "requestLine" /\ read' = read
        /\ request'.params = request.params
    BY <1>2 DEF OnRequest, StreamInv, HttpTypes, Swapped
  <2>2. /\ request.line \in Nat /\ request.line \in Starts /\ request.line <= read - 1
        /\ OwnFirst(request.line, request.params)
    BY <1>0, <2>1 DEF StreamInv, HeadersInv, LastHeader, ParamsInv, Requests
  <2>3. ASSUME NEW q \in DOMAIN request.params
        PROVE  From(q, request.params, read)
    <3>1. CASE q \in DOMAIN input[request.line].params
      <4>1. request.line <= read
        BY <1>0, <2>2
      <4> QED BY <2>2, <3>1, <4>1 DEF OwnFirst, From
    <3>2. CASE q \notin DOMAIN input[request.line].params
      <4>1. PICK i \in Starts : /\ i <= request.line - 1 /\ q \in DOMAIN input[i].params
                                /\ request.params[q] = input[i].params[q]
        BY <2>2, <3>2 DEF OwnFirst, From
      <4>2. i \in Nat
        <5>1. Starts \subseteq 1 .. Len(input) /\ 1 .. Len(input) \subseteq Nat
          BY <1>0, NextLine, ReferenceFinite
        <5> QED BY <5>1
      <4>3. i <= read
        BY <1>0, <2>2, <4>1, <4>2
      <4> QED BY <4>1, <4>3 DEF From
    <3> QED BY <3>1, <3>2
  <2>4. PICK n \in Nat : /\ Len(answers) = n /\ Len(answers') = n + 1
                         /\ \A k \in 1 .. n : answers'[k] = answers[k]
                         /\ answers'[n + 1].line = request.line
                         /\ answers'[n + 1].params = request.params
    BY <1>0, <1>2, AnswerAdded
  <2>5. ASSUME NEW k \in 1 .. n + 1
        PROVE  OwnFirst(answers'[k].line, answers'[k].params)
    <3>1. CASE k = n + 1
      BY <2>2, <2>4, <3>1
    <3>2. CASE k \in 1 .. n
      BY <2>4, <3>2 DEF ParamsInv
    <3> QED BY <3>1, <3>2
  <2> QED BY <1>0, <2>1, <2>3, <2>4, <2>5, ParamsNext
<1>3. CASE BadRequestLine
  <2>1. state' = "requestLine" /\ answers' = answers /\ Stuck'
    BY <1>0, <1>3, StuckForGood DEF BadRequestLine, Stuck
  <2> QED BY <1>0, <2>1, ParamsNext DEF ParamsInv
<1>4. CASE Header \/ EndOfHeaders
  <2>1. /\ state # "requestLine" /\ state' # "requestLine" /\ answers' = answers
    BY <1>4 DEF Header, EndOfHeaders
  <2>2. request'.line = request.line /\ request'.params = request.params
    BY <1>0, <1>4 DEF Header, EndOfHeaders, Requests
  <2> QED BY <1>0, <2>1, <2>2, ParamsNext DEF ParamsInv
<1>5. CASE OnMessage \/ NeedMore \/ AssertFails \/ BadRequest \/ UNCHANGED httpVars
  <2>1. UNCHANGED <<read, state, request, answers>>
    BY <1>5 DEF OnMessage, NeedMore, AssertFails, BadRequest, httpVars
  <2>2. Stuck => Stuck'
    BY <1>0, StuckForGood
  <2> QED BY <1>0, <2>1, <2>2, ParamsNext DEF ParamsInv
<1> QED BY <1>1, <1>2, <1>3, <1>4, <1>5 DEF HttpNext

\* querys_ outlives the request; still what a request is answered with are its own
\* parameters, and otherwise those of an earlier request, for streams of any length.
THEOREM OwnParamsFirst == HttpSpec => []ParamsFromStream
<1>1. StreamInv /\ ParamsInv => ParamsFromStream
  <2> SUFFICES ASSUME StreamInv, ParamsInv, NEW k \in DOMAIN answers
               PROVE  LET own == input[answers[k].line].params
                          has == answers[k].params
                      IN  /\ \A q \in DOMAIN own : q \in DOMAIN has /\ has[q] = own[q]
                          /\ \A q \in DOMAIN has \ DOMAIN own : \E i \in Starts :
                                i < answers[k].line /\ q \in DOMAIN input[i].params
                                                    /\ has[q] = input[i].params[q]
    BY Zenon DEF ParamsFromStream
  <2>1. k \in 1 .. Len(answers)
    BY DEF StreamInv, HttpTypes
  <2>2. OwnFirst(answers[k].line, answers[k].params) /\ answers[k].line \in Nat
    <3>1. answers \in Seq(Answers)
      BY DEF StreamInv, HttpTypes
    <3>2. answers[k] \in Answers
      BY <2>1, <3>1
    <3>3. answers[k].line \in Nat
      BY <3>2 DEF Answers
    <3> QED BY <2>1, <3>3 DEF ParamsInv
  <2>3. \A i \in Starts : i <= answers[k].line - 1 => i < answers[k].line
    <3>1. Starts \subseteq 1 .. Len(input) /\ 1 .. Len(input) \subseteq Nat
      BY NextLine, ReferenceFinite DEF StreamInv
    <3> QED BY <2>2, <3>1
  <2> QED BY <2>2, <2>3 DEF OwnFirst, From
<1> QED BY ParamsInit, ParamsStep, <1>1, StreamInvariant, PTL DEF HttpSpec

--------------------------------------------------------------------------------
(* What a message leaves unanswered *)

LEMMA NothingBehindStuck ==
    ASSUME StreamInv, Stuck
    PROVE  Answered(Complete) = Len(answers)
<1>1. /\ input \in Seq(Lines) /\ Len(input) \in Nat /\ read \in Nat /\ Complete \in Nat
      /\ read <= Complete /\ read + 1 \in 1 .. Len(input)
  BY NextLine DEF StreamInv, HttpTypes, HttpTypeOK, Stuck
<1>2. After[read + 1] = "bad"
  <2>1. After[read + 1] = Turn(After[(read + 1) - 1], input[read + 1]) /\ (read + 1) - 1 = read
    BY <1>1, AfterUnfolds
  <2> QED BY <2>1 DEF StreamInv, StateInv, Stuck, Line, Turn
<1>3. \A i \in read + 1 .. Len(input) : After[i] = "bad"
  BY <1>1, <1>2, BadStaysBad
<1>4. ASSUME NEW e \in Ends, e <= Complete PROVE e <= read
  <2>1. e \in 1 .. Len(input) /\ After[e] = "requestLine"
    BY DEF Ends
  <2>2. e \notin read + 1 .. Len(input)
    BY <1>3, <2>1
  <2> QED BY <1>1, <2>1, <2>2
<1>5. \A e \in Ends : e <= read => e <= Complete
  <2>1. Ends \subseteq 1 .. Len(input) /\ 1 .. Len(input) \subseteq Nat
    BY <1>1, ReferenceFinite
  <2> QED BY <1>1, <2>1
<1>6. {e \in Ends : e <= Complete} = EndsRead
  BY <1>4, <1>5, Zenon DEF EndsRead
<1> QED BY <1>6 DEF Answered, StreamInv, CountInv, Stuck

MessageInv ==
    /\ hpc # "wait" => before <= Len(answers)
    /\ MessageAnswersOne

\* A message is not over with a complete request left unless it has answered one, for
\* streams of any length.
THEOREM EveryMessageAnswersOne == HttpSpec => []MessageAnswersOne
<1>1. HttpInit => MessageInv
  <2> SUFFICES ASSUME HttpInit PROVE Answered(Complete) = Len(answers)
    BY DEF HttpInit, MessageInv, MessageAnswersOne
  <2>1. StreamInv /\ read = 0 /\ Complete = 0
    <3>1. 0 \div 2 = 0
      OBVIOUS
    <3> QED BY <3>1, StreamInit DEF HttpInit, Complete
  <2>2. Answered(Complete) = Cardinality(EndsRead)
    BY <2>1 DEF Answered, EndsRead
  <2> QED BY <2>1, <2>2 DEF HttpInit, StreamInv, CountInv
<1>2. StreamInv /\ StreamInv' /\ MessageInv /\ [HttpNext]_httpVars => MessageInv'
  <2> SUFFICES ASSUME StreamInv, StreamInv', MessageInv, [HttpNext]_httpVars PROVE MessageInv'
    OBVIOUS
  <2>0. /\ before \in Nat /\ Len(answers) \in Nat /\ answers \in Seq(Answers) /\ HttpTypes
        /\ input' = input
    BY InputKept DEF StreamInv, HttpTypes, HttpTypeOK
  <2>1. CASE OnMessage
    BY <2>0, <2>1 DEF OnMessage, MessageInv, MessageAnswersOne
  <2>2. CASE NeedMore
    <3>1. /\ UNCHANGED <<input, arrived, read, state, answers, before>> /\ ~HasLine
          /\ state # "gotAll" /\ hpc # "wait"
      BY <2>0, <2>2 DEF NeedMore, HttpTypes
    <3>2. read = Complete
      BY <2>0, <3>1, NextLine DEF HasLine, HttpTypes, HttpTypeOK
    <3>3. Answered(Complete) = Len(answers)
      BY <3>1, <3>2 DEF Answered, EndsRead, StreamInv, CountInv, HttpTypes, HttpTypeOK
    <3>4. Answered(Complete)' = Answered(Complete)
      BY <3>1, ReferenceUnchanged DEF Answered, Complete
    <3> QED BY <2>0, <2>2, <3>1, <3>3, <3>4 DEF MessageInv, MessageAnswersOne
  <2>3. CASE BadRequest
    <3>1. UNCHANGED <<input, arrived, answers, before>> /\ Stuck /\ hpc # "wait"
      BY <2>0, <2>3 DEF BadRequest, HttpTypes
    <3>2. Answered(Complete)' = Answered(Complete)
      BY <3>1, ReferenceUnchanged DEF Answered, Complete
    <3> QED BY <2>0, <3>1, <3>2, NothingBehindStuck DEF MessageInv, MessageAnswersOne
  <2>4. CASE OnRequest
    <3>1. before' = before /\ hpc # "wait"
      BY <2>4 DEF OnRequest
    <3>2. Len(answers') = Len(answers) + 1
      BY <2>0, <2>4, AnswerAdded
    <3>3. Len(answers') > before'
      BY <2>0, <3>1, <3>2 DEF MessageInv
    <3> QED BY <2>0, <3>1, <3>2, <3>3 DEF MessageInv, MessageAnswersOne
  <2>5. CASE AssertFails \/ RequestLine \/ BadRequestLine \/ Header \/ EndOfHeaders
    BY <2>5 DEF AssertFails, RequestLine, BadRequestLine, Header, EndOfHeaders,
                MessageInv, MessageAnswersOne
  <2>6. CASE UNCHANGED httpVars
    <3>1. UNCHANGED <<input, arrived, hpc, answers, before>>
      BY <2>6 DEF httpVars
    <3>2. Answered(Complete)' = Answered(Complete)
      BY <3>1, ReferenceUnchanged DEF Answered, Complete
    <3> QED BY <3>1, <3>2 DEF MessageInv, MessageAnswersOne
  <2> QED BY <2>1, <2>2, <2>3, <2>4, <2>5, <2>6 DEF HttpNext
<1>3. MessageInv => MessageAnswersOne
  BY DEF MessageInv
<1> QED BY <1>1, <1>2, <1>3, StreamInvariant, PTL DEF HttpSpec
================================================================================
