------------------------------- MODULE HttpServer -------------------------------
(***************************************************************************)
(* One connection of a business server: HttpServer::onMessage on top of the *)
(* incremental parser HttpContext and the request it fills in, HttpRequest  *)
(* (http_server).  The bytes come in messages cut anywhere, several         *)
(* requests in one or one request in several, because the proxy sends all   *)
(* clients' requests over one connection.                                   *)
(*                                                                         *)
(* The stream is a sequence of lines, of which this module keeps what       *)
(* the parser tells apart; an unread half of a line is no line yet.         *)
(* One thread runs a connection, so that nothing comes between the steps of *)
(* a message but the messages themselves, between "wait" and "wait".        *)
(*                                                                         *)
(* HasHalfLine, ForgetNothing, OldParamsWin, StopAfterLine and NoShutdown   *)
(* are mistaken forms of the next definition that is not one: no part of    *)
(* the specification, they show that the properties can fail.               *)
(***************************************************************************)
EXTENDS Naturals, Sequences, FiniteSets

CONSTANTS Lines,   \* the lines that may be sent
          Inputs,  \* the streams: sequences of Lines
          Keys,    \* names of parameters
          Values   \* their values

\* as:     what processRequestLine makes of the line: "good", "method" (a known
\*         method, but something behind it is wrong) or "none"
\* params: its parameters, a function from some of Keys
\* http10: its version is HTTP/1.0
\* colon:  it has a colon; without one it ends the headers
\* token:  its value if it is a Connection header: "close", "keep" or "other"; or "none"
LineRecords ==
    [as : {"good", "method", "none"}, params : UNION {[K -> Values] : K \in SUBSET Keys},
     http10 : BOOLEAN, colon : BOOLEAN, token : {"none", "close", "keep", "other"}]

ASSUME HttpAssumption ==
    /\ Lines \subseteq LineRecords
    /\ Inputs \subseteq Seq(Lines)

VARIABLES input,    \* what the peer sends on this connection, from first to last
          arrived,  \* how many half-lines of it have arrived
          read,     \* how many lines have been retrieved from the buffer
          hpc,      \* where onMessage is
          state,    \* state_
          request,  \* request_
          closed,   \* shutdown() has been called
          answers,  \* history: the requests handed to onRequest, as it saw them
          before    \* history: how many there were when the last message came

httpVars == <<input, arrived, read, hpc, state, request, closed, answers, before>>

\* The lines whose CRLF has arrived (Buffer::findCRLF).
Complete == arrived \div 2
HasHalfLine == read < (arrived + 1) \div 2
HasLine     == read < Complete
Line        == input[read + 1]

\* method: whether method_ has been set; line: where its request line is;
\* headers: the lines headers_ is made from; token: headers_["Connection"].
NoRequest == [method |-> FALSE, line |-> 0, http10 |-> FALSE, params |-> <<>>,
              headers |-> {}, token |-> "none"]

\* HttpRequest::swap with a new one, which leaves querys_ where it is.
ForgetNothing(r) == [NoRequest EXCEPT !.params = r.params, !.headers = r.headers]
Swapped(r)       == [NoRequest EXCEPT !.params = r.params]

\* parse_query: querys_[key] = value for each pair of the line.
OldParamsWin(old, new) ==
    [k \in DOMAIN old \cup DOMAIN new |-> IF k \in DOMAIN old THEN old[k] ELSE new[k]]
ParamsSet(old, new) ==
    [k \in DOMAIN old \cup DOMAIN new |-> IF k \in DOMAIN new THEN new[k] ELSE old[k]]

--------------------------------------------------------------------------------
\* onConnection: a new context for a new connection.
HttpInit ==
    /\ input \in Inputs
    /\ arrived = 0 /\ read = 0
    /\ hpc = "wait" /\ state = "requestLine" /\ request = NoRequest
    /\ closed = FALSE /\ answers = <<>> /\ before = 0

\* The buffer has grown, and onMessage is called.
OnMessage ==
    /\ hpc = "wait"
    /\ \E n \in arrived + 1 .. 2 * Len(input) : arrived' = n
    /\ hpc' = "parse"
    /\ before' = Len(answers)
    /\ UNCHANGED <<input, read, state, request, closed, answers>>

(* parseRequest: the turns of its loop *)

\* No CRLF: the loop ends, and onMessage returns.
NeedMore ==
    /\ hpc = "parse"
    /\ ~HasLine
    /\ hpc' = "wait"
    /\ UNCHANGED <<input, arrived, read, state, request, closed, answers, before>>

\* setMethod's assert(method_ == kInvalid): a request line is already half read.
AssertFails ==
    /\ hpc = "parse" /\ state = "requestLine"
    /\ HasLine /\ Line.as # "none"
    /\ request.method
    /\ hpc' = "aborted"
    /\ UNCHANGED <<input, arrived, read, state, request, closed, answers, before>>

StopAfterLine ==
    /\ hpc = "parse" /\ state = "requestLine"
    /\ HasLine /\ Line.as = "good" /\ ~request.method
    /\ request' = [request EXCEPT !.method = TRUE, !.line = read + 1, !.http10 = Line.http10,
                                  !.params = ParamsSet(@, Line.params)]
    /\ read' = read + 1
    /\ state' = "headers"
    /\ hpc' = "wait"
    /\ UNCHANGED <<input, arrived, closed, answers, before>>
RequestLine ==
    /\ hpc = "parse" /\ state = "requestLine"
    /\ HasLine /\ Line.as = "good" /\ ~request.method
    /\ request' = [request EXCEPT !.method = TRUE, !.line = read + 1, !.http10 = Line.http10,
                                  !.params = ParamsSet(@, Line.params)]
    /\ read' = read + 1
    /\ state' = "headers"
    /\ UNCHANGED <<input, arrived, hpc, closed, answers, before>>

\* The line stays in the buffer, and what was understood of it in the request.
BadRequestLine ==
    /\ hpc = "parse" /\ state = "requestLine"
    /\ HasLine /\ Line.as # "good"
    /\ \/ Line.as = "none" /\ UNCHANGED request
       \/ /\ Line.as = "method" /\ ~request.method
          /\ request' = [request EXCEPT !.method = TRUE, !.params = ParamsSet(@, Line.params)]
    /\ hpc' = "bad"
    /\ UNCHANGED <<input, arrived, read, state, closed, answers, before>>

\* addHeader: a later header of the same name replaces the earlier one.
Header ==
    /\ hpc = "parse" /\ state = "headers"
    /\ HasLine /\ Line.colon
    /\ request' = [request EXCEPT !.headers = @ \cup {read + 1},
                                  !.token = IF Line.token = "none" THEN @ ELSE Line.token]
    /\ read' = read + 1
    /\ UNCHANGED <<input, arrived, hpc, state, closed, answers, before>>

\* A line without a colon, which need not be empty, ends the headers.
EndOfHeaders ==
    /\ hpc = "parse" /\ state = "headers"
    /\ HasLine /\ ~Line.colon
    /\ state' = "gotAll"
    /\ read' = read + 1
    /\ hpc' = "request"
    /\ UNCHANGED <<input, arrived, request, closed, answers, before>>

(* onMessage, after parseRequest *)

\* 400, shutdown(); the peer may go on sending all the same.
BadRequest ==
    /\ hpc = "bad"
    /\ closed' = TRUE
    /\ hpc' = "wait"
    /\ UNCHANGED <<input, arrived, read, state, request, answers, before>>

\* onRequest's close: asked for, or a client of HTTP/1.0 that does not ask otherwise.
WantsClose(r) == r.token = "close" \/ (r.http10 /\ r.token # "keep")

\* onRequest: the callback, send() unless the connection is shut down, and
\* shutdown(); then context->reset().
NoShutdown ==
    /\ hpc = "request"
    /\ answers' = Append(answers, [line |-> request.line, headers |-> request.headers,
                                   params |-> request.params, close |-> WantsClose(request),
                                   sent |-> ~closed])
    /\ state' = "requestLine"
    /\ request' = Swapped(request)
    /\ hpc' = "wait"
    /\ UNCHANGED <<input, arrived, read, closed, before>>
OnRequest ==
    /\ hpc = "request"
    /\ answers' = Append(answers, [line |-> request.line, headers |-> request.headers,
                                   params |-> request.params, close |-> WantsClose(request),
                                   sent |-> ~closed])
    /\ closed' = (closed \/ WantsClose(request))
    /\ state' = "requestLine"
    /\ request' = Swapped(request)
    /\ hpc' = "wait"
    /\ UNCHANGED <<input, arrived, read, before>>

HttpNext ==
    \/ OnMessage \/ NeedMore \/ AssertFails \/ RequestLine \/ BadRequestLine
    \/ Header \/ EndOfHeaders \/ BadRequest \/ OnRequest

HttpSpec == HttpInit /\ [][HttpNext]_httpVars

--------------------------------------------------------------------------------
(* What the stream means, read as a whole: the state of a parser that has all  *)
(* of it, after its first i lines, and the requests it finds.                  *)

After == LET at[i \in 0 .. Len(input)] ==
                IF i = 0 THEN "requestLine"
                ELSE CASE at[i - 1] = "requestLine" ->
                            IF input[i].as = "good" THEN "headers" ELSE "bad"
                       [] at[i - 1] = "headers" ->
                            IF input[i].colon THEN "headers" ELSE "requestLine"
                       [] OTHER -> "bad"
         IN  at

\* Where the requests begin and end, and the headers of one.
Starts == {i \in 1 .. Len(input) : After[i - 1] = "requestLine" /\ After[i] = "headers"}
Ends   == {i \in 1 .. Len(input) : After[i - 1] = "headers" /\ After[i] = "requestLine"}
HeadersOf(s) == {i \in s + 1 .. Len(input) : \A j \in s + 1 .. i : input[j].colon}

Answered(n) == Cardinality({e \in Ends : e <= n})

--------------------------------------------------------------------------------
(* Properties *)

HttpTypeOK ==
    /\ input \in Inputs /\ arrived \in 0 .. 2 * Len(input) /\ read \in 0 .. Complete
    /\ hpc \in {"wait", "parse", "bad", "request", "aborted"}
    /\ state \in {"requestLine", "headers", "gotAll"}
    /\ closed \in BOOLEAN /\ before \in Nat

\* However the bytes are cut, the requests handed to onRequest are those of the
\* stream read as a whole: the k-th is the k-th, with its own headers and none
\* of another's, and only once its end has arrived.
AnswersFollowStream ==
    /\ Len(answers) <= Answered(Complete)
    /\ \A k \in DOMAIN answers :
          LET s == answers[k].line IN
          /\ s \in Starts /\ Cardinality({i \in Starts : i <= s}) = k
          /\ answers[k].headers = HeadersOf(s)

\* A request that came together with the one before it waits for the next
\* message, and no longer: a message is not over with a complete request left
\* unless it has answered one.
MessageAnswersOne ==
    hpc = "wait" => Len(answers) > before \/ Len(answers) = Answered(Complete)

\* querys_ outlives the request; still a parameter that the request names has the
\* value it gives, and any other comes from an earlier line of the connection.
ParamsFromStream ==
    \A k \in DOMAIN answers :
        LET own == input[answers[k].line].params
            has == answers[k].params
        IN  /\ \A q \in DOMAIN own : q \in DOMAIN has /\ has[q] = own[q]
            /\ \A q \in DOMAIN has \ DOMAIN own : \E i \in Starts :
                  i < answers[k].line /\ q \in DOMAIN input[i].params
                                      /\ has[q] = input[i].params[q]

\* A client that was told the connection ends hears nothing more on it, and one
\* that was not told finds it open: no answer is kept back by mistake.
ClosedWhenTold ==
    \A k \in DOMAIN answers : answers[k].sent <=> ~\E j \in 1 .. k - 1 : answers[j].close

\* HttpRequest.h:58 asserts that a method is set on a new request only.
MethodIsNew == hpc # "aborted"
================================================================================
