------------------------------ MODULE MCHttpServer ------------------------------
(* Instances of HttpServer for TLC: every stream of up to MaxLen of these lines. *)
EXTENDS HttpServer

CONSTANTS MaxLen

LineOf(as, params, http10, colon, token) ==
    [as |-> as, params |-> params, http10 |-> http10, colon |-> colon, token |-> token]

Buy(v)      == LineOf("good", [k \in {"num"} |-> v], FALSE, FALSE, "none")
Show        == LineOf("good", <<>>, FALSE, FALSE, "none")
OldShow     == LineOf("good", <<>>, TRUE, FALSE, "none")
BadVersion  == LineOf("method", <<>>, FALSE, FALSE, "none")
Client      == LineOf("none", <<>>, FALSE, TRUE, "none")
ClosePlease == LineOf("none", <<>>, FALSE, TRUE, "close")
KeepAlive   == LineOf("none", <<>>, FALSE, TRUE, "keep")
Upgrade     == LineOf("none", <<>>, FALSE, TRUE, "other")
Blank       == LineOf("none", <<>>, FALSE, FALSE, "none")

SomeLines  == {Buy(1), Buy(2), Show, OldShow, BadVersion, Client, ClosePlease, KeepAlive, Upgrade,
               Blank}
AllStreams == [1 .. MaxLen -> SomeLines]
================================================================================
