---------------------------- MODULE MCProxyServer ----------------------------
(* Instances of ProxyServer for TLC. *)
EXTENDS ProxyServer

CONSTANTS s1, s2

OneServer  == <<s1>>
TwoServers == <<s1, s2>>
AllUp      == {Servers}
MayBeDown  == SUBSET Servers

Symmetry == Permutations(Clients) \cup Permutations(Workers)
==============================================================================
