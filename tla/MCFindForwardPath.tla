-------------------------- MODULE MCFindForwardPath --------------------------
(* Every path of up to MaxLen characters, every table of up to two locations. *)
EXTENDS FindForwardPath, FiniteSets

CONSTANT MaxLen

Strings(n) == UNION {[1 .. k -> Chars] : k \in 0 .. n}

AllPaths  == Strings(MaxLen)
AllTables == {T \in SUBSET {l \in Strings(3) : l # <<>> /\ l[1] = Slash} : Cardinality(T) <= 2}
==============================================================================
