---------------------------- MODULE FindForwardPath ----------------------------
(***************************************************************************)
(* TcpConnection::find_forward_path (tcp/TcpConnection.cc): which location  *)
(* of the configuration a request's path belongs to.  The loop cuts the     *)
(* path shorter and shorter, one boundary at a time, until what is left is  *)
(* a key of _forwardingTable.                                               *)
(*                                                                         *)
(* pos is the code's index, counted from 0: _path[pos] is path[pos + 1].    *)
(*                                                                         *)
(* SkipSlashStays and PastTheSlash are mistaken forms of the definition    *)
(* after each: no part of the specification, they show that the properties *)
(* can fail.                                                               *)
(***************************************************************************)
EXTENDS Integers, Sequences

CONSTANTS Chars, Slash,  \* the characters of a path; "/" among them
          Paths,         \* the paths a request may have
          Tables         \* the sets of locations a configuration may have

ASSUME PathAssumption ==
    Slash \in Chars /\ Paths \subseteq Seq(Chars) /\ Tables \subseteq SUBSET Seq(Chars)

VARIABLES path,   \* _path
          table,  \* the keys of _forwardingTable
          pos,    \* pos
          code,   \* _business_code, empty before the first match
          at      \* "loop", or what was returned: "found", "none"

vars == <<path, table, pos, code, at>>

\* substr(0, n)
Cut(n) == SubSeq(path, 1, n)

PathInit ==
    /\ path \in Paths /\ table \in Tables
    /\ pos = Len(path) - 1
    /\ code = <<>> /\ at = "loop"

Found ==
    /\ at = "loop" /\ pos > 0
    /\ Cut(pos + 1) \in table
    /\ code' = Cut(pos + 1) /\ at' = "found"
    /\ UNCHANGED <<path, table, pos>>

\* A '/' at pos makes the next cut the one before it.
SkipSlashStays ==
    /\ at = "loop" /\ pos > 0
    /\ Cut(pos + 1) \notin table
    /\ path[pos + 1] = Slash
    /\ UNCHANGED <<path, table, pos, code, at>>
SkipSlash ==
    /\ at = "loop" /\ pos > 0
    /\ Cut(pos + 1) \notin table
    /\ path[pos + 1] = Slash
    /\ pos' = pos - 1
    /\ UNCHANGED <<path, table, code, at>>

\* What find_last_of('/', pos) returns: npos becomes -1 in an int.
IsLastSlash(q) ==
    /\ q = -1 \/ path[q + 1] = Slash
    /\ \A r \in q + 1 .. pos : path[r + 1] # Slash

\* Any other character: the next cut ends with the last '/' before it.
PastTheSlash ==
    /\ at = "loop" /\ pos > 0
    /\ Cut(pos + 1) \notin table
    /\ path[pos + 1] # Slash
    /\ pos' \in {q - 1 : q \in {r \in 0 .. pos : IsLastSlash(r)}}
    /\ UNCHANGED <<path, table, code, at>>
BackToSlash ==
    /\ at = "loop" /\ pos > 0
    /\ Cut(pos + 1) \notin table
    /\ path[pos + 1] # Slash
    /\ pos' \in {q \in -1 .. pos : IsLastSlash(q)}
    /\ UNCHANGED <<path, table, code, at>>

NotFound ==
    /\ at = "loop" /\ pos <= 0
    /\ at' = "none"
    /\ UNCHANGED <<path, table, pos, code>>

PathNext == Found \/ SkipSlash \/ BackToSlash \/ NotFound

PathSpec == PathInit /\ [][PathNext]_vars /\ WF_vars(PathNext)

--------------------------------------------------------------------------------
(* Properties *)

\* Where a path may be cut: at its end, after a slash or before one.
Boundary(n) == n = Len(path) \/ path[n] = Slash \/ path[n + 1] = Slash

\* The lengths of the locations the path lies under.  A location of one
\* character, "/", is never looked at.
Matches == {n \in 2 .. Len(path) : Cut(n) \in table /\ Boundary(n)}

\* The loop returns the longest location of the configuration that is a prefix
\* of the path ending at a boundary, and gives up only if there is none: it
\* skips no candidate when it jumps, and accepts no cut inside a name.
LongestMatch ==
    /\ at = "found" => pos + 1 \in Matches /\ code = Cut(pos + 1)
                       /\ \A n \in Matches : n <= pos + 1
    /\ at = "none" => Matches = {} /\ code = <<>>

\* The inductive invariant: pos is a boundary and every match is still ahead.
PathInv ==
    /\ path \in Seq(Chars) /\ pos \in -1 .. Len(path) - 1
    /\ at \in {"loop", "found", "none"}
    /\ pos > 0 => Boundary(pos + 1)
    /\ \A n \in Matches : n <= pos + 1
    /\ at = "loop" => code = <<>>
    /\ LongestMatch

\* The loop ends on every path.
SearchEnds == <>(at # "loop")
================================================================================
