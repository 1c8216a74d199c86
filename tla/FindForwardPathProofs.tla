------------------------- MODULE FindForwardPathProofs -------------------------
(* Proofs about FindForwardPath: for every path and every table. *)
EXTENDS FindForwardPath, TLAPS

\* A step leaves the path, the table and hence the matches as they are.
LEMMA MatchesFixed ==
    ASSUME path' = path, table' = table
    PROVE  /\ Matches' = Matches
           /\ \A n : Cut(n)' = Cut(n)
           /\ \A n : Boundary(n)' <=> Boundary(n)
  BY DEF Matches, Cut, Boundary

\* Cutting back to the last slash jumps over no boundary: between the slash and
\* pos there is no other one.
LEMMA NothingSkipped ==
    ASSUME path \in Seq(Chars), pos \in 1 .. Len(path) - 1, path[pos + 1] # Slash,
           NEW q \in -1 .. pos, IsLastSlash(q),
           NEW n \in 2 .. Len(path), Boundary(n), n <= pos
    PROVE  n <= q + 1
  <1> SUFFICES ASSUME n > q + 1
               PROVE  FALSE
    OBVIOUS
  <1>1. path[n] # Slash
    <2>1. n - 1 \in q + 1 .. pos
      OBVIOUS
    <2>2. path[(n - 1) + 1] # Slash
      BY <2>1 DEF IsLastSlash
    <2> QED
      BY <2>2
  <1>2. path[n + 1] # Slash
    <2>1. n \in q + 1 .. pos
      OBVIOUS
    <2> QED
      BY <2>1 DEF IsLastSlash
  <1>3. n # Len(path)
    BY Len(path) \in Nat
  <1> QED
    BY <1>1, <1>2, <1>3 DEF Boundary

LEMMA PathInvInit == PathInit => PathInv
  <1> SUFFICES ASSUME PathInit
               PROVE  PathInv
    OBVIOUS
  <1>1. path \in Seq(Chars) /\ Len(path) \in Nat
    BY PathAssumption DEF PathInit
  <1>2. pos \in -1 .. Len(path) - 1 /\ pos + 1 = Len(path)
    BY <1>1 DEF PathInit
  <1>3. pos > 0 => Boundary(pos + 1)
    BY <1>2 DEF Boundary
  <1>4. \A n \in Matches : n <= pos + 1
    BY <1>1, <1>2 DEF Matches
  <1> QED
    BY <1>1, <1>2, <1>3, <1>4 DEF PathInit, PathInv, LongestMatch

LEMMA PathInvStep == PathInv /\ [PathNext]_vars => PathInv'
  <1> SUFFICES ASSUME PathInv, [PathNext]_vars
               PROVE  PathInv'
    OBVIOUS
  <1> DEFINE L == Len(path)
  <1>0. /\ path \in Seq(Chars) /\ L \in Nat /\ pos \in -1 .. L - 1
        /\ Matches \subseteq 2 .. L
    BY DEF PathInv, Matches
  <1>1. CASE Found
    <2>1. pos + 1 \in Matches
      BY <1>0, <1>1 DEF Found, Matches, PathInv
    <2>2. path' = path /\ table' = table /\ pos' = pos
      BY <1>1 DEF Found
    <2>3. /\ Matches' = Matches /\ Cut(pos + 1)' = Cut(pos + 1)
          /\ Boundary(pos + 1)' <=> Boundary(pos + 1)
      BY <2>2, MatchesFixed DEF Cut, Boundary
    <2>4. at' = "found" /\ code' = Cut(pos + 1)
      BY <1>1 DEF Found
    <2>5. LongestMatch'
      BY <2>1, <2>2, <2>3, <2>4 DEF PathInv, LongestMatch
    <2> QED
      BY <2>2, <2>3, <2>4, <2>5 DEF PathInv
  <1>2. CASE SkipSlash
    <2>1. /\ path' = path /\ table' = table /\ pos' = pos - 1
          /\ code' = code /\ at' = at /\ at = "loop" /\ pos > 0
      BY <1>2 DEF SkipSlash
    <2>2. Matches' = Matches
      BY <2>1, MatchesFixed
    <2>3. pos - 1 > 0 => Boundary(pos)
      BY <1>2 DEF SkipSlash, Boundary
    <2>4. (pos > 0 => Boundary(pos + 1))'
      BY <1>0, <2>1, <2>3 DEF Boundary
    <2>5. pos + 1 \notin Matches
      BY <1>2 DEF SkipSlash, Matches
    <2>6. \A n \in Matches : n <= pos
      BY <1>0, <2>5 DEF PathInv
    <2>7. (\A n \in Matches : n <= pos + 1)'
      BY <1>0, <2>1, <2>2, <2>6
    <2>8. pos' \in -1 .. Len(path') - 1
      BY <1>0, <2>1
    <2> QED
      BY <2>1, <2>4, <2>7, <2>8 DEF PathInv, LongestMatch
  <1>3. CASE BackToSlash
    <2>1. /\ path' = path /\ table' = table
          /\ code' = code /\ at' = at /\ at = "loop" /\ pos > 0
          /\ Cut(pos + 1) \notin table /\ path[pos + 1] # Slash
      BY <1>3 DEF BackToSlash
    <2>2. PICK q \in -1 .. pos : IsLastSlash(q) /\ pos' = q
      BY <1>3 DEF BackToSlash
    <2>3. Matches' = Matches
      BY <2>1, MatchesFixed
    <2>4. (pos > 0 => Boundary(pos + 1))'
      BY <1>0, <2>1, <2>2 DEF Boundary, IsLastSlash
    <2>5. pos + 1 \notin Matches
      BY <2>1 DEF Matches
    <2>6. ASSUME NEW n \in Matches
          PROVE  n <= q + 1
      <3>1. n \in 2 .. L /\ Boundary(n)
        BY DEF Matches
      <3>2. n <= pos
        BY <1>0, <2>5, <3>1 DEF PathInv
      <3> QED
        BY <1>0, <2>1, <2>2, <3>1, <3>2, NothingSkipped
    <2>7. (\A n \in Matches : n <= pos + 1)'
      BY <2>2, <2>3, <2>6
    <2>8. pos' \in -1 .. Len(path') - 1
      BY <1>0, <2>1, <2>2
    <2> QED
      BY <2>1, <2>4, <2>7, <2>8 DEF PathInv, LongestMatch
  <1>4. CASE NotFound
    <2>1. /\ path' = path /\ table' = table /\ pos' = pos /\ code' = code
          /\ at = "loop" /\ at' = "none" /\ pos <= 0
      BY <1>4 DEF NotFound
    <2>2. Matches' = Matches
      BY <2>1, MatchesFixed
    <2>3. Matches = {}
      BY <1>0, <2>1 DEF PathInv
    <2> QED
      BY <1>0, <2>1, <2>2, <2>3 DEF PathInv, LongestMatch
  <1>5. CASE UNCHANGED vars
    <2>1. path' = path /\ table' = table /\ pos' = pos /\ code' = code /\ at' = at
      BY <1>5 DEF vars
    <2>2. Matches' = Matches
      BY <2>1, MatchesFixed
    <2> QED
      BY <2>1, <2>2 DEF PathInv, LongestMatch, Boundary, Cut
  <1> QED
    BY <1>1, <1>2, <1>3, <1>4, <1>5 DEF PathNext

\* The inductive invariant of find_forward_path: each cut it looks at ends at a
\* boundary of the path, and no matching location is behind it.
THEOREM PathInvariant == PathSpec => []PathInv
  BY PathInvInit, PathInvStep, PTL DEF PathSpec

\* find_forward_path returns the longest matching location, or false only if
\* there is none, for paths and tables of any size.
THEOREM LongestLocationFound == PathSpec => []LongestMatch
  <1>1. PathInv => LongestMatch
    BY DEF PathInv
  <1> QED
    BY PathInvariant, <1>1, PTL
================================================================================
