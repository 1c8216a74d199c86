------------------------------- MODULE ShopProofs -------------------------------
(***************************************************************************)
(* The connection pool of the business servers, for any finite number of    *)
(* threads and connections, and the stock, for any number of rows and of    *)
(* requests.                                                                *)
(***************************************************************************)
EXTENDS Shop, TLAPS, FiniteSetTheorems, SequenceTheorems

--------------------------------------------------------------------------------
(* The semaphore and the list *)

\* The sets of threads that the invariant counts.
LEMMA CountedFinite ==
    /\ IsFiniteSet(Taking) /\ IsFiniteSet(Posting)
    /\ Cardinality(Taking) \in Nat /\ Cardinality(Posting) \in Nat
<1>1. Taking \in SUBSET Threads /\ Posting \in SUBSET Threads
  BY DEF Taking, Posting
<1>2. IsFiniteSet(Taking) /\ IsFiniteSet(Posting)
  BY <1>1, FS_Subset, SqlAssumption
<1> QED BY <1>2, FS_CardinalityType

\* A thread in the list's unlocked half has an element to take.
LEMMA ElementThere ==
    ASSUME SqlInv, NEW t \in Taking
    PROVE  Len(connList) \in Nat /\ Len(connList) > 0
<1>1. Cardinality(Taking) # 0
  BY CountedFinite, FS_EmptySet
<1>2. Len(connList) \in Nat /\ reserve \in Nat
  BY DEF SqlInv, SqlTypeOK
<1>3. Len(connList) = reserve + Cardinality(Taking) + Cardinality(Posting)
  BY DEF SqlInv, PermitsBacked
<1> QED BY <1>1, <1>2, <1>3, CountedFinite

LEMMA SqlInvInit == SqlInit => SqlInv
<1> SUFFICES ASSUME SqlInit PROVE SqlInv
  OBVIOUS
<1>1. opened \in Nat
  BY SqlAssumption DEF SqlInit
<1>2. connList \in Seq(Nat) /\ Len(connList) = opened
  BY <1>1 DEF SqlInit
<1>3. Taking = {} /\ Posting = {}
  BY DEF SqlInit, Taking, Posting
<1>4. PermitsBacked
  BY <1>1, <1>2, <1>3, FS_EmptySet DEF SqlInit, PermitsBacked
<1> QED BY <1>1, <1>2, <1>4 DEF SqlInit, SqlInv, SqlTypeOK, NoConn

LEMMA SqlTypeStep == SqlInv /\ [SqlNext]_sqlVars => SqlTypeOK'
<1> SUFFICES ASSUME SqlInv, [SqlNext]_sqlVars PROVE SqlTypeOK'
  OBVIOUS
<1> USE DEF SqlTypeOK, PoolStep
<1>0. SqlTypeOK
  BY DEF SqlInv
<1>1. ASSUME NEW t \in Threads, GetCall(t) \/ ReleaseCall(t) \/ SemWait(t) \/ Post(t)
      PROVE  SqlTypeOK'
  BY <1>0, <1>1 DEF GetCall, ReleaseCall, SemWait, Post
<1>2. ASSUME NEW t \in Threads, Back(t)
      PROVE  SqlTypeOK'
  <2>1. t \in Taking
    BY <1>2 DEF Back, Taking
  <2>2. connList[Len(connList)] \in Nat
    BY <1>0, <2>1, ElementThere
  <2>3. torn' \in BOOLEAN
    BY <1>0, <1>2 DEF Back, Tears
  <2> QED BY <1>0, <1>2, <2>2, <2>3 DEF Back
<1>3. ASSUME NEW t \in Threads, PopBack(t)
      PROVE  SqlTypeOK'
  <2>1. t \in Taking
    BY <1>3 DEF PopBack, Taking
  <2>2. SubSeq(connList, 1, Len(connList) - 1) \in Seq(Nat)
    BY <1>0, <2>1, ElementThere
  <2>3. torn' \in BOOLEAN
    BY <1>0, <1>3 DEF PopBack, Tears
  <2> QED BY <1>0, <1>3, <2>2, <2>3 DEF PopBack
<1>4. ASSUME NEW t \in Threads, Push(t)
      PROVE  SqlTypeOK'
  <2>1. Append(connList, conn[t]) \in Seq(Nat)
    BY <1>0
  <2>2. torn' \in BOOLEAN
    BY <1>0, <1>4 DEF Push, Tears
  <2> QED BY <1>0, <1>4, <2>1, <2>2 DEF Push
<1>5. CASE ListRaceCrash
  BY <1>0, <1>5 DEF ListRaceCrash
<1>6. CASE UNCHANGED sqlVars
  BY <1>0, <1>6 DEF sqlVars
<1> QED BY <1>1, <1>2, <1>3, <1>4, <1>5, <1>6 DEF SqlNext, GetStep, ReleaseStep

LEMMA PermitsStep == SqlInv /\ [SqlNext]_sqlVars => PermitsBacked'
<1> SUFFICES ASSUME SqlInv, [SqlNext]_sqlVars PROVE PermitsBacked'
  OBVIOUS
<1> USE DEF PoolStep
<1>0. /\ ppc \in [Threads -> {"out", "wait", "back", "popBack", "held", "push", "post"}]
      /\ reserve \in Nat /\ connList \in Seq(Nat) /\ conn \in [Threads -> Nat]
      /\ Len(connList) \in Nat
      /\ Len(connList) = reserve + Cardinality(Taking) + Cardinality(Posting)
  BY DEF SqlInv, SqlTypeOK, PermitsBacked
<1>1. ASSUME NEW t \in Threads, GetCall(t) \/ ReleaseCall(t) \/ Back(t)
      PROVE  PermitsBacked'
  <2>1. Taking' = Taking /\ Posting' = Posting
    BY <1>0, <1>1 DEF GetCall, ReleaseCall, Back, Taking, Posting
  <2>2. reserve' = reserve /\ connList' = connList
    BY <1>1 DEF GetCall, ReleaseCall, Back
  <2> QED BY <1>0, <2>1, <2>2 DEF PermitsBacked
<1>2. ASSUME NEW t \in Threads, SemWait(t)
      PROVE  PermitsBacked'
  <2>1. Taking' = Taking \cup {t} /\ t \notin Taking /\ Posting' = Posting
    BY <1>0, <1>2 DEF SemWait, Taking, Posting
  <2>2. Cardinality(Taking') = Cardinality(Taking) + 1
    BY <2>1, CountedFinite, FS_AddElement
  <2>3. reserve' = reserve - 1 /\ connList' = connList
    BY <1>2 DEF SemWait
  <2> QED BY <1>0, <2>1, <2>2, <2>3, CountedFinite DEF PermitsBacked
<1>3. ASSUME NEW t \in Threads, PopBack(t)
      PROVE  PermitsBacked'
  <2>1. Taking' = Taking \ {t} /\ t \in Taking /\ Posting' = Posting
    BY <1>0, <1>3 DEF PopBack, Taking, Posting
  <2>2. Cardinality(Taking') = Cardinality(Taking) - 1
    BY <2>1, CountedFinite, FS_RemoveElement
  <2>3. Len(connList') = Len(connList) - 1
    BY <1>0, <1>3, <2>1, ElementThere DEF PopBack
  <2>4. reserve' = reserve
    BY <1>3 DEF PopBack
  <2> QED BY <1>0, <2>1, <2>2, <2>3, <2>4, CountedFinite DEF PermitsBacked
<1>4. ASSUME NEW t \in Threads, Push(t)
      PROVE  PermitsBacked'
  <2>1. Posting' = Posting \cup {t} /\ t \notin Posting /\ Taking' = Taking
    BY <1>0, <1>4 DEF Push, Taking, Posting
  <2>2. Cardinality(Posting') = Cardinality(Posting) + 1
    BY <2>1, CountedFinite, FS_AddElement
  <2>3. Len(connList') = Len(connList) + 1
    BY <1>0, <1>4 DEF Push
  <2>4. reserve' = reserve
    BY <1>4 DEF Push
  <2> QED BY <1>0, <2>1, <2>2, <2>3, <2>4, CountedFinite DEF PermitsBacked
<1>5. ASSUME NEW t \in Threads, Post(t)
      PROVE  PermitsBacked'
  <2>1. Posting' = Posting \ {t} /\ t \in Posting /\ Taking' = Taking
    BY <1>0, <1>5 DEF Post, Taking, Posting
  <2>2. Cardinality(Posting') = Cardinality(Posting) - 1
    BY <2>1, CountedFinite, FS_RemoveElement
  <2>3. reserve' = reserve + 1 /\ connList' = connList
    BY <1>5 DEF Post
  <2> QED BY <1>0, <2>1, <2>2, <2>3, CountedFinite DEF PermitsBacked
<1>6. CASE ListRaceCrash \/ UNCHANGED sqlVars
  <2>1. ppc' = ppc /\ reserve' = reserve /\ connList' = connList
    BY <1>6 DEF ListRaceCrash, sqlVars
  <2>2. Taking' = Taking /\ Posting' = Posting
    BY <2>1 DEF Taking, Posting
  <2> QED BY <1>0, <2>1, <2>2 DEF PermitsBacked
<1> QED BY <1>1, <1>2, <1>3, <1>4, <1>5, <1>6 DEF SqlNext, GetStep, ReleaseStep

\* The inductive invariant of the pool: the semaphore counts the list.
THEOREM SqlInvariant == SqlSpec => []SqlInv
<1>1. SqlInv /\ [SqlNext]_sqlVars => SqlInv'
  BY SqlTypeStep, PermitsStep DEF SqlInv
<1> QED BY SqlInvInit, <1>1, PTL DEF SqlSpec

\* back() and pop_back() never meet an empty list, for any number of threads,
\* however their unlocked accesses to it are ordered.
THEOREM ListNeverEmptyAtBack == SqlSpec => []BackExists
<1>1. SqlInv => BackExists
  <2> SUFFICES ASSUME SqlInv, Taking # {} PROVE connList # <<>>
    BY DEF BackExists
  <2>1. PICK t : t \in Taking
    OBVIOUS
  <2>2. Len(connList) > 0
    BY <2>1, ElementThere
  <2> QED BY <2>2
<1> QED BY SqlInvariant, <1>1, PTL

--------------------------------------------------------------------------------
(* One owner for each connection, while nobody gets between back() and          *)
(* pop_back()                                                                   *)

Elements(s)  == {s[i] : i \in 1 .. Len(s)}
NoRepeats(s) == \A i, j \in 1 .. Len(s) : s[i] = s[j] => i = j

LEMMA OneLonger ==
    ASSUME NEW n \in Nat, NEW r, NEW s, Len(r) = n, Len(s) = n + 1,
           \A i \in 1 .. n : s[i] = r[i]
    PROVE  /\ Elements(s) = Elements(r) \cup {s[n + 1]}
           /\ NoRepeats(s) <=> NoRepeats(r) /\ s[n + 1] \notin Elements(r)
<1>1. /\ \A i \in 1 .. n + 1 : i \in 1 .. n \/ i = n + 1
      /\ n + 1 \in 1 .. n + 1 /\ n + 1 \notin 1 .. n /\ \A i \in 1 .. n : i \in 1 .. n + 1
  OBVIOUS
<1>2. Elements(r) = {s[i] : i \in 1 .. n} /\ Elements(s) = {s[i] : i \in 1 .. n + 1}
  BY DEF Elements
<1>3. Elements(s) = Elements(r) \cup {s[n + 1]}
  BY <1>1, <1>2
<1>4. NoRepeats(s) <=> \A i, j \in 1 .. n + 1 : s[i] = s[j] => i = j
  BY DEF NoRepeats
<1>5. NoRepeats(r) <=> \A i, j \in 1 .. n : s[i] = s[j] => i = j
  BY DEF NoRepeats
<1>6. s[n + 1] \notin Elements(r) <=> \A i \in 1 .. n : s[i] # s[n + 1]
  BY <1>2
<1>7. NoRepeats(s) <=> NoRepeats(r) /\ s[n + 1] \notin Elements(r)
  BY <1>1, <1>4, <1>5, <1>6
<1> QED BY <1>3, <1>7

LEMMA LastRemoved ==
    ASSUME NEW s \in Seq(Nat), Len(s) > 0, NoRepeats(s)
    PROVE  LET r == SubSeq(s, 1, Len(s) - 1)
           IN  NoRepeats(r) /\ Elements(r) = Elements(s) \ {s[Len(s)]}
<1> DEFINE r == SubSeq(s, 1, Len(s) - 1)
<1>1. PICK n \in Nat : Len(s) = n + 1
  <2>1. Len(s) \in Nat /\ Len(s) - 1 \in Nat /\ Len(s) = (Len(s) - 1) + 1
    OBVIOUS
  <2> QED BY <2>1
<1>2. Len(r) = n /\ \A i \in 1 .. n : r[i] = s[i]
  <2>1. r = SubSeq(s, 1, n)
    BY <1>1
  <2>2. \A i \in 1 .. n : s[i] \in Nat
    BY <1>1
  <2>3. /\ Len(SubSeq(s, 1, n)) = IF 1 <= n THEN n - 1 + 1 ELSE 0
        /\ \A i \in 1 .. n - 1 + 1 : SubSeq(s, 1, n)[i] = s[1 + i - 1]
    BY <2>2, SubSeqProperties
  <2> HIDE DEF r
  <2>4. Len(r) = IF 1 <= n THEN n - 1 + 1 ELSE 0
    BY <2>1, <2>3
  <2>5. \A i \in 1 .. n - 1 + 1 : r[i] = s[1 + i - 1]
    BY <2>1, <2>3
  <2> QED BY <2>4, <2>5
<1> HIDE DEF r
<1>3. /\ Elements(s) = Elements(r) \cup {s[n + 1]}
      /\ NoRepeats(s) <=> NoRepeats(r) /\ s[n + 1] \notin Elements(r)
  BY <1>1, <1>2, OneLonger
<1>4. NoRepeats(r) /\ Elements(r) = Elements(s) \ {s[Len(s)]}
  BY <1>1, <1>3
<1> QED BY <1>4 DEF r

LEMMA NewAppended ==
    ASSUME NEW s \in Seq(Nat), NEW e \in Nat, NoRepeats(s), e \notin Elements(s)
    PROVE  NoRepeats(Append(s, e)) /\ Elements(Append(s, e)) = Elements(s) \cup {e}
<1>1. PICK n \in Nat : Len(s) = n
  OBVIOUS
<1>2. PICK r : r = Append(s, e)
  OBVIOUS
<1>3. Len(r) = n + 1 /\ r[n + 1] = e /\ \A i \in 1 .. n : r[i] = s[i]
  BY <1>1, <1>2
<1>4. /\ Elements(r) = Elements(s) \cup {r[n + 1]}
      /\ NoRepeats(r) <=> NoRepeats(s) /\ r[n + 1] \notin Elements(s)
  BY <1>1, <1>3, OneLonger
<1> QED BY <1>2, <1>3, <1>4

Holding == {t \in Threads : ppc[t] \in {"held", "push"}}

Listed == Elements(connList)
Held   == {conn[t] : t \in Holding}

\* Nothing is in the list twice, held twice, or in both places; nothing is lost;
\* and what back() returned is still the last element.
OwnInv ==
    ~torn =>
        /\ Listed \subseteq 1 .. opened
        /\ NoRepeats(connList)
        /\ \A t \in Holding : conn[t] \in 1 .. opened /\ conn[t] \notin Listed
        /\ \A t, u \in Holding : conn[t] = conn[u] => t = u
        /\ 1 .. opened \subseteq Listed \cup Held
        /\ \A t \in Threads : ppc[t] = "popBack" => conn[t] = connList[Len(connList)]
        /\ \A t, u \in Threads : ppc[t] = "popBack" /\ ppc[u] = "popBack" => t = u

LEMMA OwnInit == SqlInit => OwnInv
<1> SUFFICES ASSUME SqlInit PROVE OwnInv
  OBVIOUS
<1>1. opened \in Nat /\ connList \in Seq(Nat) /\ Len(connList) = opened
  BY SqlAssumption DEF SqlInit
<1>2. Holding = {} /\ \A i \in 1 .. opened : connList[i] = i
  BY DEF SqlInit, Holding
<1> QED BY <1>1, <1>2 DEF SqlInit, OwnInv, Listed, Held, Elements, NoRepeats

LEMMA OwnStep == SqlInv /\ OwnInv /\ [SqlNext]_sqlVars => OwnInv'
<1> SUFFICES ASSUME SqlInv, OwnInv, [SqlNext]_sqlVars, ~torn' PROVE OwnInv'
  BY DEF OwnInv
<1> USE DEF PoolStep
<1>0. /\ ppc \in [Threads -> {"out", "wait", "back", "popBack", "held", "push", "post"}]
      /\ opened \in Nat /\ connList \in Seq(Nat) /\ conn \in [Threads -> Nat]
      /\ Len(connList) \in Nat
  BY DEF SqlInv, SqlTypeOK
<1>1. ASSUME NEW t \in Threads, GetCall(t) \/ ReleaseCall(t) \/ SemWait(t) \/ Post(t)
      PROVE  OwnInv'
  <2>1. /\ Holding' = Holding /\ UNCHANGED <<opened, connList, conn>> /\ ~torn
        /\ \A u \in Threads : ppc'[u] = "popBack" <=> ppc[u] = "popBack"
    BY <1>0, <1>1 DEF GetCall, ReleaseCall, SemWait, Post, Holding
  <2>2. Listed' = Listed /\ Held' = Held
    BY <2>1 DEF Listed, Held
  <2> QED BY <1>0, <2>1, <2>2 DEF OwnInv
<1>2. ASSUME NEW t \in Threads, Back(t)
      PROVE  OwnInv'
  <2>1. ~torn /\ \A u \in Threads : ppc[u] # "popBack"
    BY <1>2 DEF Back, Tears
  <2>2. Holding' = Holding /\ t \notin Holding /\ UNCHANGED <<opened, connList>>
    BY <1>0, <1>2 DEF Back, Holding
  <2>3. \A u \in Holding : conn'[u] = conn[u] /\ u \in Threads
    BY <1>0, <1>2, <2>2 DEF Back, Holding
  <2>4. \A u \in Threads : ppc'[u] = "popBack" =>
           u = t /\ conn'[u] = connList[Len(connList)]
    BY <1>0, <1>2, <2>1 DEF Back
  <2>5. Listed' = Listed /\ Held' = Held
    BY <2>2, <2>3 DEF Listed, Held
  <2> QED BY <1>0, <2>1, <2>2, <2>3, <2>4, <2>5 DEF OwnInv
<1>3. ASSUME NEW t \in Threads, PopBack(t)
      PROVE  OwnInv'
  <2>1. ~torn /\ \A u \in Threads : ppc[u] = "popBack" => u = t
    BY <1>3 DEF PopBack, Tears
  <2>2. t \in Taking
    BY <1>3 DEF PopBack, Taking
  <2>3. Len(connList) > 0
    BY <2>2, ElementThere
  <2>4. connList' = SubSeq(connList, 1, Len(connList) - 1)
    BY <1>3 DEF PopBack
  <2>6. /\ Holding' = Holding \cup {t} /\ UNCHANGED <<opened, conn>> /\ t \notin Holding
        /\ \A u \in Threads : ppc'[u] # "popBack"
    BY <1>0, <1>3, <2>1 DEF PopBack, Holding
  <2>7. conn[t] = connList[Len(connList)]
    BY <1>3, <2>1 DEF PopBack, OwnInv
  <2>8. NoRepeats(connList') /\ Listed' = Listed \ {conn[t]}
    BY <1>0, <2>1, <2>3, <2>4, <2>7, LastRemoved DEF OwnInv, Listed
  <2>5. conn[t] \in Listed
    BY <1>0, <2>3, <2>7 DEF Listed, Elements
  <2>9. Held' = Held \cup {conn[t]}
    BY <2>6 DEF Held
  <2> QED BY <2>1, <2>6, <2>8, <2>5, <2>9 DEF OwnInv
<1>4. ASSUME NEW t \in Threads, Push(t)
      PROVE  OwnInv'
  <2>1. ~torn /\ \A u \in Threads : ppc[u] # "popBack"
    BY <1>0, <1>4 DEF Push, Tears
  <2>2. connList' = Append(connList, conn[t])
    BY <1>4 DEF Push
  <2>3. /\ Holding' = Holding \ {t} /\ t \in Holding /\ UNCHANGED <<opened, conn>>
        /\ \A u \in Threads : ppc'[u] # "popBack"
    BY <1>0, <1>4, <2>1 DEF Push, Holding
  <2>4. conn[t] \in 1 .. opened /\ conn[t] \notin Listed
    BY <2>1, <2>3 DEF OwnInv
  <2>5. NoRepeats(connList') /\ Listed' = Listed \cup {conn[t]}
    BY <1>0, <2>1, <2>2, <2>4, NewAppended DEF OwnInv, Listed
  <2>6. Held' \cup {conn[t]} = Held
    BY <2>3 DEF Held
  <2> QED BY <2>1, <2>3, <2>4, <2>5, <2>6 DEF OwnInv
<1>5. CASE ListRaceCrash \/ UNCHANGED sqlVars
  <2>1. UNCHANGED <<opened, connList, ppc, conn, torn>>
    BY <1>5 DEF ListRaceCrash, sqlVars
  <2> QED BY <2>1 DEF OwnInv, Listed, Held, Holding
<1> QED BY <1>1, <1>2, <1>3, <1>4, <1>5 DEF SqlNext, GetStep, ReleaseStep

\* One place in the list and no holder, or one holder and no place.
LEMMA OwnedByOne == SqlInv /\ OwnInv => OwnedOnce
<1> SUFFICES ASSUME SqlInv, OwnInv, ~torn, NEW m \in 1 .. opened
             PROVE  Cardinality({i \in DOMAIN connList : connList[i] = m})
                      + Cardinality({t \in Threads : ppc[t] \in {"held", "push"} /\ conn[t] = m}) = 1
  BY DEF OwnedOnce
<1> DEFINE places  == {i \in DOMAIN connList : connList[i] = m}
           holders == {t \in Threads : ppc[t] \in {"held", "push"} /\ conn[t] = m}
<1>1. connList \in Seq(Nat) /\ Len(connList) \in Nat /\ DOMAIN connList = 1 .. Len(connList)
  BY DEF SqlInv, SqlTypeOK
<1>2. CASE m \in Listed
  <2>1. PICK i \in 1 .. Len(connList) : connList[i] = m
    BY <1>1, <1>2 DEF Listed, Elements
  <2>2. places = {i}
    BY <1>1, <2>1 DEF OwnInv, NoRepeats
  <2>3. holders = {}
    BY <1>2 DEF OwnInv, Holding
  <2> HIDE DEF places, holders
  <2>4. Cardinality(places) = 1 /\ Cardinality(holders) = 0
    BY <2>2, <2>3, FS_Singleton, FS_EmptySet
  <2> QED BY <2>4 DEF places, holders
<1>3. CASE m \notin Listed
  <2>1. places = {}
    BY <1>1, <1>3 DEF Listed, Elements
  <2>2. PICK t \in Holding : conn[t] = m
    BY <1>3 DEF OwnInv, Held
  <2>3. holders = {t}
    BY <2>2 DEF OwnInv, Holding
  <2> HIDE DEF places, holders
  <2>4. Cardinality(places) = 0 /\ Cardinality(holders) = 1
    BY <2>1, <2>3, FS_Singleton, FS_EmptySet
  <2> QED BY <2>4 DEF places, holders
<1> QED BY <1>2, <1>3

--------------------------------------------------------------------------------
(* The stock *)

LEMMA ShopInvInit == ShopInit => SqlInv /\ ShopInv
<1> SUFFICES ASSUME ShopInit PROVE SqlInv /\ ShopInv
  OBVIOUS
<1>1. SqlInv
  BY SqlInvInit DEF ShopInit
<1>2. ShopTypeOK
  BY ShopAssumption DEF ShopInit, ShopTypeOK
<1>3. StockNeverNegative /\ \A i \in Rows : stock[i] + sold[i] <= Initial[i] + added[i]
  BY ShopAssumption DEF ShopInit, StockNeverNegative
<1>4. /\ \A t \in Threads : tpc[t] \in {"select", "store", "update"} <=> connMutex = t
      /\ \A t \in Threads : tpc[t] = "idle"
  BY ShopAssumption DEF ShopInit
<1> QED BY <1>1, <1>2, <1>3, <1>4 DEF ShopInv

--------------------------------------------------------------------------------
(* The pool's part of a step *)

\* A thread of the shop uses the pool as SqlPool says it may be used.
LEMMA PoolSteps == [ShopNext]_vars => [SqlNext]_sqlVars \/ ProcessEnds
<1> SUFFICES ASSUME [ShopNext]_vars PROVE [SqlNext]_sqlVars \/ ProcessEnds
  OBVIOUS
<1>1. ASSUME NEW t \in Threads, NEW r \in Orders \cup {Show}, OnRequest(t, r)
      PROVE  SqlNext
  BY <1>1 DEF OnRequest, SqlNext
<1>2. ASSUME NEW t \in Threads, Raii(t) \/ RaiiDone(t)
      PROVE  SqlNext
  BY <1>2 DEF Raii, RaiiDone, SqlNext, ReleaseStep
<1>3. ASSUME NEW t \in Threads,
             OnBadRequest(t) \/ BuyLock(t) \/ BuySelect(t) \/ BuyStore(t) \/ BuyUpdate(t)
               \/ ShowQuery(t) \/ ShowRows(t)
      PROVE  UNCHANGED sqlVars
  BY <1>3 DEF OnBadRequest, BuyLock, BuySelect, BuyStore, BuyUpdate, ShowQuery, ShowRows
<1>4. CASE MixUp
  BY <1>4 DEF MixUp
<1>5. CASE UNCHANGED vars
  BY <1>5 DEF vars, sqlVars
<1> QED BY <1>1, <1>2, <1>3, <1>4, <1>5
        DEF ShopNext, ThreadStep, MissingQuery, BadNumber, RaceCrash

\* The end of the process changes nothing that the pool's invariant is about.
LEMMA PoolPart == SqlInv /\ [ShopNext]_vars => SqlInv'
<1> SUFFICES ASSUME SqlInv, [ShopNext]_vars PROVE SqlInv'
  OBVIOUS
<1>1. [SqlNext]_sqlVars => SqlInv'
  BY SqlTypeStep, PermitsStep DEF SqlInv
<1>2. CASE ProcessEnds
  <2>1. /\ UNCHANGED <<opened, connList, reserve, ppc, conn, torn>> /\ crashed' = TRUE
    BY <1>2 DEF ProcessEnds
  <2> QED BY <2>1 DEF SqlInv, SqlTypeOK, PermitsBacked, Taking, Posting
<1> QED BY <1>1, <1>2, PoolSteps

--------------------------------------------------------------------------------
(* The order's part *)

\* What a buyer with the guard has asked for, and what the table holds, are of
\* the types the arithmetic of the next lemmas needs.
LEMMA OrderInHand ==
    ASSUME ShopInv, NEW t \in Threads, tpc[t] \in {"lock", "select", "store", "update"}
    PROVE  /\ req[t] \in Orders /\ req[t].finds \subseteq Rows
           /\ req[t].asked \in Int /\ req[t].takes \in [Rows -> Int]
<1>1. req[t] \in Orders
  BY DEF ShopInv
<1>2. req[t] \in OrderRecords
  BY <1>1, ShopAssumption
<1> QED BY <1>1, <1>2 DEF OrderRecords

\* The UPDATE and the answer of any order stay away from the rows it does not touch.
LEMMA OtherRows ==
    ASSUME ShopInv, NEW t \in Threads, BuyUpdate(t), NEW j \in Rows, j \notin Touched(req[t])
    PROVE  stock'[j] = stock[j] /\ sold'[j] = sold[j] /\ added'[j] = added[j]
<1>1. tpc[t] = "update"
  BY DEF BuyUpdate, Goto
<1>2. j \notin req[t].finds /\ req[t].takes[j] = 0
  BY DEF Touched
<1>3. stock[j] \in Int /\ stock \in [Rows -> Int] /\ sold \in [Rows -> Nat] /\ added \in [Rows -> Nat]
  BY DEF ShopInv, ShopTypeOK
<1>4. Take(t) => stock'[j] = stock[j] /\ added'[j] = added[j]
  BY <1>2, <1>3 DEF Take
<1>5. Sell(t) => sold'[j] = sold[j]
  BY <1>2, <1>3 DEF Sell
<1> QED BY <1>4, <1>5 DEF BuyUpdate

\* A plain order is for one row, and takes what it asked for.
LEMMA PlainUpdate ==
    ASSUME ShopInv, NEW t \in Threads, BuyUpdate(t), NEW i \in Rows, NEW n \in Int,
           req[t].finds = {i}, req[t].asked = n,
           req[t].takes = [j \in Rows |-> IF j = i THEN req[t].asked ELSE 0]
    PROVE  /\ Take(t) => /\ stock' = [stock EXCEPT ![i] = @ - n]
                         /\ added' = [added EXCEPT ![i] = IF n < 0 THEN @ - n ELSE @]
           /\ Sell(t) => sold' = [sold EXCEPT ![i] = IF n > 0 THEN @ + n ELSE @]
<1>1. stock \in [Rows -> Int] /\ sold \in [Rows -> Nat] /\ added \in [Rows -> Nat]
  BY DEF ShopInv, ShopTypeOK
<1>2. \A j \in Rows : req[t].takes[j] = IF j = i THEN n ELSE 0
  OBVIOUS
<1>3. ASSUME Take(t) PROVE stock' = [stock EXCEPT ![i] = @ - n]
  <2>1. stock' = [j \in Rows |-> stock[j] - req[t].takes[j]]
    BY <1>3 DEF Take
  <2>2. \A j \in Rows : stock[j] - req[t].takes[j] = IF j = i THEN stock[i] - n ELSE stock[j]
    BY <1>1, <1>2
  <2> QED BY <1>1, <2>1, <2>2
<1>4. ASSUME Take(t) PROVE added' = [added EXCEPT ![i] = IF n < 0 THEN @ - n ELSE @]
  <2>1. added' = [j \in Rows |-> IF req[t].takes[j] < 0 THEN added[j] - req[t].takes[j] ELSE added[j]]
    BY <1>4 DEF Take
  <2>2. \A j \in Rows : (IF req[t].takes[j] < 0 THEN added[j] - req[t].takes[j] ELSE added[j])
                          = IF j = i THEN (IF n < 0 THEN added[i] - n ELSE added[i]) ELSE added[j]
    BY <1>1, <1>2
  <2> QED BY <1>1, <2>1, <2>2
<1>5. Sell(t) => sold' = [sold EXCEPT ![i] = IF n > 0 THEN @ + n ELSE @]
  BY <1>1 DEF Sell
<1> QED BY <1>3, <1>4, <1>5

\* What the check allowed is still there when the UPDATE comes.
LEMMA StillEnough ==
    ASSUME ShopInv, NEW t \in Threads, BuyUpdate(t), conn[t] \notin mixed, NEW i \in Rows,
           req[t].finds = {i}
    PROVE  req[t].asked <= stock[i]
<1>1. tpc[t] = "update"
  BY DEF BuyUpdate, Goto
<1>2. req[t].asked <= seen[t] /\ req[t].finds # {}
  BY <1>1 DEF ShopInv
<1>3. \E k \in req[t].finds : seen[t] = stock[k]
  BY <1>1, <1>2 DEF ShopInv
<1> QED BY <1>2, <1>3

LEMMA UpdateStep ==
    ASSUME SqlInv, ShopInv, NEW t \in Threads, BuyUpdate(t)
    PROVE  ShopInv'
<1> USE ShopAssumption DEF Goto, Unlock
<1>1. /\ tpc[t] = "update" /\ tpc' = [tpc EXCEPT ![t] = "idle"]
      /\ connMutex' = NoThread /\ UNCHANGED <<req, seen, pending, mixed, requests>>
  BY DEF BuyUpdate
<1>2. connMutex = t /\ tpc \in [Threads -> {"idle", "raii", "lock", "select", "store", "update", "query", "rows"}]
  BY <1>1 DEF ShopInv, ShopTypeOK
<1>3. \A u \in Threads : tpc'[u] \notin {"select", "store", "update"}
  BY <1>1, <1>2 DEF ShopInv
<1>4. \A u \in Threads : tpc'[u] = "lock" => tpc[u] = "lock"
  BY <1>1, <1>2
<1>5. /\ req[t].finds \subseteq Rows /\ req[t].asked \in Int /\ req[t].takes \in [Rows -> Int]
      /\ stock \in [Rows -> Int] /\ sold \in [Rows -> Nat] /\ added \in [Rows -> Nat]
      /\ spoilt \subseteq Rows
  BY <1>1, OrderInHand DEF ShopInv, ShopTypeOK
<1>6. stock' \in [Rows -> Int] /\ sold' \in [Rows -> Nat] /\ added' \in [Rows -> Nat]
  <2>1. Take(t) => stock' \in [Rows -> Int] /\ added' \in [Rows -> Nat]
    BY <1>5 DEF Take
  <2>2. Sell(t) => sold' \in [Rows -> Nat]
    BY <1>5 DEF Sell
  <2> QED BY <1>5, <2>1, <2>2 DEF BuyUpdate
<1>7. spoilt' \subseteq Rows /\ spoilt \subseteq spoilt'
  BY <1>5 DEF BuyUpdate, Spoil, Touched
<1>8. ShopTypeOK'
  <2>1. tpc' \in [Threads -> {"idle", "raii", "lock", "select", "store", "update", "query", "rows"}]
    BY <1>1, <1>2
  <2> QED BY <1>1, <1>6, <1>7, <2>1 DEF ShopInv, ShopTypeOK
<1>9. ASSUME NEW j \in Rows, j \notin spoilt'
      PROVE  stock'[j] >= 0 /\ stock'[j] + sold'[j] <= Initial[j] + added'[j]
  <2>1. stock[j] >= 0 /\ stock[j] + sold[j] <= Initial[j] + added[j]
    BY <1>7, <1>9 DEF ShopInv, StockNeverNegative
  <2>2. CASE j \notin Touched(req[t])
    BY <2>1, <2>2, OtherRows
  <2>3. CASE j \in Touched(req[t])
    <3>1. Plain(req[t]) /\ conn[t] \notin mixed
      BY <1>9, <2>3 DEF BuyUpdate, Spoil
    <3>2. PICK i \in Rows : /\ req[t].finds = {i}
                            /\ req[t].takes = [k \in Rows |-> IF k = i THEN req[t].asked ELSE 0]
      BY <3>1 DEF Plain
    <3>3. PICK n \in Int : n = req[t].asked
      BY <1>5
    <3>4. j = i
      BY <2>3, <3>2 DEF Touched
    <3>5. n <= stock[i]
      BY <3>1, <3>2, <3>3, StillEnough
    <3>6. /\ Take(t) => /\ stock' = [stock EXCEPT ![i] = @ - n]
                        /\ added' = [added EXCEPT ![i] = IF n < 0 THEN @ - n ELSE @]
          /\ Sell(t) => sold' = [sold EXCEPT ![i] = IF n > 0 THEN @ + n ELSE @]
      BY <3>2, <3>3, PlainUpdate
    <3>7. \/ Take(t) /\ (Sell(t) \/ UNCHANGED sold)
          \/ UNCHANGED <<stock, sold, added>>
      BY <3>1 DEF BuyUpdate
    <3>8. /\ Take(t) => stock'[i] = stock[i] - n /\ added'[i] = IF n < 0 THEN added[i] - n ELSE added[i]
          /\ Sell(t) => sold'[i] = IF n > 0 THEN sold[i] + n ELSE sold[i]
      BY <1>5, <3>6
    <3>9. stock[i] \in Int /\ sold[i] \in Nat /\ added[i] \in Nat /\ Initial[i] \in Nat
      BY <1>5
    <3> QED BY <2>1, <3>4, <3>5, <3>7, <3>8, <3>9
  <2> QED BY <2>2, <2>3
<1>10. StockNeverNegative' /\ \A i \in Rows \ spoilt' : stock'[i] + sold'[i] <= Initial[i] + added'[i]
  BY <1>9 DEF StockNeverNegative
<1>11. \A u \in Threads : tpc'[u] \in {"lock", "select", "store", "update"} => req'[u] \in Orders
  BY <1>1, <1>3, <1>4 DEF ShopInv
<1>12. \A u \in Threads : tpc'[u] \in {"select", "store", "update"} <=> connMutex' = u
  BY <1>1, <1>3
<1>13. ShopTypeOK' /\ StockNeverNegative' /\ \A u \in Threads : tpc'[u] \notin {"store", "update"}
  BY <1>8, <1>10, <1>3
<1> HIDE ShopAssumption DEF Goto, Unlock
<1> QED BY <1>10, <1>11, <1>12, <1>13 DEF ShopInv

--------------------------------------------------------------------------------
(* The task's part *)

\* The rows' part of the invariant, which only the UPDATE can disturb.
RowsInv ==
    /\ StockNeverNegative
    /\ \A i \in Rows \ spoilt : stock[i] + sold[i] <= Initial[i] + added[i]

LEMMA RowsLeftAlone == RowsInv /\ UNCHANGED tableVars => RowsInv'
BY DEF RowsInv, StockNeverNegative, tableVars

LEMMA ShopInvStep == SqlInv /\ ShopInv /\ [ShopNext]_vars => ShopInv'
<1> SUFFICES ASSUME SqlInv, ShopInv, [ShopNext]_vars PROVE ShopInv'
  OBVIOUS
<1> USE ShopAssumption DEF Goto, Unlock, tableVars
<1>0. /\ ShopTypeOK
      /\ \A t \in Threads : tpc[t] \in {"select", "store", "update"} <=> connMutex = t
      /\ \A t \in Threads : tpc[t] \in {"lock", "select", "store", "update"} => req[t] \in Orders
      /\ \A t \in Threads : tpc[t] \in {"store", "update"} /\ req[t].finds # {}
                             => \E i \in req[t].finds : seen[t] = stock[i]
      /\ \A t \in Threads : tpc[t] = "update" /\ conn[t] \notin mixed
                             => req[t].finds # {} /\ req[t].asked <= seen[t]
      /\ RowsInv
  BY DEF ShopInv, RowsInv
<1>a. conn \in [Threads -> Nat]
  BY DEF SqlInv, SqlTypeOK
<1>1. ASSUME NEW t \in Threads, NEW r \in Orders \cup {Show}, OnRequest(t, r)
      PROVE  ShopInv'
  <2>1. RowsInv' /\ conn' = conn
    BY <1>0, <1>1, RowsLeftAlone DEF OnRequest, GetCall
  <2>2. /\ tpc[t] = "idle" /\ tpc' = [tpc EXCEPT ![t] = "raii"] /\ req' = [req EXCEPT ![t] = r]
        /\ requests' \in Nat /\ UNCHANGED <<seen, connMutex, pending, mixed, tableVars>>
    BY <1>0, <1>1 DEF OnRequest, ShopTypeOK
  <2> QED BY <1>0, <2>1, <2>2 DEF ShopInv, ShopTypeOK, RowsInv
<1>2. ASSUME NEW t \in Threads, OnBadRequest(t)
      PROVE  ShopInv'
  <2>1. RowsInv' /\ conn' = conn
    BY <1>0, <1>2, RowsLeftAlone DEF OnBadRequest, sqlVars
  <2> QED BY <1>0, <1>2, <2>1 DEF OnBadRequest, ShopInv, ShopTypeOK, RowsInv
<1>3. ASSUME NEW t \in Threads, Raii(t)
      PROVE  ShopInv'
  <2>1. UNCHANGED taskVars /\ tpc[t] = "raii" /\ RowsInv'
    BY <1>0, <1>3, RowsLeftAlone DEF Raii, taskVars
  <2>2. \A u \in Threads : u # t => conn'[u] = conn[u]
    BY <1>3, <1>a DEF Raii, GetStep, SemWait, Back, PopBack, ReleaseCall, Push, PoolStep
  <2> QED BY <1>0, <2>1, <2>2 DEF taskVars, ShopInv, ShopTypeOK, RowsInv
<1>4. ASSUME NEW t \in Threads, RaiiDone(t)
      PROVE  ShopInv'
  <2>1. RowsInv' /\ conn' = conn
    BY <1>0, <1>4, RowsLeftAlone DEF RaiiDone, Post, PoolStep
  <2>2. req[t] # Show => req[t] \in Orders
    BY <1>0 DEF ShopTypeOK
  <2>3. /\ tpc[t] = "raii" /\ tpc' = [tpc EXCEPT ![t] = IF req[t] = Show THEN "query" ELSE "lock"]
        /\ UNCHANGED <<req, seen, connMutex, pending, mixed, tableVars, requests>>
    BY <1>4 DEF RaiiDone
  <2> QED BY <1>0, <2>1, <2>2, <2>3 DEF ShopInv, ShopTypeOK, RowsInv
<1>5. ASSUME NEW t \in Threads, BuyLock(t)
      PROVE  ShopInv'
  <2>1. RowsInv' /\ conn' = conn
    BY <1>0, <1>5, RowsLeftAlone DEF BuyLock, sqlVars
  <2> QED BY <1>0, <1>5, <2>1 DEF BuyLock, ShopInv, ShopTypeOK, RowsInv
<1>6. ASSUME NEW t \in Threads, BuySelect(t)
      PROVE  ShopInv'
  <2>1. RowsInv' /\ conn' = conn /\ UNCHANGED <<req, mixed, tableVars, requests>>
    BY <1>0, <1>6, RowsLeftAlone DEF BuySelect, sqlVars
  <2>2. tpc[t] = "select" /\ connMutex = t /\ pending' \subseteq Nat
    <3>1. tpc[t] = "select" /\ (pending' = pending \/ pending' = pending \cup {conn[t]})
      BY <1>6 DEF BuySelect
    <3>2. pending \subseteq Nat /\ conn[t] \in Nat
      BY <1>0, <1>a DEF ShopTypeOK
    <3> QED BY <1>0, <3>1, <3>2
  <2>3. \A u \in Threads : u # t => tpc[u] \notin {"select", "store", "update"}
    BY <1>0, <2>2
  <2>4. CASE tpc' = [tpc EXCEPT ![t] = "store"] /\ connMutex' = connMutex
    <3>1. \/ \E i \in req[t].finds : seen' = [seen EXCEPT ![t] = stock[i]]
          \/ req[t].finds = {} /\ UNCHANGED seen
      BY <1>0, <1>6, <2>2, <2>4 DEF BuySelect, ShopTypeOK
    <3>2. req[t].finds \subseteq Rows
      BY <2>2, OrderInHand
    <3>3. seen' \in [Threads -> Int]
      BY <1>0, <3>1, <3>2 DEF ShopTypeOK
    <3>4. req[t].finds # {} => \E i \in req[t].finds : seen'[t] = stock[i]
      BY <1>0, <3>1 DEF ShopTypeOK
    <3>5. ShopTypeOK'
      BY <1>0, <2>1, <2>2, <2>4, <3>3 DEF ShopTypeOK
    <3> QED BY <1>0, <2>1, <2>2, <2>3, <2>4, <3>4, <3>5 DEF ShopInv, ShopTypeOK, RowsInv
  <2>5. CASE tpc' = [tpc EXCEPT ![t] = "idle"] /\ connMutex' = NoThread /\ UNCHANGED seen
    BY <1>0, <2>1, <2>2, <2>3, <2>5 DEF ShopInv, ShopTypeOK, RowsInv
  <2> QED BY <1>6, <2>4, <2>5 DEF BuySelect
<1>7. ASSUME NEW t \in Threads, BuyStore(t)
      PROVE  ShopInv'
  <2>1. RowsInv' /\ conn' = conn /\ UNCHANGED <<req, seen, mixed, tableVars, requests>>
    BY <1>0, <1>7, RowsLeftAlone DEF BuyStore, sqlVars
  <2>2. tpc[t] = "store" /\ connMutex = t /\ pending' \subseteq Nat
    BY <1>0, <1>7 DEF BuyStore, ShopTypeOK
  <2>3. \A u \in Threads : u # t => tpc[u] \notin {"select", "store", "update"}
    BY <1>0, <2>2
  <2>4. CASE /\ tpc' = [tpc EXCEPT ![t] = "update"] /\ connMutex' = connMutex
             /\ \E k \in Fetched(t) : req[t].asked <= k
    <3>1. conn[t] \notin mixed => req[t].finds # {} /\ req[t].asked <= seen[t]
      BY <2>4 DEF Fetched
    <3>2. ShopTypeOK'
      BY <1>0, <2>1, <2>2, <2>4 DEF ShopTypeOK
    <3> QED BY <1>0, <2>1, <2>2, <2>3, <2>4, <3>1, <3>2 DEF ShopInv, ShopTypeOK, RowsInv
  <2>5. CASE tpc' = [tpc EXCEPT ![t] = "idle"] /\ connMutex' = NoThread
    BY <1>0, <2>1, <2>2, <2>3, <2>5 DEF ShopInv, ShopTypeOK, RowsInv
  <2> QED BY <1>7, <2>4, <2>5 DEF BuyStore
<1>8. ASSUME NEW t \in Threads, BuyUpdate(t)
      PROVE  ShopInv'
  BY <1>8, UpdateStep
<1>9. ASSUME NEW t \in Threads, ShowQuery(t) \/ ShowRows(t)
      PROVE  ShopInv'
  <2>1. /\ RowsInv' /\ conn' = conn
        /\ UNCHANGED <<req, seen, connMutex, mixed, tableVars, requests>>
    BY <1>0, <1>9, RowsLeftAlone DEF ShowQuery, ShowRows, sqlVars
  <2>2. pending' \subseteq Nat
    <3>1. pending \subseteq Nat /\ conn[t] \in Nat
      BY <1>0, <1>a DEF ShopTypeOK
    <3>2. pending' = pending \/ pending' = pending \cup {conn[t]} \/ pending' = pending \ {conn[t]}
      BY <1>9 DEF ShowQuery, ShowRows
    <3> QED BY <3>1, <3>2
  <2>3. /\ tpc[t] \in {"query", "rows"}
        /\ tpc' = [tpc EXCEPT ![t] = "rows"] \/ tpc' = [tpc EXCEPT ![t] = "idle"]
    BY <1>9 DEF ShowQuery, ShowRows
  <2>4. ShopTypeOK'
    BY <1>0, <2>1, <2>2, <2>3 DEF ShopTypeOK
  <2>5. \A u \in Threads :
           tpc'[u] = tpc[u]
           \/ {tpc[u], tpc'[u]} \cap {"lock", "select", "store", "update"} = {}
    BY <1>0, <2>3 DEF ShopTypeOK
  <2> QED BY <1>0, <2>1, <2>4, <2>5 DEF ShopInv, RowsInv
<1>10. CASE MixUp
  <2>1. RowsInv' /\ mixed \subseteq mixed' /\ mixed' \subseteq Nat
    BY <1>0, <1>a, <1>10, RowsLeftAlone DEF MixUp, ShopTypeOK
  <2>2. UNCHANGED <<conn, tpc, req, seen, connMutex, pending, tableVars, requests>>
    BY <1>10 DEF MixUp, sqlVars
  <2>3. ShopTypeOK'
    BY <1>0, <2>1, <2>2 DEF ShopTypeOK
  <2> QED BY <1>0, <2>1, <2>2, <2>3 DEF ShopInv, RowsInv
<1>11. CASE ProcessEnds \/ UNCHANGED vars
  <2>1. UNCHANGED <<conn, tpc, req, seen, connMutex, pending, mixed, tableVars, requests>>
    BY <1>11 DEF ProcessEnds, vars, taskVars
  <2>2. RowsInv'
    BY <1>0, <2>1, RowsLeftAlone
  <2> QED BY <1>0, <2>1, <2>2 DEF ShopInv, ShopTypeOK, RowsInv
<1> QED BY <1>1, <1>2, <1>3, <1>4, <1>5, <1>6, <1>7, <1>8, <1>9, <1>10, <1>11
        DEF ShopNext, ThreadStep, MissingQuery, BadNumber, RaceCrash

\* The inductive invariant of the business server: while do_buy holds
\* conn_mutex, what its SELECT returned is what the table holds, unless two calls
\* have run into each other on its connection; and rows that only plain orders
\* with good answers have reached are never below zero and never oversold.
THEOREM ShopInvariant == ShopSpec => [](SqlInv /\ ShopInv)
<1>1. SqlInv /\ ShopInv /\ [ShopNext]_vars => (SqlInv /\ ShopInv)'
  BY PoolPart, ShopInvStep
<1> QED BY ShopInvInit, <1>1, PTL DEF ShopSpec

\* A connection is in the list or with one thread, and only once, until the list
\* changes hands between a back() and its pop_back(): that unlocked pair of calls
\* is the only way two threads come to share a connection.
THEOREM OneOwner == ShopSpec => []OwnedOnce
<1>1. SqlInv /\ OwnInv /\ [ShopNext]_vars => OwnInv'
  <2> SUFFICES ASSUME SqlInv, OwnInv, [ShopNext]_vars PROVE OwnInv'
    OBVIOUS
  <2>1. CASE [SqlNext]_sqlVars
    BY <2>1, OwnStep
  <2>2. CASE ProcessEnds
    <3>1. UNCHANGED <<opened, connList, reserve, ppc, conn, torn>>
      BY <2>2 DEF ProcessEnds
    <3> QED BY <3>1 DEF OwnInv, Listed, Held, Holding
  <2> QED BY <2>1, <2>2, PoolSteps
<1>2. ShopInit => OwnInv
  BY OwnInit DEF ShopInit
<1>3. SqlInv /\ OwnInv => OwnedOnce
  BY OwnedByOne
<1> QED BY <1>1, <1>2, <1>3, ShopInvariant, PTL DEF ShopSpec

\* The check and the UPDATE of do_buy are two calls, on a connection that other
\* threads use too and that may fail; still the stock never goes below zero, in
\* any row that no odd text and no UPDATE on a mixed-up connection has reached.
\* Both exceptions are steps of the specification, not assumptions of it.
THEOREM StockStaysPositive == ShopSpec => []StockNeverNegative
<1>1. ShopInv => StockNeverNegative
  BY DEF ShopInv
<1> QED BY ShopInvariant, <1>1, PTL

\* No more is sold of such a row than there is, whatever fails between the UPDATE
\* and the answer, and whatever becomes of the other rows.
THEOREM NothingOversold == ShopSpec => []NeverOversold
<1>1. ShopInv => NeverOversold
  <2> SUFFICES ASSUME ShopInv, NEW i \in Rows \ spoilt
               PROVE  sold[i] <= Initial[i] + added[i]
    BY DEF NeverOversold
  <2>1. stock[i] \in Int /\ sold[i] \in Nat /\ added[i] \in Nat /\ Initial[i] \in Nat
    BY ShopAssumption DEF ShopInv, ShopTypeOK
  <2>2. stock[i] >= 0 /\ stock[i] + sold[i] <= Initial[i] + added[i]
    BY DEF ShopInv, StockNeverNegative
  <2> QED BY <2>1, <2>2
<1> QED BY ShopInvariant, <1>1, PTL

--------------------------------------------------------------------------------
(* Refinement *)

\* A step of the shop is a purchase of the store, or spoils the rows it touches,
\* or leaves the store alone: the UPDATE is the purchase, since what the SELECT
\* returned is still so.
LEMMA StoreStep == ShopInv /\ [ShopNext]_vars => [AtomicStore!StoreNext]_(AtomicStore!storeVars)
<1> SUFFICES ASSUME ShopInv, [ShopNext]_vars
             PROVE  [AtomicStore!StoreNext]_(AtomicStore!storeVars)
  OBVIOUS
<1>1. ASSUME NEW t \in Threads, BuyUpdate(t)
      PROVE  [AtomicStore!StoreNext]_(AtomicStore!storeVars)
  <2>0. /\ req[t] \in Orders /\ req[t].finds \subseteq Rows
        /\ req[t].asked \in Int /\ req[t].takes \in [Rows -> Int]
    <3>1. tpc[t] = "update"
      BY <1>1 DEF BuyUpdate, Goto
    <3> QED BY <3>1, OrderInHand
  <2>1. CASE Plain(req[t]) /\ conn[t] \notin mixed
    <3>1. PICK i \in Rows : /\ req[t].finds = {i}
                            /\ req[t].takes = [k \in Rows |-> IF k = i THEN req[t].asked ELSE 0]
      BY <2>1 DEF Plain
    <3>2. PICK n \in Int : n = req[t].asked
      BY <2>0
    <3>3. n \in {o.asked : o \in {p \in Orders : Plain(p)}}
      BY <2>0, <2>1, <3>2
    <3>4. n <= stock[i]
      BY <1>1, <2>1, <3>1, <3>2, StillEnough
    <3>5. spoilt' = spoilt
      BY <1>1, <2>1 DEF BuyUpdate, Spoil
    <3>6. /\ Take(t) => /\ stock' = [stock EXCEPT ![i] = @ - n]
                        /\ added' = [added EXCEPT ![i] = IF n < 0 THEN @ - n ELSE @]
          /\ Sell(t) => sold' = [sold EXCEPT ![i] = IF n > 0 THEN @ + n ELSE @]
      BY <1>1, <3>1, <3>2, PlainUpdate
    <3>7. Take(t) => AtomicStore!Goods(i, n)
      BY <3>4, <3>5, <3>6 DEF AtomicStore!Goods
    <3>8. \/ AtomicStore!Purchase(i, n) \/ AtomicStore!Unacknowledged(i, n)
          \/ UNCHANGED AtomicStore!storeVars
      BY <1>1, <2>1, <3>5, <3>6, <3>7
         DEF BuyUpdate, AtomicStore!Purchase, AtomicStore!Unacknowledged, AtomicStore!storeVars
    <3> QED BY <3>3, <3>8 DEF AtomicStore!StoreNext
  <2>2. CASE ~(Plain(req[t]) /\ conn[t] \notin mixed)
    <3>1. spoilt' = spoilt \cup Touched(req[t]) /\ Touched(req[t]) \in SUBSET Rows
      BY <1>1, <2>0, <2>2 DEF BuyUpdate, Spoil, Touched
    <3>2. \A j \in Rows \ Touched(req[t]) :
             stock'[j] = stock[j] /\ sold'[j] = sold[j] /\ added'[j] = added[j]
      BY <1>1, OtherRows
    <3> QED BY <3>1, <3>2 DEF AtomicStore!StoreNext, AtomicStore!SpoilRows
  <2> QED BY <2>1, <2>2
<1>2. CASE UNCHANGED tableVars
  BY <1>2 DEF tableVars, AtomicStore!storeVars
<1> QED BY <1>1, <1>2
        DEF ShopNext, ThreadStep, OnRequest, OnBadRequest, MissingQuery, BadNumber, RaceCrash, MixUp,
            ProcessEnds, Raii, RaiiDone, BuyLock, BuySelect, BuyStore, ShowQuery, ShowRows,
            vars, taskVars, tableVars

\* A purchase is one step for whoever looks at the stock and at the answers,
\* with any number of threads, rows and connections, shared or failing.  An odd
\* text or a mixed-up answer costs the promise for the rows of that one order.
THEOREM ShopImplementsStore == ShopSpec => ImplementsStore
<1>1. ShopInit => AtomicStore!StoreInit
  BY DEF ShopInit, AtomicStore!StoreInit
<1> QED BY <1>1, StoreStep, ShopInvariant, PTL DEF ShopSpec, ImplementsStore, AtomicStore!StoreSpec
================================================================================
