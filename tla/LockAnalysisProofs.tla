------------------------- MODULE LockAnalysisProofs -------------------------
(***************************************************************************)
(* Theorems of LockAnalysis, for any journal: what the analyses of a       *)
(* timeout, of a wait and of a deadlock show, whatever lies between the    *)
(* event and the beginnings of the transactions they search for.           *)
(***************************************************************************)
EXTENDS LockAnalysis, DataInduction, SequenceTheorems

(* The greatest and the least of a set of ids.                             *)
LEMMA MaxOfIds ==
  ASSUME NEW b \in Nat, NEW S \in SUBSET (1 .. b), S # {}
  PROVE  Max(S) \in S /\ \A i \in S : i <= Max(S)
<1>1. S \in SUBSET Nat /\ \A i \in S : i <= b
  OBVIOUS
<1>2. \E m \in S : \A i \in S : i <= m
  BY <1>1, GreatestElement
<1>3. \E m \in S : \A i \in S : m >= i
  BY <1>1, <1>2
<1>. QED BY <1>1, <1>3, Zenon DEF Max

LEMMA MinOfIds ==
  ASSUME NEW b \in Nat, NEW S \in SUBSET (1 .. b), S # {}
  PROVE  Min(S) \in S /\ \A i \in S : Min(S) <= i
<1>1. S \in SUBSET Nat
  OBVIOUS
<1>2. \E m \in S : \A i \in S : m <= i
  BY <1>1, LeastElement
<1>. QED BY <1>2, Zenon DEF Min

(* The ids of a journal, and the events of a connection among them.        *)
LEMMA JournalIds ==
  ASSUME TypeOK
  PROVE  /\ Len(journal) \in Nat /\ DOMAIN journal = 1 .. Len(journal)
         /\ \A i \in DOMAIN journal : journal[i] \in JournalEvents
         /\ \A name, c : Of(name, c) \subseteq 1 .. Len(journal)
<1>1. journal \in Seq(JournalEvents)
  BY DEF TypeOK
<1>2. Len(journal) \in Nat /\ DOMAIN journal = 1 .. Len(journal)
  BY <1>1, LenProperties
<1>3. \A i \in DOMAIN journal : journal[i] \in JournalEvents
  BY <1>1, <1>2, ElementOfSeq
<1>. QED BY <1>2, <1>3 DEF Of

(* Db::Prev returns the last event of a name and a connection before id.   *)
LEMMA PrevIsLast ==
  ASSUME TypeOK, NEW id \in Nat, NEW name, NEW c
  PROVE  \/ /\ Prev(id, name, c) = 0
            /\ \A i \in Of(name, c) : ~(i < id)
         \/ /\ Prev(id, name, c) \in Of(name, c)
            /\ Prev(id, name, c) < id
            /\ \A i \in Of(name, c) : i < id => i <= Prev(id, name, c)
<1>. DEFINE before == {i \in Of(name, c) : i < id}
<1>1. before \in SUBSET (1 .. Len(journal)) /\ Len(journal) \in Nat
  BY JournalIds
<1>2. CASE before = {}
  BY <1>2 DEF Prev
<1>3. CASE before # {}
  <2>1. Max(before) \in before /\ \A i \in before : i <= Max(before)
    <3>. HIDE DEF before
    <3>. QED BY <1>1, <1>3, MaxOfIds
  <2>2. Prev(id, name, c) = Max(before)
    BY <1>3 DEF Prev
  <2>. QED BY <2>1, <2>2
<1>. QED BY <1>2, <1>3

-----------------------------------------------------------------------------
(* The search for the beginning of a transaction                           *)

Begins(c) == {b \in Of("SDBL", c) : journal[b].begin}

(* What the loop makes of the id it has reached.                           *)
SearchStep(search, id, c) ==
  LET p == Prev(id, "SDBL", c)
  IN  IF p = 0 \/ journal[p].begin THEN [begin |-> p, id |-> id] ELSE search[p]

(* What the loop finds from id: the last beginning before id, and the      *)
(* first SDBL event after that beginning, or id.                           *)
LastBegin(id, c) ==
  LET bs == {b \in Begins(c) : b < id} IN IF bs = {} THEN 0 ELSE Max(bs)

Passed(id, c) ==
  LET ps == {p \in Of("SDBL", c) : LastBegin(id, c) < p /\ p < id}
  IN  IF ps = {} THEN id ELSE Min(ps)

LEMMA LastBeginIsLast ==
  ASSUME TypeOK, NEW id \in Nat, NEW c
  PROVE  \/ /\ LastBegin(id, c) = 0
            /\ \A b \in Begins(c) : ~(b < id)
         \/ /\ LastBegin(id, c) \in Begins(c)
            /\ LastBegin(id, c) < id
            /\ \A b \in Begins(c) : b < id => b <= LastBegin(id, c)
<1>. DEFINE bs == {b \in Begins(c) : b < id}
<1>1. bs \in SUBSET (1 .. Len(journal)) /\ Len(journal) \in Nat
  BY JournalIds DEF Begins
<1>2. CASE bs = {}
  BY <1>2 DEF LastBegin
<1>3. CASE bs # {}
  <2>1. Max(bs) \in bs /\ \A i \in bs : i <= Max(bs)
    <3>. HIDE DEF bs
    <3>. QED BY <1>1, <1>3, MaxOfIds
  <2>2. LastBegin(id, c) = Max(bs)
    BY <1>3 DEF LastBegin
  <2>. QED BY <2>1, <2>2
<1>. QED BY <1>2, <1>3

LEMMA PassedIsFirst ==
  ASSUME TypeOK, NEW id \in Nat, NEW c
  PROVE  \/ /\ Passed(id, c) = id
            /\ \A p \in Of("SDBL", c) : ~(LastBegin(id, c) < p /\ p < id)
         \/ /\ Passed(id, c) \in Of("SDBL", c)
            /\ LastBegin(id, c) < Passed(id, c) /\ Passed(id, c) < id
            /\ \A p \in Of("SDBL", c) :
                 LastBegin(id, c) < p /\ p < id => Passed(id, c) <= p
<1>. DEFINE ps == {p \in Of("SDBL", c) : LastBegin(id, c) < p /\ p < id}
<1>1. ps \in SUBSET (1 .. Len(journal)) /\ Len(journal) \in Nat
  BY JournalIds
<1>2. CASE ps = {}
  BY <1>2 DEF Passed
<1>3. CASE ps # {}
  <2>1. Min(ps) \in ps /\ \A i \in ps : Min(ps) <= i
    <3>. HIDE DEF ps
    <3>. QED BY <1>1, <1>3, MinOfIds
  <2>2. Passed(id, c) = Min(ps)
    BY <1>3 DEF Passed
  <2>. QED BY <2>1, <2>2
<1>. QED BY <1>2, <1>3

(* It solves the equation of the recursive function.                       *)
LEMMA FoundSolves ==
  ASSUME TypeOK, NEW id \in Nat \ {0}, NEW c
  PROVE  LET p == Prev(id, "SDBL", c)
         IN  \/ p = 0 /\ LastBegin(id, c) = 0 /\ Passed(id, c) = id
             \/ p # 0 /\ journal[p].begin /\ LastBegin(id, c) = p /\ Passed(id, c) = id
             \/ /\ p \in 1 .. id - 1 /\ ~journal[p].begin
                /\ LastBegin(id, c) = LastBegin(p, c) /\ Passed(id, c) = Passed(p, c)
<1>. DEFINE p == Prev(id, "SDBL", c)
<1>1. Of("SDBL", c) \subseteq Nat \ {0} /\ Begins(c) \subseteq Of("SDBL", c)
  BY JournalIds DEF Begins
<1>2. CASE p = 0
  <2>1. \A i \in Of("SDBL", c) : ~(i < id)
    BY <1>1, <1>2, PrevIsLast
  <2>2. LastBegin(id, c) = 0
    BY <1>1, <2>1, LastBeginIsLast
  <2>3. Passed(id, c) = id
    BY <1>1, <2>1, PassedIsFirst
  <2>. QED BY <1>2, <2>2, <2>3
<1>3. CASE p # 0
  <2>1. /\ p \in Of("SDBL", c) /\ p \in Nat \ {0} /\ p < id
        /\ \A i \in Of("SDBL", c) : i < id => i <= p
    BY <1>1, <1>3, PrevIsLast
  <2>. HIDE DEF p
  <2>2. CASE journal[p].begin
    <3>1. p \in Begins(c)
      BY <2>1, <2>2 DEF Begins
    <3>2. LastBegin(id, c) = p
      BY <1>1, <2>1, <3>1, LastBeginIsLast
    <3>3. Passed(id, c) = id
      BY <1>1, <2>1, <3>2, PassedIsFirst
    <3>. QED BY <1>3, <2>2, <3>2, <3>3 DEF p
  <2>3. CASE ~journal[p].begin
    <3>1. p \notin Begins(c)
      BY <2>3 DEF Begins
    <3>2. \A b \in Begins(c) : b < id <=> b < p
      BY <1>1, <2>1, <3>1
    <3>3. LastBegin(id, c) = LastBegin(p, c)
      <4>1. {b \in Begins(c) : b < id} = {b \in Begins(c) : b < p}
        BY <3>2
      <4>. QED BY <4>1 DEF LastBegin
    <3>4. LastBegin(p, c) \in Nat /\ LastBegin(p, c) < p
      BY <1>1, <2>1, LastBeginIsLast
    <3>. DEFINE q == Passed(id, c)
                r == Passed(p, c)
                l == LastBegin(p, c)
    <3>5. /\ q \in Of("SDBL", c) /\ l < q /\ q <= p
          /\ \A i \in Of("SDBL", c) : l < i /\ i < id => q <= i
      BY <1>1, <2>1, <3>3, <3>4, PassedIsFirst
    <3>6. \/ r = p /\ \A i \in Of("SDBL", c) : ~(l < i /\ i < p)
          \/ /\ r \in Of("SDBL", c) /\ l < r /\ r < p
             /\ \A i \in Of("SDBL", c) : l < i /\ i < p => r <= i
      BY <2>1, PassedIsFirst
    <3>7. l \in Nat
      BY <3>4
    <3>8. q = r
      <4>. HIDE DEF q, r, l
      <4>. QED BY <1>1, <2>1, <3>5, <3>6, <3>7
    <3>. QED BY <2>1, <2>3, <3>3, <3>8 DEF p
  <2>. QED BY <2>2, <2>3
<1>. QED BY <1>2, <1>3

(* The loop finds the last beginning before e, and leaves in the variable  *)
(* id the first SDBL event after it, or e.                                 *)
LEMMA BeginSearchFinds ==
  ASSUME TypeOK, NEW e \in Nat \ {0}, NEW c
  PROVE  BeginSearch(e, c) = [begin |-> LastBegin(e, c), id |-> Passed(e, c)]
<1>. DEFINE Solves(f) == f = [id \in 1 .. e |-> SearchStep(f, id, c)]
            found == [id \in 1 .. e |-> [begin |-> LastBegin(id, c), id |-> Passed(id, c)]]
            search == CHOOSE f : Solves(f)
<1>1. Solves(found)
  <2>1. ASSUME NEW id \in 1 .. e
        PROVE  found[id] = SearchStep(found, id, c)
    <3>. DEFINE p == Prev(id, "SDBL", c)
    <3>1. id \in Nat \ {0}
      OBVIOUS
    <3>2. \/ p = 0 /\ LastBegin(id, c) = 0 /\ Passed(id, c) = id
          \/ p # 0 /\ journal[p].begin /\ LastBegin(id, c) = p /\ Passed(id, c) = id
          \/ /\ p \in 1 .. id - 1 /\ ~journal[p].begin
             /\ LastBegin(id, c) = LastBegin(p, c) /\ Passed(id, c) = Passed(p, c)
      BY <3>1, FoundSolves
    <3>3. p \in 1 .. id - 1 => p \in 1 .. e /\ p # 0
      OBVIOUS
    <3>. HIDE DEF p
    <3>4. SearchStep(found, id, c) =
            IF p = 0 \/ journal[p].begin THEN [begin |-> p, id |-> id] ELSE found[p]
      BY DEF SearchStep, p
    <3>. QED BY <3>2, <3>3, <3>4
  <2>. QED BY <2>1
<1>2. Solves(search)
  <2>. HIDE DEF Solves, found
  <2>. QED BY <1>1
<1>3. BeginSearch(e, c) = search[e]
  BY DEF BeginSearch, SearchStep
<1>4. \A id \in 1 .. e : search[id] = SearchStep(search, id, c)
  <2>. HIDE DEF search
  <2>. QED BY <1>2
<1>. HIDE DEF Solves, search
<1>5. \A id \in 1 .. e : search[id] = found[id]
  <2>. DEFINE D == {id \in 1 .. e : search[id] # found[id]}
  <2>1. SUFFICES ASSUME D # {} PROVE FALSE
    OBVIOUS
  <2>2. PICK id \in D : \A i \in D : id <= i
    <3>1. D \in SUBSET Nat
      OBVIOUS
    <3>. HIDE DEF D
    <3>. QED BY <2>1, <3>1, LeastElement
  <2>. DEFINE p == Prev(id, "SDBL", c)
  <2>3. id \in Nat \ {0} /\ id <= e /\ id \in 1 .. e
    OBVIOUS
  <2>4. \/ p = 0 /\ LastBegin(id, c) = 0 /\ Passed(id, c) = id
        \/ p # 0 /\ journal[p].begin /\ LastBegin(id, c) = p /\ Passed(id, c) = id
        \/ /\ p \in 1 .. id - 1 /\ ~journal[p].begin
           /\ LastBegin(id, c) = LastBegin(p, c) /\ Passed(id, c) = Passed(p, c)
    BY <2>3, FoundSolves
  <2>5. search[id] =
          IF p = 0 \/ journal[p].begin THEN [begin |-> p, id |-> id] ELSE search[p]
    BY <1>4, <2>3 DEF SearchStep
  <2>6. p \in 1 .. id - 1 => p \in 1 .. e /\ p # 0 /\ search[p] = found[p]
    BY <2>2, <2>3
  <2>7. search[id] # found[id]
    OBVIOUS
  <2>. HIDE DEF p, D
  <2>. QED BY <2>3, <2>4, <2>5, <2>6, <2>7
<1>. QED BY <1>3, <1>5

(* The first lock of a connection after e that waits for one of waits.     *)
LEMMA FailedLockIsFirst ==
  ASSUME TypeOK, NEW e \in Nat, NEW c, NEW waits
  PROVE  LET after == {i \in Of("TLOCK", c) : i > e /\ journal[i].waits \in waits}
         IN  \/ FailedLock(e, c, waits) = 0 /\ after = {}
             \/ /\ FailedLock(e, c, waits) \in after
                /\ \A i \in after : FailedLock(e, c, waits) <= i
<1>. DEFINE after == {i \in Of("TLOCK", c) : i > e /\ journal[i].waits \in waits}
<1>1. after \in SUBSET (1 .. Len(journal)) /\ Len(journal) \in Nat
  BY JournalIds
<1>2. CASE after = {}
  BY <1>2 DEF FailedLock
<1>3. CASE after # {}
  <2>1. Min(after) \in after /\ \A i \in after : Min(after) <= i
    <3>. HIDE DEF after
    <3>. QED BY <1>1, <1>3, MinOfIds
  <2>2. FailedLock(e, c, waits) = Min(after)
    BY <1>3 DEF FailedLock
  <2>. QED BY <2>1, <2>2
<1>. QED BY <1>2, <1>3

(* What an analysis works with: the beginning it finds for a connection,   *)
(* and how far its search has moved.                                       *)
LEMMA SearchBounds ==
  ASSUME TypeOK, NEW e \in DOMAIN journal, NEW c
  PROVE  /\ e \in Nat \ {0}
         /\ BeginSearch(e, c).begin = LastBegin(e, c)
         /\ \/ LastBegin(e, c) = 0 /\ \A b \in Begins(c) : ~(b < e)
            \/ /\ LastBegin(e, c) \in Begins(c) /\ LastBegin(e, c) < e
               /\ \A b \in Begins(c) : b < e => b <= LastBegin(e, c)
         /\ BeginSearch(e, c).id \in Nat /\ BeginSearch(e, c).id <= e
<1>1. e \in Nat \ {0}
  BY JournalIds
<1>2. BeginSearch(e, c) = [begin |-> LastBegin(e, c), id |-> Passed(e, c)]
  BY <1>1, BeginSearchFinds
<1>3. Passed(e, c) \in Nat /\ Passed(e, c) <= e
  <2>1. Of("SDBL", c) \subseteq Nat
    BY JournalIds
  <2>. QED BY <1>1, <2>1, PassedIsFirst
<1>. QED BY <1>1, <1>2, <1>3, LastBeginIsLast

-----------------------------------------------------------------------------
(* The rows of each analysis                                               *)

(* The culprits' rows of a timeout or a wait: for each connection waited   *)
(* for its beginning and, of the locks between it and upTo[w], those that  *)
(* exclude ls.                                                             *)
Culprits(e, waits, ls, upTo) ==
  UNION {{LastBegin(e, w)} \cup Incompatible(PrevAll(LastBegin(e, w), upTo[w], "TLOCK", w), ls)
         : w \in waits}

FailedOfTimeout(e) == FailedLock(e, journal[e].conn, {journal[e].waits})

(* rs are the rows for the ids vs of the victim and cs of the culprits.     *)
AreRowsOf(rs, vs, cs) ==
  /\ \A r \in rs : r = <<r[1], r[2]>> /\ r[2] \in {Victim, Culprit}
  /\ \A i : <<i, Victim>> \in rs <=> i # 0 /\ i \in vs
  /\ \A i : <<i, Culprit>> \in rs <=> i # 0 /\ i \in cs

LEMMA RowsAreIds ==
  ASSUME NEW vs, NEW cs
  PROVE  AreRowsOf(RowsOf(vs, Victim) \cup RowsOf(cs, Culprit), vs, cs)
BY DEF AreRowsOf, RowsOf, Victim, Culprit

TimeoutVictims(e) == {e, LastBegin(e, journal[e].conn), FailedOfTimeout(e)}

TimeoutCulprits(e) ==
  LET fail == FailedOfTimeout(e)
  IN  IF fail = 0 THEN {}
      ELSE Culprits(e, journal[fail].waits, journal[fail].locks, [w \in journal[fail].waits |-> e])

LEMMA TimeoutRows ==
  ASSUME TypeOK, NEW e \in DOMAIN journal, AnalyzeTTimeOut(e)
  PROVE  /\ journal[e].name = "TTIMEOUT" /\ journal' = journal /\ event' = e
         /\ AreRowsOf(rows', TimeoutVictims(e), TimeoutCulprits(e))
<1>1. \A w : BeginSearch(e, w).begin = LastBegin(e, w)
  BY SearchBounds
<1>2. /\ journal[e].name = "TTIMEOUT" /\ journal' = journal /\ event' = e
      /\ rows' = RowsOf(TimeoutVictims(e), Victim) \cup RowsOf(TimeoutCulprits(e), Culprit)
  BY <1>1 DEF AnalyzeTTimeOut, FailedOfTimeout, TimeoutVictims, TimeoutCulprits, Culprits
<1>. QED BY <1>2, RowsAreIds

WaitVictims(e) == {e, LastBegin(e, journal[e].conn)}

WaitCulprits(e) ==
  Culprits(e, journal[e].waits, journal[e].locks,
           [w \in journal[e].waits |-> BeginSearch(e, w).id])

LEMMA WaitRows ==
  ASSUME TypeOK, NEW e \in DOMAIN journal, AnalyzeTLock(e)
  PROVE  /\ journal[e].name = "TLOCK" /\ journal' = journal /\ event' = e
         /\ AreRowsOf(rows', WaitVictims(e), WaitCulprits(e))
<1>1. \A w : BeginSearch(e, w).begin = LastBegin(e, w)
  BY SearchBounds
<1>2. /\ journal[e].name = "TLOCK" /\ journal' = journal /\ event' = e
      /\ rows' = RowsOf(WaitVictims(e), Victim) \cup RowsOf(WaitCulprits(e), Culprit)
  BY <1>1 DEF AnalyzeTLock, WaitVictims, WaitCulprits, Culprits
<1>. QED BY <1>2, RowsAreIds

FailedOfFirst(e) ==
  FailedLock(e, journal[e].first.conn, WaitingFor(journal[e].second.conn))

FailedOfSecond(e) ==
  FailedLock(e, journal[e].second.conn, WaitingFor(journal[e].first.conn))

(* The locks of a side between the beginning of the first connection's     *)
(* transaction and where the search for the second one's has moved.        *)
LocksOfSide(e, side, other) ==
  Incompatible(PrevAll(LastBegin(e, journal[e].first.conn),
                       BeginSearch(e, journal[e].second.conn).id, "TLOCK", side.conn),
               other.locks)

DeadlockVictims(e) ==
  {e, FailedOfFirst(e), LastBegin(e, journal[e].first.conn)}
    \cup LocksOfSide(e, journal[e].first, journal[e].second)

DeadlockCulprits(e) ==
  {FailedOfSecond(e), LastBegin(e, journal[e].second.conn)}
    \cup LocksOfSide(e, journal[e].second, journal[e].first)

LEMMA DeadlockRows ==
  ASSUME TypeOK, NEW e \in DOMAIN journal, AnalyzeTDeadlock(e)
  PROVE  /\ journal[e].name = "TDEADLOCK" /\ journal' = journal /\ event' = e
         /\ FailedOfFirst(e) # 0 /\ FailedOfSecond(e) # 0
         /\ AreRowsOf(rows', DeadlockVictims(e), DeadlockCulprits(e))
<1>1. \A w : BeginSearch(e, w).begin = LastBegin(e, w)
  BY SearchBounds
<1>2. /\ journal[e].name = "TDEADLOCK" /\ journal' = journal /\ event' = e
      /\ FailedOfFirst(e) # 0 /\ FailedOfSecond(e) # 0
      /\ rows' = RowsOf(DeadlockVictims(e), Victim) \cup RowsOf(DeadlockCulprits(e), Culprit)
  BY <1>1 DEF AnalyzeTDeadlock, FailedOfFirst, FailedOfSecond, LocksOfSide, DeadlockVictims,
              DeadlockCulprits
<1>. QED BY <1>2, RowsAreIds

-----------------------------------------------------------------------------
(* What the analyses show                                                  *)

(* A culprit's row is the beginning of a connection waited for, or one of  *)
(* its locks between that beginning and the event.                         *)
LEMMA CulpritRows ==
  ASSUME TypeOK, NEW e \in DOMAIN journal, NEW waits, NEW ls, NEW upTo,
         \A w \in waits : upTo[w] \in Nat /\ upTo[w] <= e,
         NEW i \in Culprits(e, waits, ls, upTo), i # 0
  PROVE  /\ i \in DOMAIN journal /\ i < e
         /\ \E w \in waits : /\ journal[i].conn = w
                             /\ \/ i = LastBegin(e, w)
                                \/ LastBegin(e, w) < i /\ i \in Of("TLOCK", w)
<1>1. PICK w \in waits :
        i \in {LastBegin(e, w)} \cup Incompatible(PrevAll(LastBegin(e, w), upTo[w], "TLOCK", w), ls)
  BY DEF Culprits
<1>2. /\ e \in Nat
      /\ LastBegin(e, w) = 0 \/ (LastBegin(e, w) \in Begins(w) /\ LastBegin(e, w) < e)
  BY SearchBounds
<1>3. CASE i = LastBegin(e, w)
  BY <1>1, <1>2, <1>3, JournalIds DEF Begins, Of
<1>4. CASE i # LastBegin(e, w)
  <2>1. i \in Of("TLOCK", w) /\ LastBegin(e, w) < i /\ i < upTo[w]
    BY <1>1, <1>4 DEF Incompatible, PrevAll
  <2>2. i \in DOMAIN journal /\ i \in Nat /\ journal[i].conn = w
    BY <2>1, JournalIds DEF Of
  <2>. QED BY <1>1, <1>2, <2>1, <2>2
<1>. QED BY <1>3, <1>4

(* How far the analyses of a timeout and of a wait look for locks.         *)
LEMMA CulpritsOfTimeout ==
  ASSUME TypeOK, NEW e \in DOMAIN journal, NEW i \in TimeoutCulprits(e), i # 0
  PROVE  /\ i \in DOMAIN journal /\ i < e
         /\ \/ i = LastBegin(e, journal[i].conn)
            \/ LastBegin(e, journal[i].conn) < i
<1>. DEFINE waits == journal[FailedOfTimeout(e)].waits
            ls == journal[FailedOfTimeout(e)].locks
            upTo == [w \in waits |-> e]
<1>1. i \in Culprits(e, waits, ls, upTo)
  BY DEF TimeoutCulprits
<1>2. \A w \in waits : upTo[w] \in Nat /\ upTo[w] <= e
  BY SearchBounds
<1>. HIDE DEF waits, ls, upTo
<1>. QED BY <1>1, <1>2, CulpritRows

LEMMA CulpritsOfWait ==
  ASSUME TypeOK, NEW e \in DOMAIN journal, NEW i \in WaitCulprits(e), i # 0
  PROVE  /\ i \in DOMAIN journal /\ i < e
         /\ \/ i = LastBegin(e, journal[i].conn)
            \/ LastBegin(e, journal[i].conn) < i
<1>. DEFINE waits == journal[e].waits
            ls == journal[e].locks
            upTo == [w \in waits |-> BeginSearch(e, w).id]
<1>1. i \in Culprits(e, waits, ls, upTo)
  BY DEF WaitCulprits
<1>2. \A w \in waits : upTo[w] \in Nat /\ upTo[w] <= e
  BY SearchBounds
<1>. HIDE DEF waits, ls, upTo
<1>. QED BY <1>1, <1>2, CulpritRows

(* The rows are ids of the journal with a role.                            *)
LEMMA RowsTyped ==
  ASSUME TypeOK, NEW e \in DOMAIN journal,
         AnalyzeTTimeOut(e) \/ AnalyzeTLock(e) \/ AnalyzeTDeadlock(e)
  PROVE  TypeOK'
<1>1. /\ Len(journal) \in Nat /\ DOMAIN journal = 1 .. Len(journal)
      /\ \A name, c : Of(name, c) \subseteq DOMAIN journal
  BY JournalIds
<1>2. \A c : LastBegin(e, c) # 0 => LastBegin(e, c) \in DOMAIN journal
  BY <1>1, SearchBounds DEF Begins
<1>3. \A c, waits : FailedLock(e, c, waits) # 0 => FailedLock(e, c, waits) \in DOMAIN journal
  BY <1>1, FailedLockIsFirst
<1>4. PICK vs, cs : /\ AreRowsOf(rows', vs, cs)
                    /\ \A i \in vs \cup cs : i # 0 => i \in DOMAIN journal
  <2>1. CASE AnalyzeTTimeOut(e)
    <3>1. \A i \in TimeoutVictims(e) : i # 0 => i \in DOMAIN journal
      BY <1>2, <1>3 DEF TimeoutVictims, FailedOfTimeout
    <3>2. \A i \in TimeoutCulprits(e) : i # 0 => i \in DOMAIN journal
      BY CulpritsOfTimeout
    <3>. QED BY <2>1, <3>1, <3>2, TimeoutRows
  <2>2. CASE AnalyzeTLock(e)
    <3>1. \A i \in WaitVictims(e) : i # 0 => i \in DOMAIN journal
      BY <1>2 DEF WaitVictims
    <3>2. \A i \in WaitCulprits(e) : i # 0 => i \in DOMAIN journal
      BY CulpritsOfWait
    <3>. QED BY <2>2, <3>1, <3>2, WaitRows
  <2>3. CASE AnalyzeTDeadlock(e)
    <3>1. \A side, other : LocksOfSide(e, side, other) \subseteq DOMAIN journal
      BY <1>1 DEF LocksOfSide, Incompatible, PrevAll
    <3>2. \A i \in DeadlockVictims(e) \cup DeadlockCulprits(e) : i # 0 => i \in DOMAIN journal
      BY <1>2, <1>3, <3>1 DEF DeadlockVictims, DeadlockCulprits, FailedOfFirst, FailedOfSecond
    <3>. QED BY <2>3, <3>2, DeadlockRows
  <2>. QED BY <2>1, <2>2, <2>3
<1>5. journal' = journal /\ event' = e
  BY TimeoutRows, WaitRows, DeadlockRows
<1>6. rows' \subseteq (DOMAIN journal) \X {Victim, Culprit}
  <2>1. ASSUME NEW r \in rows'
        PROVE  r \in (DOMAIN journal) \X {Victim, Culprit}
    <3>1. r = <<r[1], r[2]>> /\ r[2] \in {Victim, Culprit}
      BY <1>4 DEF AreRowsOf
    <3>2. r[1] \in DOMAIN journal
      BY <1>4, <3>1 DEF AreRowsOf
    <3>. QED BY <3>1, <3>2
  <2>. QED BY <2>1
<1>. QED BY <1>5, <1>6 DEF TypeOK

(* The analysis of a timeout shows the nearest lock that failed.           *)
LEMMA TimeoutShowsNearest ==
  ASSUME TypeOK, NEW e \in DOMAIN journal, AnalyzeTTimeOut(e)
  PROVE  TimeoutLockIsNearest'
<1>. DEFINE c == journal[e].conn
            fail == FailedOfTimeout(e)
            same(i) == i > e /\ journal[i].name = "TLOCK" /\ journal[i].conn = c
                       /\ journal[i].waits = journal[e].waits
<1>1. DOMAIN journal = 1 .. Len(journal) /\ Len(journal) \in Nat /\ e \in Nat
  BY JournalIds
<1>2. /\ journal' = journal /\ event' = e
      /\ AreRowsOf(rows', TimeoutVictims(e), TimeoutCulprits(e))
  BY TimeoutRows
<1>3. LastBegin(e, c) \in Nat /\ LastBegin(e, c) <= e
  <2>1. \A b \in Begins(c) : b \in Nat
    BY JournalIds DEF Begins
  <2>. QED BY <1>1, <2>1, SearchBounds
<1>4. \/ fail = 0 /\ \A i \in DOMAIN journal : ~same(i)
      \/ fail \in DOMAIN journal /\ same(fail) /\ \A i \in DOMAIN journal : same(i) => fail <= i
  <2>1. \A i : i \in Of("TLOCK", c) /\ i > e /\ journal[i].waits \in {journal[e].waits}
                <=> i \in DOMAIN journal /\ same(i)
    BY DEF Of
  <2>. HIDE DEF same
  <2>. QED BY <1>1, <2>1, FailedLockIsFirst DEF FailedOfTimeout
<1>5. ASSUME NEW i \in DOMAIN journal, i > e
      PROVE  <<i, Victim>> \in rows' <=> same(i) /\ \A j \in e + 1 .. i - 1 : ~same(j)
  <2>1. <<i, Victim>> \in rows' <=> i = fail
    BY <1>1, <1>2, <1>3, <1>5 DEF AreRowsOf, TimeoutVictims
  <2>2. \A j \in e + 1 .. i - 1 : j \in DOMAIN journal
    BY <1>1, <1>5
  <2>3. ASSUME i = fail
        PROVE  same(i) /\ \A j \in e + 1 .. i - 1 : ~same(j)
    <3>1. i # 0
      BY <1>1
    <3>. HIDE DEF same
    <3>. QED BY <1>1, <1>4, <2>2, <2>3, <3>1
  <2>4. ASSUME same(i), \A j \in e + 1 .. i - 1 : ~same(j)
        PROVE  i = fail
    <3>1. fail \in DOMAIN journal /\ same(fail) /\ fail <= i
      <4>. HIDE DEF same
      <4>. QED BY <1>4, <2>4
    <3>2. fail > e
      BY <3>1
    <3>3. fail \notin e + 1 .. i - 1
      <4>. HIDE DEF same
      <4>. QED BY <2>4, <3>1
    <3>. QED BY <1>1, <3>1, <3>2, <3>3
  <2>. HIDE DEF same
  <2>. QED BY <2>1, <2>3, <2>4
<1>. QED BY <1>2, <1>5 DEF TimeoutLockIsNearest, Analysed

(* The analysis of a timeout shows every lock that blocks the failed one.  *)
LEMMA TimeoutShowsCulprits ==
  ASSUME TypeOK, NEW e \in DOMAIN journal, AnalyzeTTimeOut(e)
  PROVE  TimeoutCulpritsShown'
<1>. DEFINE fail == FailedOfTimeout(e)
<1>1. DOMAIN journal = 1 .. Len(journal) /\ Len(journal) \in Nat /\ e \in Nat
  BY JournalIds
<1>2. /\ journal' = journal /\ event' = e
      /\ AreRowsOf(rows', TimeoutVictims(e), TimeoutCulprits(e))
  BY TimeoutRows
<1>3. LastBegin(e, journal[e].conn) \in Nat /\ LastBegin(e, journal[e].conn) <= e
  <2>1. \A b \in Begins(journal[e].conn) : b \in Nat
    BY JournalIds DEF Begins
  <2>. QED BY <1>1, <2>1, SearchBounds
<1>4. \A f \in DOMAIN journal : <<f, Victim>> \in rows' /\ f > e => f = fail
  BY <1>1, <1>2, <1>3 DEF AreRowsOf, TimeoutVictims
<1>5. ASSUME fail \in DOMAIN journal, NEW c \in journal[fail].waits,
             NEW i \in Of("TLOCK", c), InTransaction(i, e),
             LocksAreLocking(journal[i].locks, journal[fail].locks)
      PROVE  <<i, Culprit>> \in rows'
  <2>1. i \in DOMAIN journal /\ i \in Nat \ {0} /\ journal[i].conn = c
    BY <1>1 DEF Of
  <2>2. /\ i < e
        /\ \E b \in 1 .. i : b \in Begins(c)
        /\ \A b \in i .. e : b \notin Begins(c)
    BY <1>5, <2>1 DEF InTransaction, Begins
  <2>3. LastBegin(e, c) \in Begins(c) /\ LastBegin(e, c) < e
    BY <1>1, <2>1, <2>2, SearchBounds
  <2>4. LastBegin(e, c) \in Nat /\ LastBegin(e, c) < i
    <3>1. LastBegin(e, c) \in Nat
      BY <2>3, JournalIds DEF Begins
    <3>. QED BY <1>1, <2>1, <2>2, <2>3, <3>1
  <2>5. i \in Incompatible(PrevAll(LastBegin(e, c), e, "TLOCK", c), journal[fail].locks)
    BY <1>5, <2>2, <2>4 DEF Incompatible, PrevAll
  <2>6. fail # 0
    BY <1>1, <1>5
  <2>7. i \in TimeoutCulprits(e)
    BY <1>5, <2>5, <2>6 DEF TimeoutCulprits, Culprits
  <2>. QED BY <1>2, <2>1, <2>7 DEF AreRowsOf
<1>6. \A f \in DOMAIN journal : <<f, Victim>> \in rows' /\ f > e =>
        \A c \in journal[f].waits :
          {i \in Of("TLOCK", c) : InTransaction(i, e)
             /\ LocksAreLocking(journal[i].locks, journal[f].locks)} \X {Culprit} \subseteq rows'
  BY <1>4, <1>5
<1>. QED BY <1>2, <1>6 DEF TimeoutCulpritsShown, Analysed, Blocking, InTransaction, Of

(* The rows of a culprit are of its last transaction before the event.     *)
LEMMA CulpritsNotEarlier ==
  ASSUME TypeOK, NEW e \in DOMAIN journal, NEW i \in DOMAIN journal, i < e,
         i = LastBegin(e, journal[i].conn) \/ LastBegin(e, journal[i].conn) < i
  PROVE  LET begins == {b \in Of("SDBL", journal[i].conn) : b < e /\ journal[b].begin}
         IN  begins # {} => i >= Max(begins)
<1>. DEFINE c == journal[i].conn
            begins == {b \in Of("SDBL", c) : b < e /\ journal[b].begin}
<1>1. begins = {b \in Begins(c) : b < e}
  BY DEF Begins
<1>2. begins # {} => LastBegin(e, c) = Max(begins)
  BY <1>1 DEF LastBegin
<1>3. begins # {} => LastBegin(e, c) \in Nat
  <2>1. \A b \in Begins(c) : b \in Nat
    BY JournalIds DEF Begins
  <2>. QED BY <1>1, <2>1, SearchBounds
<1>4. i \in Nat
  BY JournalIds
<1>. QED BY <1>2, <1>3, <1>4

LEMMA CulpritsInTheirTransaction ==
  ASSUME TypeOK, NEW e \in DOMAIN journal, AnalyzeTTimeOut(e) \/ AnalyzeTLock(e)
  PROVE  CulpritsInTransaction'
<1>1. journal' = journal /\ event' = e
  BY TimeoutRows, WaitRows
<1>2. ASSUME NEW i \in DOMAIN journal, <<i, Culprit>> \in rows'
      PROVE  /\ i < e
             /\ i = LastBegin(e, journal[i].conn) \/ LastBegin(e, journal[i].conn) < i
  <2>1. CASE AnalyzeTTimeOut(e)
    <3>1. i \in TimeoutCulprits(e) /\ i # 0
      BY <1>2, <2>1, TimeoutRows DEF AreRowsOf
    <3>. QED BY <3>1, CulpritsOfTimeout
  <2>2. CASE AnalyzeTLock(e)
    <3>1. i \in WaitCulprits(e) /\ i # 0
      BY <1>2, <2>2, WaitRows DEF AreRowsOf
    <3>. QED BY <3>1, CulpritsOfWait
  <2>. QED BY <2>1, <2>2
<1>3. \A i \in DOMAIN journal : <<i, Culprit>> \in rows' =>
        LET begins == {b \in Of("SDBL", journal[i].conn) : b < e /\ journal[b].begin}
        IN  i < e /\ (begins # {} => i >= Max(begins))
  BY <1>2, CulpritsNotEarlier
<1>. QED BY <1>1, <1>3 DEF CulpritsInTransaction, Of

(* One side of a deadlock: its rows are the failed lock, the beginning of  *)
(* its transaction and locks of its connection before the deadlock.        *)
SideShown(e, c, d, shown) ==
  LET waits(i) == i > e /\ i \in Of("TLOCK", c) /\ d \in journal[i].waits
      begins   == {i \in Of("SDBL", c) : i < e /\ journal[i].begin}
  IN  /\ \A i \in shown : journal[i].conn = c
      /\ begins # {} => Max(begins) \in shown
      /\ \A i \in DOMAIN journal :
           i > e => (i \in shown <=> waits(i) /\ \A j \in e + 1 .. i - 1 : ~waits(j))

(* The rows of a role, but for the deadlock itself.                        *)
ShownOf(e, ids) == {i \in DOMAIN journal \ {e} : i # 0 /\ i \in ids}

LEMMA DeadlockSide ==
  ASSUME TypeOK, NEW e \in DOMAIN journal, NEW c, NEW d \in Connections,
         NEW found, NEW ids,
         FailedLock(e, c, WaitingFor(d)) # 0,
         found \subseteq Of("TLOCK", c), \A i \in found : i < e,
         ids \ {e} = ({FailedLock(e, c, WaitingFor(d)), LastBegin(e, c)} \cup found) \ {e}
  PROVE  SideShown(e, c, d, ShownOf(e, ids))
<1>. DEFINE fail == FailedLock(e, c, WaitingFor(d))
            waits(i) == i > e /\ i \in Of("TLOCK", c) /\ d \in journal[i].waits
            shown    == {i \in DOMAIN journal \ {e} : i # 0 /\ i \in ids}
            begins   == {i \in Of("SDBL", c) : i < e /\ journal[i].begin}
<1>1. /\ DOMAIN journal = 1 .. Len(journal) /\ Len(journal) \in Nat /\ e \in Nat
      /\ \A name : Of(name, c) \subseteq 1 .. Len(journal)
  BY JournalIds
<1>2. \/ LastBegin(e, c) = 0 /\ begins = {}
      \/ /\ begins # {} /\ LastBegin(e, c) = Max(begins)
         /\ LastBegin(e, c) \in Of("SDBL", c) /\ LastBegin(e, c) < e
  <2>1. begins = {b \in Begins(c) : b < e}
    BY DEF Begins
  <2>2. begins # {} => LastBegin(e, c) = Max(begins)
    BY <2>1 DEF LastBegin
  <2>3. begins = {} => LastBegin(e, c) = 0
    BY <2>1 DEF LastBegin
  <2>4. 0 \notin Begins(c)
    BY <1>1 DEF Begins
  <2>. HIDE DEF begins
  <2>5. LastBegin(e, c) # 0 => LastBegin(e, c) \in Of("SDBL", c) /\ LastBegin(e, c) < e
    BY <2>1, SearchBounds DEF Begins
  <2>6. begins # {} => LastBegin(e, c) # 0
    <3>1. ASSUME begins # {}, LastBegin(e, c) = 0
          PROVE  FALSE
      <4>1. PICK b \in Begins(c) : b < e
        BY <2>1, <3>1
      <4>. QED BY <2>4, <3>1, <4>1, SearchBounds
    <3>. QED BY <3>1
  <2>. QED BY <2>2, <2>3, <2>5, <2>6
<1>3. \A i \in Of("TLOCK", c) : journal[i].waits \in WaitingFor(d) <=> d \in journal[i].waits
  <2>1. ASSUME NEW i \in Of("TLOCK", c)
        PROVE  journal[i].waits \in SUBSET Connections
    <3>1. journal[i] \in JournalEvents /\ journal[i].name = "TLOCK"
      BY JournalIds DEF Of
    <3>. QED BY <3>1 DEF JournalEvents
  <2>. QED BY <2>1 DEF WaitingFor
<1>4. fail \in DOMAIN journal /\ waits(fail) /\ \A i : waits(i) => fail <= i
  BY <1>1, <1>3, FailedLockIsFirst
<1>5. \A i \in shown : journal[i].conn = c
  BY <1>2, <1>4 DEF Of
<1>6. begins # {} => Max(begins) \in shown
  <2>. HIDE DEF begins
  <2>. QED BY <1>1, <1>2
<1>7. ASSUME NEW i \in DOMAIN journal, i > e
      PROVE  i \in shown <=> waits(i) /\ \A j \in e + 1 .. i - 1 : ~waits(j)
  <2>1. i \in shown <=> i = fail
    <3>1. i \notin found /\ i # LastBegin(e, c) /\ i # e /\ i # 0
      BY <1>1, <1>2, <1>7
    <3>. QED BY <1>4, <3>1
  <2>. HIDE DEF shown
  <2>2. ASSUME i = fail, NEW j \in e + 1 .. i - 1
        PROVE  ~waits(j)
    <3>. HIDE DEF waits
    <3>. QED BY <1>1, <1>4, <2>2
  <2>3. ASSUME waits(i), \A j \in e + 1 .. i - 1 : ~waits(j)
        PROVE  i = fail
    <3>1. fail > e
      BY <1>4
    <3>2. fail \notin e + 1 .. i - 1 /\ fail <= i
      <4>. HIDE DEF waits
      <4>. QED BY <1>4, <2>3
    <3>. QED BY <1>1, <1>4, <3>1, <3>2
  <2>4. i = fail => waits(i)
    BY <1>4
  <2>. HIDE DEF waits
  <2>. QED BY <2>1, <2>2, <2>3, <2>4
<1>. QED BY <1>5, <1>6, <1>7 DEF SideShown, ShownOf

LEMMA DeadlockShowsBothSides ==
  ASSUME TypeOK, NEW e \in DOMAIN journal, AnalyzeTDeadlock(e)
  PROVE  DeadlockSidesShown'
<1>. DEFINE a == journal[e].first.conn
            b == journal[e].second.conn
<1>1. /\ journal[e].name = "TDEADLOCK" /\ journal' = journal /\ event' = e
      /\ FailedOfFirst(e) # 0 /\ FailedOfSecond(e) # 0
      /\ AreRowsOf(rows', DeadlockVictims(e), DeadlockCulprits(e))
  BY DeadlockRows
<1>2. a \in Connections /\ b \in Connections
  <2>1. journal[e] \in JournalEvents
    BY JournalIds
  <2>2. journal[e].first \in Blocked /\ journal[e].second \in Blocked
    BY <1>1, <2>1 DEF JournalEvents
  <2>. QED BY <2>2 DEF Blocked
<1>3. \A side, other : /\ LocksOfSide(e, side, other) \subseteq Of("TLOCK", side.conn)
                      /\ \A i \in LocksOfSide(e, side, other) : i < e
  <2>1. \A n, c : Of(n, c) \subseteq Nat
    BY JournalIds
  <2>2. \A side, other : \A i \in LocksOfSide(e, side, other) :
          i \in Of("TLOCK", side.conn) /\ i < BeginSearch(e, b).id
    BY DEF LocksOfSide, Incompatible, PrevAll
  <2>3. BeginSearch(e, b).id \in Nat /\ BeginSearch(e, b).id <= e /\ e \in Nat
    BY SearchBounds
  <2>. QED BY <2>1, <2>2, <2>3
<1>4. SideShown(e, a, b, ShownOf(e, DeadlockVictims(e)))
  <2>. DEFINE found == LocksOfSide(e, journal[e].first, journal[e].second)
  <2>1. DeadlockVictims(e) \ {e} = ({FailedLock(e, a, WaitingFor(b)), LastBegin(e, a)} \cup found) \ {e}
    BY DEF DeadlockVictims, FailedOfFirst
  <2>2. FailedLock(e, a, WaitingFor(b)) # 0
    BY <1>1 DEF FailedOfFirst
  <2>3. found \subseteq Of("TLOCK", a) /\ \A i \in found : i < e
    BY <1>3
  <2>. HIDE DEF found, a, b
  <2>. QED BY <1>2, <2>1, <2>2, <2>3, DeadlockSide, Zenon
<1>5. SideShown(e, b, a, ShownOf(e, DeadlockCulprits(e)))
  <2>. DEFINE found == LocksOfSide(e, journal[e].second, journal[e].first)
  <2>1. DeadlockCulprits(e) \ {e} = ({FailedLock(e, b, WaitingFor(a)), LastBegin(e, b)} \cup found) \ {e}
    BY DEF DeadlockCulprits, FailedOfSecond
  <2>2. FailedLock(e, b, WaitingFor(a)) # 0
    BY <1>1 DEF FailedOfSecond
  <2>3. found \subseteq Of("TLOCK", b) /\ \A i \in found : i < e
    BY <1>3
  <2>. HIDE DEF found, a, b
  <2>. QED BY <1>2, <2>1, <2>2, <2>3, DeadlockSide, Zenon
<1>6. /\ {i \in DOMAIN journal \ {e} : <<i, Victim>> \in rows'}
            = ShownOf(e, DeadlockVictims(e))
      /\ {i \in DOMAIN journal \ {e} : <<i, Culprit>> \in rows'}
            = ShownOf(e, DeadlockCulprits(e))
  BY <1>1 DEF AreRowsOf, ShownOf
<1>7. /\ SideShown(e, a, b, {i \in DOMAIN journal \ {e} : <<i, Victim>> \in rows'})
      /\ SideShown(e, b, a, {i \in DOMAIN journal \ {e} : <<i, Culprit>> \in rows'})
  BY <1>4, <1>5, <1>6
<1>. QED BY <1>1, <1>7 DEF DeadlockSidesShown, SideShown, Of

-----------------------------------------------------------------------------
(* What every analysis shows                                               *)

AnalysisInv == /\ TypeOK /\ TimeoutCulpritsShown /\ TimeoutLockIsNearest
               /\ CulpritsInTransaction /\ DeadlockSidesShown

LEMMA AnalysisInit == Init => AnalysisInv
<1>1. Init => TypeOK /\ event = 0
  BY AnalysisAssumption DEF Init, TypeOK
<1>. QED BY <1>1 DEF AnalysisInv, TimeoutCulpritsShown, TimeoutLockIsNearest,
                     CulpritsInTransaction, DeadlockSidesShown, Analysed

LEMMA AnalysisNext == AnalysisInv /\ [Next]_vars => AnalysisInv'
<1>. SUFFICES ASSUME AnalysisInv, [Next]_vars PROVE AnalysisInv'
  OBVIOUS
<1>1. TypeOK
  BY DEF AnalysisInv
<1>2. CASE UNCHANGED vars
  <2>1. journal' = journal /\ event' = event /\ rows' = rows
    BY <1>2 DEF vars
  <2>2. TypeOK'
    BY <2>1 DEF AnalysisInv, TypeOK
  <2>3. \A name : Analysed(name)' <=> Analysed(name)
    BY <2>1 DEF Analysed
  <2>4. \A name, c : Of(name, c)' = Of(name, c)
    BY <2>1 DEF Of
  <2>5. \A i, e : InTransaction(i, e)' <=> InTransaction(i, e)
    BY <2>1, <2>4 DEF InTransaction
  <2>6. TimeoutCulpritsShown'
    <3>1. \A e, c, ls : Blocking(e, c, ls)' = Blocking(e, c, ls)
      BY <2>1, <2>4, <2>5 DEF Blocking
    <3>. QED BY <2>1, <2>3, <3>1 DEF AnalysisInv, TimeoutCulpritsShown
  <2>7. TimeoutLockIsNearest'
    BY <2>1, <2>3 DEF AnalysisInv, TimeoutLockIsNearest
  <2>8. CulpritsInTransaction'
    BY <2>1, <2>3, <2>4 DEF AnalysisInv, CulpritsInTransaction
  <2>9. DeadlockSidesShown'
    <3>. DEFINE of(role) == {i \in DOMAIN journal \ {event} : <<i, role>> \in rows}
                a == journal[event].first.conn
                b == journal[event].second.conn
    <3>1. SUFFICES ASSUME Analysed("TDEADLOCK")
                   PROVE  SideShown(event, a, b, of(Victim))' /\ SideShown(event, b, a, of(Culprit))'
      BY <2>3 DEF DeadlockSidesShown, SideShown
    <3>2. SideShown(event, a, b, of(Victim)) /\ SideShown(event, b, a, of(Culprit))
      BY <3>1 DEF AnalysisInv, DeadlockSidesShown, SideShown
    <3>3. /\ a' = a /\ b' = b
          /\ of(Victim)' = of(Victim) /\ of(Culprit)' = of(Culprit)
      BY <2>1
    <3>. HIDE DEF of, a, b
    <3>4. ASSUME NEW e, NEW c, NEW d, NEW shown, SideShown(e, c, d, shown)
          PROVE  SideShown(e, c, d, shown)'
      BY <2>1, <2>4, <3>4 DEF SideShown
    <3>. QED BY <2>1, <3>2, <3>3, <3>4
  <2>. QED BY <2>2, <2>6, <2>7, <2>8, <2>9 DEF AnalysisInv
<1>3. ASSUME NEW e \in DOMAIN journal, AnalyzeTTimeOut(e)
      PROVE  AnalysisInv'
  <2>1. Analysed("TTIMEOUT")' /\ ~Analysed("TDEADLOCK")'
    BY <1>1, <1>3, TimeoutRows, JournalIds DEF Analysed
  <2>2. DeadlockSidesShown'
    BY <2>1 DEF DeadlockSidesShown
  <2>. QED BY <1>1, <1>3, <2>2, RowsTyped, TimeoutShowsCulprits, TimeoutShowsNearest,
              CulpritsInTheirTransaction DEF AnalysisInv
<1>4. ASSUME NEW e \in DOMAIN journal, AnalyzeTLock(e)
      PROVE  AnalysisInv'
  <2>1. ~Analysed("TTIMEOUT")' /\ ~Analysed("TDEADLOCK")'
    BY <1>1, <1>4, WaitRows DEF Analysed
  <2>2. DeadlockSidesShown' /\ TimeoutCulpritsShown' /\ TimeoutLockIsNearest'
    BY <2>1 DEF DeadlockSidesShown, TimeoutCulpritsShown, TimeoutLockIsNearest
  <2>. QED BY <1>1, <1>4, <2>2, RowsTyped, CulpritsInTheirTransaction DEF AnalysisInv
<1>5. ASSUME NEW e \in DOMAIN journal, AnalyzeTDeadlock(e)
      PROVE  AnalysisInv'
  <2>1. ~Analysed("TTIMEOUT")' /\ ~Analysed("TLOCK")'
    BY <1>1, <1>5, DeadlockRows DEF Analysed
  <2>2. CulpritsInTransaction' /\ TimeoutCulpritsShown' /\ TimeoutLockIsNearest'
    BY <2>1 DEF CulpritsInTransaction, TimeoutCulpritsShown, TimeoutLockIsNearest
  <2>. QED BY <1>1, <1>5, <2>2, RowsTyped, DeadlockShowsBothSides DEF AnalysisInv
<1>. QED BY <1>2, <1>3, <1>4, <1>5 DEF Next

(* The analyses show rows of the journal, for any journal.                 *)
THEOREM AnalysesTyped == Spec => []TypeOK
<1>1. AnalysisInv => TypeOK
  BY DEF AnalysisInv
<1>. QED BY <1>1, AnalysisInit, AnalysisNext, PTL DEF Spec

(* For any journal, the analysis of a timeout shows every lock that        *)
(* excludes the failed one and was set in the open transaction of a        *)
(* connection it waited for.                                               *)
THEOREM NoCulpritMissed == Spec => []TimeoutCulpritsShown
<1>1. AnalysisInv => TimeoutCulpritsShown
  BY DEF AnalysisInv
<1>. QED BY <1>1, AnalysisInit, AnalysisNext, PTL DEF Spec

(* For any journal, the lock the analysis of a timeout shows as failed is  *)
(* the nearest one after it that waited for the same connections.          *)
THEOREM FailedLockIsNearest == Spec => []TimeoutLockIsNearest
<1>1. AnalysisInv => TimeoutLockIsNearest
  BY DEF AnalysisInv
<1>. QED BY <1>1, AnalysisInit, AnalysisNext, PTL DEF Spec

(* For any journal, no analysis of a timeout or of a wait shows a row of   *)
(* an earlier transaction of a culprit, or one after the event.            *)
THEOREM NoEarlierTransaction == Spec => []CulpritsInTransaction
<1>1. AnalysisInv => CulpritsInTransaction
  BY DEF AnalysisInv
<1>. QED BY <1>1, AnalysisInit, AnalysisNext, PTL DEF Spec

(* For any journal, the analysis of a deadlock shows both sides: the       *)
(* beginnings of both transactions, both failed locks, and of a role rows  *)
(* of its connection only.                                                 *)
THEOREM BothSidesShown == Spec => []DeadlockSidesShown
<1>1. AnalysisInv => DeadlockSidesShown
  BY DEF AnalysisInv
<1>. QED BY <1>1, AnalysisInit, AnalysisNext, PTL DEF Spec
=============================================================================
