----------------------------- MODULE ViewerProofs -----------------------------
(***************************************************************************)
(* Theorems of Viewer, for any journal, any searches, any height of the    *)
(* window and any scroll page: the painted page is a piece of the text of  *)
(* the events shown, the current event is the one the caret is in and no   *)
(* other is painted grey, a search that succeeds is exact, and what is     *)
(* copied is what was clicked.                                             *)
(***************************************************************************)
EXTENDS Viewer, DataInduction, SequenceTheorems

TableRows == [id : Ids, lines : Nat, agr : Nat]

(* The rows of journal and find_result: in id order, with running totals.  *)
IsTable(t) ==
  /\ t \in Seq(TableRows)
  /\ \A i \in DOMAIN t : /\ t[i].lines = Lines[t[i].id]
                         /\ t[i].agr = (IF i = 1 THEN 0 ELSE t[i - 1].agr) + t[i].lines
  /\ \A i, j \in DOMAIN t : i < j => t[i].id < t[j].id

IdsOf(t) == {t[i].id : i \in DOMAIN t}

Increasing(ids) == \A i, j \in DOMAIN ids : i < j => ids[i] < ids[j]

(* Every event of the journal has a positive number of lines.              *)
LEMMA LinesOfIds ==
  /\ Ids = 1 .. Len(Lines) /\ Len(Lines) \in Nat /\ IsFiniteSet(Ids)
  /\ \A id \in Ids : id \in Nat \ {0} /\ Lines[id] \in Nat \ {0}
<1>1. Ids = 1 .. Len(Lines) /\ Len(Lines) \in Nat
  BY ViewerAssumption, LenProperties DEF Ids
<1>2. \A id \in 1 .. Len(Lines) : Lines[id] \in Nat \ {0}
  BY ViewerAssumption, ElementOfSeq
<1>. QED BY <1>1, <1>2, FS_Interval

(* What a query of ids gives: each of them once, in order.                 *)
LEMMA IdsInOrder ==
  ASSUME NEW S \in SUBSET Ids
  PROVE  \E ids \in [1 .. Cardinality(S) -> S] : Increasing(ids)
<1>. DEFINE F == {T \in SUBSET Ids : \E ids \in [1 .. Cardinality(T) -> T] : Increasing(ids)}
<1>1. {} \in F
  <2>1. << >> \in [1 .. 0 -> {}] /\ Increasing(<< >>)
    BY DEF Increasing
  <2>. QED BY <2>1, FS_EmptySet
<1>2. ASSUME NEW T \in SUBSET Ids, T # {}, \A x \in T : T \ {x} \in F
      PROVE  T \in F
  <2>1. PICK m \in T : \A x \in T : x <= m
    <3>1. T \in SUBSET Nat /\ Len(Lines) \in Nat /\ \A x \in T : x <= Len(Lines)
      BY LinesOfIds
    <3>. QED BY <1>2, <3>1, GreatestElement, Zenon
  <2>. DEFINE n == Cardinality(T)
  <2>2. n \in Nat \ {0} /\ Cardinality(T \ {m}) = n - 1
    <3>1. IsFiniteSet(T)
      BY LinesOfIds, FS_Subset
    <3>. QED BY <2>1, <3>1, FS_RemoveElement, FS_CardinalityType, FS_EmptySet
  <2>3. PICK ids \in [1 .. n - 1 -> T \ {m}] : Increasing(ids)
    <3>1. T \ {m} \in F
      BY <1>2
    <3>. HIDE DEF n
    <3>. QED BY <2>2, <3>1
  <2>. HIDE DEF n
  <2>4. [i \in 1 .. n |-> IF i = n THEN m ELSE ids[i]] \in [1 .. n -> T]
    BY <2>2, <2>3
  <2>5. Increasing([i \in 1 .. n |-> IF i = n THEN m ELSE ids[i]])
    <3>1. ASSUME NEW i \in 1 .. n, NEW j \in 1 .. n, i < j
          PROVE  (IF i = n THEN m ELSE ids[i]) < (IF j = n THEN m ELSE ids[j])
      <4>1. i \in 1 .. n - 1 /\ ids[i] \in T \ {m} /\ ids[i] \in Nat /\ m \in Nat
        <5>1. i \in 1 .. n - 1
          BY <2>2, <3>1
        <5>2. T \subseteq Nat
          BY LinesOfIds
        <5>. QED BY <2>1, <2>3, <5>1, <5>2
      <4>2. CASE j = n
        BY <2>1, <2>2, <4>1, <4>2
      <4>3. CASE j # n
        <5>1. j \in 1 .. n - 1
          BY <2>2, <4>3
        <5>2. ids[i] < ids[j]
          BY <2>3, <3>1, <4>1, <5>1 DEF Increasing
        <5>. QED BY <2>2, <4>1, <4>3, <5>2
      <4>. QED BY <4>2, <4>3
    <3>. QED BY <3>1 DEF Increasing
  <2>. QED BY <2>4, <2>5 DEF n
<1>3. \A T \in SUBSET Ids : T \in F
  <2>1. \A T \in SUBSET Ids : T # {} /\ (\A x \in T : T \ {x} \in F) => T \in F
    BY <1>2
  <2>. HIDE DEF F
  <2>2. IsFiniteSet(Ids)
    BY LinesOfIds
  <2>. QED BY <1>1, <2>1, <2>2, SetInduction, Zenon
<1>. QED BY <1>3

LEMMA InIdOrderIs ==
  ASSUME NEW S \in SUBSET Ids
  PROVE  /\ InIdOrder(S) \in Seq(Ids)
         /\ Increasing(InIdOrder(S))
         /\ {InIdOrder(S)[i] : i \in DOMAIN InIdOrder(S)} = S
<1>. DEFINE n == Cardinality(S)
            ids == InIdOrder(S)
<1>1. ids \in [1 .. n -> S] /\ Increasing(ids)
  <2>. DEFINE Q(f) == \A i, j \in DOMAIN f : i < j => f[i] < f[j]
  <2>1. ids = CHOOSE f \in [1 .. n -> S] : Q(f)
    BY DEF InIdOrder
  <2>2. \E f \in [1 .. n -> S] : Q(f)
    BY IdsInOrder DEF Increasing
  <2>3. ids \in [1 .. n -> S] /\ Q(ids)
    <3>. HIDE DEF Q, n, ids
    <3>. QED BY <2>1, <2>2
  <2>. QED BY <2>3 DEF Increasing
<1>2. IsFiniteSet(S) /\ n \in Nat
  BY LinesOfIds, FS_Subset, FS_CardinalityType
<1>. HIDE DEF ids, n
<1>3. ids \in Injection(1 .. n, S)
  <2>1. \A i \in 1 .. n : ids[i] \in Nat
    BY <1>1, LinesOfIds
  <2>2. \A i, j \in 1 .. n : ids[i] = ids[j] => i = j
    BY <1>1, <1>2, <2>1 DEF Increasing
  <2>. QED BY <1>1, <2>2 DEF Injection, IsInjective
<1>4. ids \in Surjection(1 .. n, S)
  BY <1>2, <1>3, FS_Injection, FS_Interval DEF n
<1>5. {ids[i] : i \in DOMAIN ids} = S
  BY <1>1, <1>4 DEF Surjection
<1>6. ids \in Seq(Ids)
  <2>1. ids \in [1 .. n -> Ids]
    BY <1>1
  <2>. QED BY <1>2, <2>1, SeqDef
<1>. QED BY <1>1, <1>5, <1>6 DEF ids

(* The running totals exist: the recursion that defines them is solved.    *)
LEMMA TotalsExist ==
  ASSUME NEW ids \in Seq(Ids)
  PROVE  \E agr \in [0 .. Len(ids) -> Nat] :
           agr = [i \in 0 .. Len(ids) |-> IF i = 0 THEN 0 ELSE agr[i - 1] + Lines[ids[i]]]
<1>. DEFINE n == Len(ids)
            more(i) == IF i \in 1 .. n THEN Lines[ids[i]] ELSE 0
            step == [x \in Nat \X Int |-> x[1] + more(x[2])]
<1>1. n \in Nat /\ \A i \in 1 .. n : Lines[ids[i]] \in Nat
  BY LinesOfIds, LenProperties, ElementOfSeq
<1>2. step \in [Nat \X Int -> Nat]
  <2>1. \A i : more(i) \in Nat
    BY <1>1
  <2>. HIDE DEF more
  <2>. QED BY <2>1
<1>3. PICK agr \in [0 .. n -> Nat] :
        \A i \in 0 .. n : agr[i] = IF i = 0 THEN 0 ELSE step[<<agr[i - 1], i>>]
  <2>1. 0 \in Int /\ n \in Int /\ 0 \in Nat
    BY <1>1
  <2>. HIDE DEF step, n
  <2>2. \E f \in [0 .. n -> Nat] : Recursion(f, 0, n, 0, step)
    BY <1>2, <2>1, RangeRecursion
  <2>. QED BY <2>2 DEF Recursion
<1>4. ASSUME NEW i \in 0 .. n
      PROVE  agr[i] = IF i = 0 THEN 0 ELSE agr[i - 1] + Lines[ids[i]]
  <2>1. CASE i = 0
    BY <1>3, <2>1
  <2>2. CASE i # 0
    <3>1. i \in 1 .. n /\ i - 1 \in 0 .. n
      BY <1>1, <2>2
    <3>2. agr[i] = step[<<agr[i - 1], i>>]
      BY <1>3, <2>2
    <3>3. <<agr[i - 1], i>> \in Nat \X Int
      BY <1>3, <3>1
    <3>4. step[<<agr[i - 1], i>>] = agr[i - 1] + Lines[ids[i]]
      BY <3>1, <3>3
    <3>. HIDE DEF step, n
    <3>. QED BY <2>2, <3>2, <3>4
  <2>. QED BY <2>1, <2>2
<1>. QED BY <1>3, <1>4

(* Rows with running totals of ids in order are a table.                   *)
LEMMA TotalsAreTable ==
  ASSUME NEW ids \in Seq(Ids), Increasing(ids)
  PROVE  IsTable(Totals(ids)) /\ IdsOf(Totals(ids)) = {ids[i] : i \in DOMAIN ids}
<1>. DEFINE n == Len(ids)
            Solves(f) == f = [i \in 0 .. n |-> IF i = 0 THEN 0 ELSE f[i - 1] + Lines[ids[i]]]
            agr == CHOOSE f : Solves(f)
            t == Totals(ids)
<1>1. n \in Nat /\ DOMAIN ids = 1 .. n /\ \A i \in 1 .. n : ids[i] \in Ids
  BY LenProperties, ElementOfSeq
<1>2. Solves(agr)
  <2>1. \E f : Solves(f)
    BY TotalsExist
  <2>. HIDE DEF Solves
  <2>. QED BY <2>1
<1>3. \A i \in 0 .. n : agr[i] = IF i = 0 THEN 0 ELSE agr[i - 1] + Lines[ids[i]]
  <2>. HIDE DEF agr
  <2>. QED BY <1>2
<1>4. t = [i \in 1 .. n |-> [id |-> ids[i], lines |-> Lines[ids[i]], agr |-> agr[i]]]
  BY <1>1 DEF Totals, Row
<1>. HIDE DEF agr, t
<1>5. \A i \in 0 .. n : agr[i] \in Nat
  <2>. DEFINE T == {i \in 0 .. n : agr[i] \in Nat}
  <2>1. 0 \in T
    BY <1>1, <1>3
  <2>2. ASSUME NEW i \in 0 .. n - 1, i \in T
        PROVE  i + 1 \in T
    <3>1. i + 1 \in 1 .. n /\ i + 1 \in 0 .. n /\ i + 1 # 0 /\ (i + 1) - 1 = i
      BY <1>1
    <3>2. agr[i + 1] = agr[i] + Lines[ids[i + 1]]
      BY <1>3, <3>1
    <3>3. Lines[ids[i + 1]] \in Nat
      BY <1>1, <3>1, LinesOfIds
    <3>. QED BY <2>2, <3>1, <3>2, <3>3
  <2>3. 0 .. n \subseteq T
    <3>1. 0 \in Int /\ n \in Int
      BY <1>1
    <3>2. \A i \in 0 .. n - 1 : i \in T => i + 1 \in T
      BY <2>2
    <3>. HIDE DEF T, n
    <3>. QED BY <2>1, <3>1, <3>2, RangeInduction, Zenon
  <2>. QED BY <2>3
<1>6. \A i \in 1 .. n : t[i] \in TableRows
  BY <1>1, <1>4, <1>5, LinesOfIds DEF TableRows
<1>7. t \in Seq(TableRows) /\ DOMAIN t = 1 .. n
  <2>1. t \in [1 .. n -> TableRows]
    BY <1>4, <1>6
  <2>. QED BY <1>1, <1>4, <2>1, SeqDef
<1>8. \A i \in 1 .. n : /\ t[i].id = ids[i] /\ t[i].lines = Lines[ids[i]] /\ t[i].agr = agr[i]
  BY <1>4
<1>9. \A i \in 1 .. n : t[i].agr = (IF i = 1 THEN 0 ELSE t[i - 1].agr) + t[i].lines
  <2>1. ASSUME NEW i \in 1 .. n
        PROVE  agr[i] = (IF i = 1 THEN 0 ELSE t[i - 1].agr) + Lines[ids[i]]
    <3>1. agr[i] = agr[i - 1] + Lines[ids[i]] /\ agr[0] = 0
      BY <1>1, <1>3
    <3>2. i # 1 => t[i - 1].agr = agr[i - 1]
      BY <1>1, <1>8
    <3>. QED BY <3>1, <3>2
  <2>. QED BY <1>8, <2>1
<1>10. IsTable(t)
  BY <1>1, <1>7, <1>8, <1>9 DEF IsTable, Increasing
<1>11. IdsOf(t) = {ids[i] : i \in DOMAIN ids}
  BY <1>1, <1>7, <1>8 DEF IdsOf
<1>. QED BY <1>10, <1>11 DEF t

(* A table's rows and totals.                                              *)
LEMMA TableIs ==
  ASSUME NEW t, IsTable(t)
  PROVE  /\ DOMAIN t = 1 .. Len(t) /\ Len(t) \in Nat
         /\ \A i \in DOMAIN t : /\ t[i] \in TableRows
                                /\ t[i].id \in Ids /\ t[i].id \in Nat
                                /\ t[i].lines \in Nat \ {0} /\ t[i].lines = Lines[t[i].id]
                                /\ t[i].agr \in Nat /\ t[i].agr >= t[i].lines
         /\ \A i, j \in DOMAIN t : i < j => t[i].agr <= t[j].agr - t[j].lines
<1>1. t \in Seq(TableRows)
  BY DEF IsTable
<1>2. DOMAIN t = 1 .. Len(t) /\ Len(t) \in Nat
  BY <1>1, LenProperties
<1>3. \A i \in DOMAIN t : /\ t[i] \in TableRows
                          /\ t[i].id \in Ids /\ t[i].id \in Nat
                          /\ t[i].lines \in Nat \ {0} /\ t[i].lines = Lines[t[i].id]
                          /\ t[i].agr \in Nat
  <2>1. ASSUME NEW i \in DOMAIN t
        PROVE  t[i] \in TableRows
    BY <1>1, <1>2, ElementOfSeq
  <2>2. \A i \in DOMAIN t : t[i].id \in Ids /\ t[i].agr \in Nat
    BY <2>1 DEF TableRows
  <2>3. \A i \in DOMAIN t : t[i].lines = Lines[t[i].id]
    BY DEF IsTable
  <2>. QED BY <2>1, <2>2, <2>3, LinesOfIds
<1>4. \A i \in DOMAIN t : i # 1 => i - 1 \in DOMAIN t /\ t[i].agr = t[i - 1].agr + t[i].lines
  BY <1>2 DEF IsTable
<1>5. \A i \in DOMAIN t : i = 1 => t[i].agr = t[i].lines
  <2>1. \A i \in DOMAIN t : i = 1 => t[i].agr = 0 + t[i].lines
    BY DEF IsTable
  <2>. QED BY <1>3, <2>1
<1>6. \A i \in DOMAIN t : t[i].agr >= t[i].lines
  BY <1>3, <1>4, <1>5
<1>7. ASSUME NEW i \in DOMAIN t
      PROVE  \A j \in i + 1 .. Len(t) : t[i].agr <= t[j].agr - t[j].lines
  <2>. DEFINE T == {j \in i + 1 .. Len(t) : t[i].agr <= t[j].agr - t[j].lines}
  <2>1. i + 1 <= Len(t) => i + 1 \in T
    <3>1. SUFFICES ASSUME i + 1 <= Len(t) PROVE i + 1 \in T
      OBVIOUS
    <3>2. i + 1 \in DOMAIN t /\ i + 1 # 1 /\ (i + 1) - 1 = i
      BY <1>2, <3>1
    <3>. QED BY <1>2, <1>3, <1>4, <3>1, <3>2
  <2>2. ASSUME NEW j \in i + 1 .. Len(t) - 1, j \in T
        PROVE  j + 1 \in T
    <3>1. /\ j \in DOMAIN t /\ j + 1 \in DOMAIN t /\ j + 1 # 1 /\ (j + 1) - 1 = j
          /\ j + 1 \in i + 1 .. Len(t)
      BY <1>2
    <3>2. /\ t[j + 1].agr = t[j].agr + t[j + 1].lines
          /\ t[i].agr <= t[j].agr - t[j].lines
      BY <1>4, <2>2, <3>1
    <3>3. /\ t[i].agr \in Nat /\ t[j].agr \in Nat /\ t[j].lines \in Nat
          /\ t[j + 1].agr \in Nat /\ t[j + 1].lines \in Nat
      BY <1>3, <3>1
    <3>4. t[i].agr <= t[j + 1].agr - t[j + 1].lines
      BY <3>2, <3>3
    <3>. QED BY <3>1, <3>4
  <2>3. i + 1 .. Len(t) \subseteq T
    <3>1. i + 1 \in Int /\ Len(t) \in Int
      BY <1>2
    <3>2. \A j \in i + 1 .. Len(t) - 1 : j \in T => j + 1 \in T
      BY <2>2
    <3>. HIDE DEF T
    <3>. QED BY <2>1, <3>1, <3>2, RangeInduction, Zenon
  <2>. QED BY <2>3
<1>8. \A i, j \in DOMAIN t : i < j => t[i].agr <= t[j].agr - t[j].lines
  <2>1. \A i, j \in DOMAIN t : i < j => j \in i + 1 .. Len(t)
    BY <1>2
  <2>. QED BY <1>7, <2>1
<1>. QED BY <1>2, <1>3, <1>6, <1>8

(* The total of a table is the total of its last row.                      *)
LEMMA CountLinesIs ==
  ASSUME NEW t, IsTable(t)
  PROVE  /\ CountLines(t) \in Nat
         /\ \A i \in DOMAIN t : t[i].agr <= CountLines(t)
         /\ CountLines(t) # 0 => Len(t) \in DOMAIN t /\ CountLines(t) = t[Len(t)].agr
<1>1. t \in Seq(TableRows)
  BY DEF IsTable
<1>2. CASE t = << >>
  BY <1>2 DEF CountLines
<1>3. CASE t # << >>
  <2>1. Len(t) \in Nat \ {0} /\ DOMAIN t = 1 .. Len(t)
    BY <1>1, <1>3, EmptySeq, LenProperties
  <2>2. Len(t) \in DOMAIN t /\ CountLines(t) = t[Len(t)].agr
    BY <1>3, <2>1 DEF CountLines, Last
  <2>3. \A i \in DOMAIN t : i = Len(t) \/ i < Len(t)
    BY <2>1
  <2>. QED BY <2>2, <2>3, TableIs
<1>. QED BY <1>2, <1>3

(* The first rows of a table are a table.                                  *)
LEMMA PrefixIsTable ==
  ASSUME NEW t, IsTable(t), NEW n \in 0 .. Len(t)
  PROVE  IsTable(SubSeq(t, 1, n))
<1>. DEFINE s == SubSeq(t, 1, n)
<1>1. DOMAIN t = 1 .. Len(t) /\ Len(t) \in Nat /\ \A i \in 1 .. n : t[i] \in TableRows
  BY TableIs
<1>2. s \in Seq(TableRows) /\ Len(s) = n /\ \A i \in 1 .. n : s[i] = t[i]
  <2>1. /\ s \in Seq(TableRows) /\ Len(s) = IF 1 <= n THEN n - 1 + 1 ELSE 0
        /\ \A i \in 1 .. n - 1 + 1 : s[i] = t[1 + i - 1]
    <3>1. 1 \in Int /\ n \in Int
      OBVIOUS
    <3>. QED BY <1>1, <3>1, SubSeqProperties
  <2>2. \A i \in 1 .. n : 1 + i - 1 = i
    OBVIOUS
  <2>3. n - 1 + 1 = n /\ (~(1 <= n) => n = 0)
    OBVIOUS
  <2>. HIDE DEF s
  <2>. QED BY <2>1, <2>2, <2>3
<1>. HIDE DEF s
<1>3. DOMAIN s = 1 .. n
  BY <1>2, LenProperties
<1>4. \A i \in 1 .. n : /\ i \in DOMAIN t /\ s[i] = t[i]
                        /\ i # 1 => i - 1 \in 1 .. n /\ s[i - 1] = t[i - 1]
  BY <1>1, <1>2
<1>5. \A i \in DOMAIN s : /\ s[i].lines = Lines[s[i].id]
                          /\ s[i].agr = (IF i = 1 THEN 0 ELSE s[i - 1].agr) + s[i].lines
  BY <1>3, <1>4 DEF IsTable
<1>6. \A i, j \in DOMAIN s : i < j => s[i].id < s[j].id
  BY <1>3, <1>4 DEF IsTable
<1>7. IsTable(s)
  BY <1>2, <1>5, <1>6 DEF IsTable
<1>. QED BY <1>7 DEF s

LEMMA EmptyIsTable == IsTable(<< >>) /\ IdsOf(<< >>) = {}
BY EmptySeq DEF IsTable, IdsOf

(* The tables of the viewer: the journal and what a search puts into       *)
(* find_result.                                                            *)
LEMMA JournalIsTable == IsTable(Journal) /\ IdsOf(Journal) = Ids
<1>1. Ids \in SUBSET Ids
  OBVIOUS
<1>. QED BY <1>1, InIdOrderIs, TotalsAreTable DEF Journal

LEMMA FindRowsAreTable ==
  ASSUME NEW q \in Queries
  PROVE  IsTable(FindRows(q)) /\ IdsOf(FindRows(q)) = Matches[q]
<1>1. Matches[q] \in SUBSET Ids
  BY ViewerAssumption
<1>. QED BY <1>1, InIdOrderIs, TotalsAreTable DEF FindRows

-----------------------------------------------------------------------------
(* What the reading operations return.                                     *)

(* Line l of the text of a table is line k of row r.                       *)
LineOf(t, r, k, l) == k \in 1 .. t[r].lines /\ t[r].agr - t[r].lines + k = l

(* LoadJournal returns neighbouring rows, from the one line start is in.   *)
LEMMA LoadJournalIs ==
  ASSUME NEW t, IsTable(t), NEW start \in Nat \ {0}, NEW count \in Nat
  PROVE  \/ start > CountLines(t) /\ LoadJournal(t, start, count) = << >>
         \/ /\ start <= CountLines(t)
            /\ \E f \in DOMAIN t, l \in DOMAIN t :
                 /\ f <= l /\ (count = 0 => f = l)
                 /\ t[f].agr - t[f].lines < start /\ start <= t[f].agr
                 /\ LoadJournal(t, start, count) = SubSeq(t, f, l)
<1>. DEFINE reaching(n) == {i \in DOMAIN t : t[i].agr >= n}
            first(n) == CHOOSE i \in reaching(n) : \A j \in reaching(n) : i <= j
<1>1. DOMAIN t = 1 .. Len(t) /\ Len(t) \in Nat /\ \A i \in DOMAIN t : t[i].agr \in Nat /\ t[i].lines \in Nat
  BY TableIs
<1>2. LoadJournal(t, start, count) =
        IF reaching(start) = {} THEN << >>
        ELSE SubSeq(t, first(start),
                    IF reaching(start + count) = {} THEN Len(t) ELSE first(start + count))
  BY DEF LoadJournal
<1>3. ASSUME NEW n \in Nat, reaching(n) # {}
      PROVE  first(n) \in reaching(n) /\ \A j \in reaching(n) : first(n) <= j
  <2>1. reaching(n) \in SUBSET Nat
    BY <1>1
  <2>2. \E i \in reaching(n) : \A j \in reaching(n) : i <= j
    <3>. HIDE DEF reaching
    <3>. QED BY <1>3, <2>1, LeastElement
  <2>. HIDE DEF reaching
  <2>. QED BY <2>2
<1>4. CASE reaching(start) = {}
  <2>1. CountLines(t) < start
    <3>1. CASE CountLines(t) = 0
      BY <3>1
    <3>2. CASE CountLines(t) # 0
      BY <1>1, <1>4, <3>2, CountLinesIs
    <3>. QED BY <3>1, <3>2
  <2>2. CountLines(t) \in Nat
    BY CountLinesIs
  <2>. QED BY <1>2, <1>4, <2>1, <2>2
<1>5. CASE reaching(start) # {}
  <2>. DEFINE f == first(start)
              l == IF reaching(start + count) = {} THEN Len(t) ELSE first(start + count)
  <2>1. f \in DOMAIN t /\ t[f].agr >= start /\ \A j \in DOMAIN t : t[j].agr >= start => f <= j
    <3>1. f \in reaching(start) /\ \A j \in reaching(start) : f <= j
      <4>. HIDE DEF reaching, first
      <4>. QED BY <1>3, <1>5
    <3>. HIDE DEF f
    <3>. QED BY <3>1
  <2>2. l \in DOMAIN t /\ f <= l
    <3>1. CASE reaching(start + count) = {}
      <4>1. l = Len(t)
        BY <3>1
      <4>. HIDE DEF l, f
      <4>. QED BY <1>1, <2>1, <4>1
    <3>2. CASE reaching(start + count) # {}
      <4>1. l \in reaching(start + count)
        <5>1. start + count \in Nat
          OBVIOUS
        <5>. HIDE DEF reaching, first
        <5>. QED BY <1>3, <3>2, <5>1
      <4>. HIDE DEF l, f
      <4>2. l \in DOMAIN t /\ t[l].agr >= start
        BY <1>1, <4>1
      <4>. QED BY <2>1, <4>2
    <3>. QED BY <3>1, <3>2
  <2>3. count = 0 => f = l
    <3>1. SUFFICES ASSUME count = 0 PROVE f = l
      OBVIOUS
    <3>2. start + count = start
      BY <3>1
    <3>. HIDE DEF reaching, first
    <3>. QED BY <1>5, <3>2
  <2>4. LoadJournal(t, start, count) = SubSeq(t, f, l)
    <3>. HIDE DEF reaching, first
    <3>. QED BY <1>2, <1>5
  <2>. HIDE DEF f, l
  <2>5. t[f].agr - t[f].lines < start
    <3>1. CASE f = 1
      <4>1. t[f].agr = 0 + t[f].lines
        BY <2>1, <3>1 DEF IsTable
      <4>. QED BY <1>1, <2>1, <4>1
    <3>2. CASE f # 1
      <4>1. f - 1 \in DOMAIN t /\ t[f].agr = t[f - 1].agr + t[f].lines
        BY <1>1, <2>1, <3>2 DEF IsTable
      <4>2. ~(t[f - 1].agr >= start)
        BY <1>1, <2>1, <4>1
      <4>. QED BY <1>1, <2>1, <4>1, <4>2
    <3>. QED BY <3>1, <3>2
  <2>6. start <= CountLines(t)
    BY <1>1, <2>1, CountLinesIs
  <2>. QED BY <1>1, <2>1, <2>2, <2>3, <2>4, <2>5, <2>6
<1>. QED BY <1>4, <1>5

(* GetEvent returns the row the line is in.                                *)
LEMMA GetEventIs ==
  ASSUME NEW t, IsTable(t), NEW line \in Nat \ {0}
  PROVE  \/ line > CountLines(t) /\ GetEvent(t, line) = DefaultEvent
         \/ \E r \in DOMAIN t : GetEvent(t, line) = t[r] /\ \E k \in Nat : LineOf(t, r, k, line)
<1>1. CASE line > CountLines(t) /\ LoadJournal(t, line, 0) = << >>
  BY <1>1 DEF GetEvent
<1>2. ASSUME NEW f \in DOMAIN t, NEW l \in DOMAIN t, f = l,
             t[f].agr - t[f].lines < line, line <= t[f].agr,
             LoadJournal(t, line, 0) = SubSeq(t, f, l)
      PROVE  GetEvent(t, line) = t[f] /\ \E k \in Nat : LineOf(t, f, k, line)
  <2>1. /\ f \in 1 .. Len(t) /\ l \in f .. Len(t) /\ t \in Seq(TableRows)
        /\ t[f].agr \in Nat /\ t[f].lines \in Nat
    <3>1. t \in Seq(TableRows) /\ t[f].agr \in Nat /\ t[f].lines \in Nat
      BY TableIs DEF IsTable
    <3>2. DOMAIN t = 1 .. Len(t) /\ Len(t) \in Nat
      BY <3>1, LenProperties
    <3>. QED BY <1>2, <3>1, <3>2
  <2>2. Head(SubSeq(t, f, l)) = t[f] /\ Len(SubSeq(t, f, l)) = 1
    <3>1. Head(SubSeq(t, f, l)) = t[f]
      BY <2>1, HeadTailOfSubSeq
    <3>2. f \in Int /\ l \in Int /\ \A i \in f .. l : t[i] \in TableRows
      BY <2>1, ElementOfSeq
    <3>3. Len(SubSeq(t, f, l)) = IF f <= l THEN l - f + 1 ELSE 0
      BY <3>2, SubSeqProperties
    <3>4. f <= l /\ l - f + 1 = 1
      BY <1>2, <2>1
    <3>. QED BY <3>1, <3>3, <3>4
  <2>3. GetEvent(t, line) = t[f]
    BY <1>2, <2>2 DEF GetEvent
  <2>4. \E k \in Nat : LineOf(t, f, k, line)
    <3>. DEFINE a == t[f].agr
                n == t[f].lines
    <3>1. a \in Nat /\ n \in Nat /\ a - n < line /\ line <= a
      BY <1>2, <2>1
    <3>. HIDE DEF a, n
    <3>2. \E k \in Nat : k \in 1 .. n /\ a - n + k = line
      <4>1. line - (a - n) \in Nat /\ a - n + (line - (a - n)) = line
        BY <3>1
      <4>2. line - (a - n) \in 1 .. n
        BY <3>1
      <4>. QED BY <4>1, <4>2
    <3>. QED BY <3>2 DEF LineOf, a, n
  <2>. QED BY <2>3, <2>4
<1>. QED BY <1>1, <1>2, LoadJournalIs

(* FlattenSeq puts the sequences one after the other.                      *)
LEMMA FlattenSteps ==
  ASSUME NEW L, NEW seqs \in Seq(Seq(L)), seqs # << >>
  PROVE  \E fl \in [1 .. Len(seqs) -> Seq(L)] :
           /\ fl[1] = seqs[1]
           /\ \A i \in 2 .. Len(seqs) : fl[i] = fl[i - 1] \o seqs[i]
           /\ FlattenSeq(seqs) = fl[Len(seqs)]
<1>. DEFINE n == Len(seqs)
            Solves(f) == f = [i \in 1 .. n |-> IF i = 1 THEN seqs[i] ELSE f[i - 1] \o seqs[i]]
            fl == CHOOSE f : Solves(f)
            more(i) == IF i \in 1 .. n THEN seqs[i] ELSE << >>
            step == [x \in Seq(L) \X Int |-> x[1] \o more(x[2])]
<1>1. n \in Nat \ {0} /\ \A i \in 1 .. n : seqs[i] \in Seq(L)
  BY EmptySeq, ElementOfSeq
<1>2. step \in [Seq(L) \X Int -> Seq(L)]
  <2>1. \A i : more(i) \in Seq(L)
    BY <1>1, EmptySeq
  <2>. HIDE DEF more
  <2>2. \A s \in Seq(L) : \A i : s \o more(i) \in Seq(L)
    BY <2>1, ConcatProperties
  <2>3. \A x \in Seq(L) \X Int : x[1] \o more(x[2]) \in Seq(L)
    BY <2>2
  <2>. QED BY <2>3
<1>3. \E f : Solves(f) /\ f \in [1 .. n -> Seq(L)]
  <2>1. PICK f \in [1 .. n -> Seq(L)] : Recursion(f, 1, n, seqs[1], step)
    <3>1. 1 \in Int /\ n \in Int /\ seqs[1] \in Seq(L)
      BY <1>1
    <3>. HIDE DEF step, n
    <3>. QED BY <1>2, <3>1, RangeRecursion
  <2>2. ASSUME NEW i \in 1 .. n
        PROVE  f[i] = IF i = 1 THEN seqs[i] ELSE f[i - 1] \o seqs[i]
    <3>1. CASE i = 1
      BY <2>1, <3>1 DEF Recursion
    <3>2. CASE i # 1
      <4>1. i - 1 \in 1 .. n /\ i \in Int
        BY <1>1, <3>2
      <4>2. f[i] = step[<<f[i - 1], i>>]
        <5>. HIDE DEF step, n
        <5>. QED BY <2>1, <3>2 DEF Recursion
      <4>3. <<f[i - 1], i>> \in Seq(L) \X Int
        BY <2>1, <4>1
      <4>4. step[<<f[i - 1], i>>] = f[i - 1] \o seqs[i]
        BY <4>3
      <4>. HIDE DEF step, n
      <4>. QED BY <3>2, <4>2, <4>4
    <3>. QED BY <3>1, <3>2
  <2>3. f = [i \in 1 .. n |-> IF i = 1 THEN seqs[i] ELSE f[i - 1] \o seqs[i]]
    <3>. HIDE DEF n
    <3>. QED BY <2>1, <2>2
  <2>. QED BY <2>1, <2>3
<1>4. Solves(fl)
  <2>1. \E f : Solves(f)
    BY <1>3
  <2>. HIDE DEF Solves
  <2>. QED BY <2>1
<1>5. FlattenSeq(seqs) = fl[n]
  BY <1>1 DEF FlattenSeq
<1>. HIDE DEF fl, n
<1>6. \A i \in 1 .. n : fl[i] = IF i = 1 THEN seqs[i] ELSE fl[i - 1] \o seqs[i]
  BY <1>4
<1>7. \A i \in 1 .. n : fl[i] \in Seq(L)
  <2>. DEFINE T == {i \in 1 .. n : fl[i] \in Seq(L)}
  <2>1. 1 <= n => 1 \in T
    BY <1>1, <1>6
  <2>2. ASSUME NEW i \in 1 .. n - 1, i \in T
        PROVE  i + 1 \in T
    <3>1. i + 1 \in 1 .. n /\ i + 1 # 1 /\ (i + 1) - 1 = i
      BY <1>1
    <3>2. fl[i + 1] = fl[i] \o seqs[i + 1]
      BY <1>6, <3>1
    <3>3. fl[i] \in Seq(L) /\ seqs[i + 1] \in Seq(L)
      BY <1>1, <2>2, <3>1
    <3>. QED BY <3>1, <3>2, <3>3, ConcatProperties
  <2>3. 1 .. n \subseteq T
    <3>1. 1 \in Int /\ n \in Int
      BY <1>1
    <3>2. \A i \in 1 .. n - 1 : i \in T => i + 1 \in T
      BY <2>2
    <3>. HIDE DEF T
    <3>. QED BY <2>1, <3>1, <3>2, RangeInduction, Zenon
  <2>. QED BY <2>3
<1>8. fl \in [1 .. n -> Seq(L)]
  <2>1. fl = [i \in 1 .. n |-> IF i = 1 THEN seqs[i] ELSE fl[i - 1] \o seqs[i]]
    BY <1>4
  <2>. QED BY <1>7, <2>1
<1>9. fl[1] = seqs[1] /\ \A i \in 2 .. n : fl[i] = fl[i - 1] \o seqs[i]
  <2>1. 1 \in 1 .. n /\ \A i \in 2 .. n : i \in 1 .. n /\ i # 1
    BY <1>1
  <2>. QED BY <1>6, <2>1
<1>. QED BY <1>5, <1>8, <1>9 DEF n

(* The lines of neighbouring rows f .. l, numbered from the first one's.   *)
LEMMA LinesOfRows ==
  ASSUME NEW t, IsTable(t), NEW f \in DOMAIN t, NEW l \in DOMAIN t, f <= l
  PROVE  LET events == SubSeq(t, f, l)
             lines  == FlattenSeq([i \in DOMAIN events |-> AsWStrings(events[i])])
             base   == t[f].agr - t[f].lines
         IN  /\ events # << >> /\ Head(events) = t[f]
             /\ lines \in Seq(Ids \X Nat) /\ Len(lines) = t[l].agr - base
             /\ \A p \in 1 .. Len(lines) :
                  \E r \in DOMAIN t, k \in Nat :
                    lines[p] = <<t[r].id, k>> /\ LineOf(t, r, k, base + p)
<1>. DEFINE events == SubSeq(t, f, l)
            seqs   == [i \in DOMAIN events |-> AsWStrings(events[i])]
            base   == t[f].agr - t[f].lines
            n      == l - f + 1
            L      == Ids \X Nat
<1>1. /\ DOMAIN t = 1 .. Len(t) /\ Len(t) \in Nat /\ t \in Seq(TableRows)
      /\ \A i \in DOMAIN t : /\ t[i].id \in Ids /\ t[i].lines \in Nat \ {0}
                             /\ t[i].agr \in Nat /\ t[i].agr >= t[i].lines
  BY TableIs DEF IsTable
<1>2. n \in Nat \ {0} /\ \A i \in 1 .. n : f + i - 1 \in DOMAIN t
  BY <1>1
<1>3. /\ events \in Seq(TableRows) /\ DOMAIN events = 1 .. n /\ Len(events) = n
      /\ \A i \in 1 .. n : events[i] = t[f + i - 1]
  <2>1. f \in Int /\ l \in Int /\ \A i \in f .. l : t[i] \in TableRows
    BY <1>1, ElementOfSeq
  <2>2. /\ events \in Seq(TableRows)
        /\ Len(events) = IF f <= l THEN l - f + 1 ELSE 0
        /\ \A i \in 1 .. l - f + 1 : events[i] = t[f + i - 1]
    BY <2>1, SubSeqProperties
  <2>. HIDE DEF events
  <2>. QED BY <2>2, LenProperties
<1>4. events # << >> /\ Head(events) = t[f]
  <2>1. events # << >>
    <3>. HIDE DEF events, n
    <3>. QED BY <1>2, <1>3
  <2>2. f \in 1 .. Len(t) /\ l \in f .. Len(t)
    BY <1>1
  <2>. QED BY <1>1, <2>1, <2>2, HeadTailOfSubSeq
<1>. HIDE DEF events
<1>5. \A i \in 1 .. n : /\ seqs[i] \in Seq(L) /\ Len(seqs[i]) = t[f + i - 1].lines
                        /\ \A k \in 1 .. t[f + i - 1].lines : seqs[i][k] = <<t[f + i - 1].id, k>>
  <2>1. ASSUME NEW r \in DOMAIN t
        PROVE  /\ AsWStrings(t[r]) \in Seq(L) /\ Len(AsWStrings(t[r])) = t[r].lines
               /\ \A k \in 1 .. t[r].lines : AsWStrings(t[r])[k] = <<t[r].id, k>>
    <3>1. AsWStrings(t[r]) \in [1 .. t[r].lines -> L]
      BY <1>1 DEF AsWStrings
    <3>2. AsWStrings(t[r]) \in Seq(L)
      <4>1. t[r].lines \in Nat
        BY <1>1
      <4>. HIDE DEF L
      <4>. QED BY <3>1, <4>1, SeqDef
    <3>. HIDE DEF L
    <3>3. Len(AsWStrings(t[r])) = t[r].lines
      BY <1>1, <3>1, <3>2, LenProperties
    <3>. QED BY <3>2, <3>3 DEF AsWStrings
  <2>2. \A i \in 1 .. n : seqs[i] = AsWStrings(t[f + i - 1])
    <3>. HIDE DEF n
    <3>. QED BY <1>3
  <2>. HIDE DEF seqs, n, L
  <2>. QED BY <1>2, <2>1, <2>2
<1>6. seqs \in Seq(Seq(L)) /\ Len(seqs) = n /\ seqs # << >>
  <2>1. seqs \in [1 .. n -> Seq(L)]
    <3>1. DOMAIN seqs = 1 .. n
      BY <1>3
    <3>2. \A i \in 1 .. n : seqs[i] \in Seq(L)
      BY <1>5
    <3>3. seqs = [i \in 1 .. n |-> seqs[i]]
      <4>. HIDE DEF n
      <4>. QED BY <1>3
    <3>. HIDE DEF seqs, n, L
    <3>. QED BY <3>2, <3>3
  <2>. HIDE DEF seqs, n, L
  <2>2. seqs \in Seq(Seq(L))
    BY <1>2, <2>1, SeqDef
  <2>. QED BY <1>2, <2>1, <2>2, LenProperties, EmptySeq
<1>. HIDE DEF seqs, L
<1>7. PICK fl \in [1 .. n -> Seq(L)] :
        /\ fl[1] = seqs[1]
        /\ \A i \in 2 .. n : fl[i] = fl[i - 1] \o seqs[i]
        /\ FlattenSeq(seqs) = fl[n]
  <2>. HIDE DEF n
  <2>. QED BY <1>6, FlattenSteps
<1>. DEFINE Good(i) ==
        /\ Len(fl[i]) = t[f + i - 1].agr - base
        /\ \A p \in 1 .. Len(fl[i]) :
             \E r \in DOMAIN t, k \in Nat : fl[i][p] = <<t[r].id, k>> /\ LineOf(t, r, k, base + p)
<1>8. base \in Nat
  BY <1>1
<1>9. Good(1)
  <2>1. 1 \in 1 .. n /\ f + 1 - 1 = f
    BY <1>1, <1>2
  <2>2. /\ Len(fl[1]) = t[f].lines
        /\ \A k \in 1 .. t[f].lines : fl[1][k] = <<t[f].id, k>>
    BY <1>5, <1>7, <2>1
  <2>3. Len(fl[1]) = t[f].agr - base
    BY <1>1, <2>2
  <2>4. \A k \in 1 .. t[f].lines : k \in Nat /\ LineOf(t, f, k, base + k)
    BY DEF LineOf
  <2>. HIDE DEF n, base
  <2>. QED BY <2>1, <2>2, <2>3, <2>4
<1>10. ASSUME NEW i \in 1 .. n - 1, Good(i)
       PROVE  Good(i + 1)
  <2>. DEFINE r1 == f + i
  <2>1. /\ i \in 1 .. n /\ i + 1 \in 2 .. n /\ i + 1 \in 1 .. n /\ (i + 1) - 1 = i
        /\ f + (i + 1) - 1 = r1 /\ r1 \in DOMAIN t
        /\ f + i - 1 = r1 - 1 /\ r1 - 1 \in DOMAIN t /\ r1 # 1
    BY <1>1, <1>2
  <2>2. t[r1].agr = t[r1 - 1].agr + t[r1].lines
    BY <2>1 DEF IsTable
  <2>3. fl[i] \in Seq(L) /\ seqs[i + 1] \in Seq(L) /\ fl[i + 1] = fl[i] \o seqs[i + 1]
    BY <1>5, <1>7, <2>1
  <2>4. /\ Len(fl[i]) = t[r1 - 1].agr - base /\ Len(seqs[i + 1]) = t[r1].lines
        /\ Len(fl[i]) \in Nat
    <3>1. Len(fl[i]) \in Nat
      BY <2>3, LenProperties
    <3>2. Len(fl[i]) = t[r1 - 1].agr - base
      BY <1>10, <2>1
    <3>3. Len(seqs[i + 1]) = t[r1].lines
      BY <1>5, <2>1
    <3>. QED BY <3>1, <3>2, <3>3
  <2>5. /\ Len(fl[i + 1]) = Len(fl[i]) + t[r1].lines
        /\ \A p \in 1 .. Len(fl[i]) + t[r1].lines :
             fl[i + 1][p] = IF p <= Len(fl[i]) THEN fl[i][p] ELSE seqs[i + 1][p - Len(fl[i])]
    <3>. DEFINE a == fl[i]
                b == seqs[i + 1]
    <3>1. a \in Seq(L) /\ b \in Seq(L) /\ fl[i + 1] = a \o b /\ Len(b) = t[r1].lines
      BY <2>3, <2>4
    <3>. HIDE DEF a, b, r1, n, base
    <3>2. /\ Len(a \o b) = Len(a) + Len(b)
          /\ \A p \in 1 .. Len(a) + Len(b) : (a \o b)[p] = IF p <= Len(a) THEN a[p] ELSE b[p - Len(a)]
      BY <3>1, ConcatProperties
    <3>. QED BY <3>1, <3>2 DEF a, b
  <2>6. Len(fl[i + 1]) = t[r1].agr - base
    <3>1. t[r1 - 1].agr \in Nat /\ t[r1].lines \in Nat
      BY <1>1, <2>1
    <3>. HIDE DEF r1, n, base
    <3>. QED BY <1>8, <2>2, <2>4, <2>5, <3>1
  <2>7. ASSUME NEW p \in 1 .. Len(fl[i + 1])
        PROVE  \E r \in DOMAIN t, k \in Nat :
                 fl[i + 1][p] = <<t[r].id, k>> /\ LineOf(t, r, k, base + p)
    <3>1. CASE p <= Len(fl[i])
      <4>1. p \in 1 .. Len(fl[i]) /\ fl[i + 1][p] = fl[i][p]
        <5>1. t[r1].lines \in Nat
          BY <1>1, <2>1
        <5>. HIDE DEF r1, n, base
        <5>. QED BY <2>4, <2>5, <3>1, <5>1
      <4>. QED BY <1>10, <4>1
    <3>2. CASE p > Len(fl[i])
      <4>. DEFINE q == Len(fl[i])
                  l1 == t[r1].lines
                  above == t[r1 - 1].agr
                  k == p - q
      <4>1. l1 \in Nat /\ above \in Nat /\ base \in Nat /\ q \in Nat /\ ~(p <= q)
        BY <1>1, <1>8, <2>1, <2>4, <3>2
      <4>2. q = above - base /\ p \in 1 .. q + l1 /\ t[r1].agr = above + l1
        BY <2>2, <2>4, <2>5
      <4>3. k \in Nat /\ k \in 1 .. l1 /\ above + k = base + p
        <5>. HIDE DEF q, l1, above, base
        <5>. QED BY <4>1, <4>2
      <4>4. fl[i + 1][p] = <<t[r1].id, k>>
        <5>1. fl[i + 1][p] = seqs[i + 1][k]
          <6>. HIDE DEF r1, n, base
          <6>. QED BY <2>5, <4>1, <4>2
        <5>2. seqs[i + 1][k] = <<t[r1].id, k>>
          <6>. HIDE DEF k
          <6>. QED BY <1>5, <2>1, <4>3
        <5>. QED BY <5>1, <5>2
      <4>5. t[r1].agr - t[r1].lines + k = base + p
        <5>. DEFINE a1 == t[r1].agr
        <5>1. a1 = above + l1
          BY <4>2
        <5>2. a1 - l1 + k = base + p
          <6>. HIDE DEF q, l1, above, base, k, a1
          <6>. QED BY <4>1, <4>3, <5>1
        <5>. HIDE DEF base, k
        <5>. QED BY <5>2
      <4>. HIDE DEF k, r1, n, base
      <4>. QED BY <2>1, <4>3, <4>4, <4>5 DEF LineOf
    <3>. QED BY <2>4, <3>1, <3>2
  <2>8. f + (i + 1) - 1 = r1
    BY <2>1
  <2>. HIDE DEF r1, n, base
  <2>. QED BY <2>6, <2>7, <2>8
<1>11. Good(n)
  <2>. DEFINE T == {i \in 1 .. n : Good(i)}
  <2>. HIDE DEF Good
  <2>1. 1 <= n => 1 \in T
    BY <1>2, <1>9
  <2>2. \A i \in 1 .. n - 1 : i \in T => i + 1 \in T
    <3>1. \A i \in 1 .. n - 1 : i + 1 \in 1 .. n
      BY <1>2
    <3>. HIDE DEF n
    <3>. QED BY <1>10, <3>1
  <2>3. 1 .. n \subseteq T
    <3>1. 1 \in Int /\ n \in Int
      BY <1>2
    <3>. HIDE DEF T, n
    <3>. QED BY <2>1, <2>2, <3>1, RangeInduction, Zenon
  <2>. QED BY <1>2, <2>3
<1>12. f + n - 1 = l
  BY <1>1
<1>13. fl[n] \in Seq(Ids \X Nat)
  <2>. HIDE DEF n
  <2>. QED BY <1>2, <1>7 DEF L
<1>14. FlattenSeq([i \in DOMAIN events |-> AsWStrings(events[i])]) = fl[n]
  BY <1>7 DEF seqs
<1>. HIDE DEF n, base
<1>. QED BY <1>4, <1>11, <1>12, <1>13, <1>14 DEF events, base

(* What a page shows that begins with line start of a table's text.        *)
PageOf(t, start, page) ==
  /\ page \in Seq(Ids \X Nat)
  /\ page = << >> <=> start > CountLines(t)
  /\ \A i \in DOMAIN page :
       \E r \in DOMAIN t, k \in Nat : page[i] = <<t[r].id, k>> /\ LineOf(t, r, k, start + i - 1)

LEMMA GetLinesIs ==
  ASSUME NEW t, IsTable(t), NEW start \in Nat \ {0}, NEW count \in Nat
  PROVE  PageOf(t, start, GetLines(t, start, count))
<1>. DEFINE events == LoadJournal(t, start, count)
            lines  == FlattenSeq([i \in DOMAIN events |-> AsWStrings(events[i])])
            curLine == Head(events).agr - Head(events).lines + 1
            last   == Min({Len(lines), start + count - curLine + 1})
            page   == GetLines(t, start, count)
<1>1. page = IF events = << >> THEN << >> ELSE SubSeq(lines, start - curLine + 1, last)
  BY DEF GetLines
<1>2. CountLines(t) \in Nat
  BY CountLinesIs
<1>3. ASSUME start > CountLines(t), events = << >>
      PROVE  PageOf(t, start, page)
  BY <1>1, <1>3, EmptySeq DEF PageOf
<1>4. ASSUME start <= CountLines(t),
             NEW f \in DOMAIN t, NEW l \in DOMAIN t, f <= l,
             t[f].agr - t[f].lines < start, start <= t[f].agr,
             events = SubSeq(t, f, l)
      PROVE  PageOf(t, start, page)
  <2>. DEFINE base == t[f].agr - t[f].lines
              n    == Len(lines)
  <2>1. /\ events # << >> /\ Head(events) = t[f]
        /\ lines \in Seq(Ids \X Nat) /\ n = t[l].agr - base
        /\ \A p \in 1 .. n : \E r \in DOMAIN t, k \in Nat :
                               lines[p] = <<t[r].id, k>> /\ LineOf(t, r, k, base + p)
    <3>. DEFINE ev == SubSeq(t, f, l)
                ls == FlattenSeq([i \in DOMAIN ev |-> AsWStrings(ev[i])])
    <3>1. /\ ev # << >> /\ Head(ev) = t[f]
          /\ ls \in Seq(Ids \X Nat) /\ Len(ls) = t[l].agr - base
          /\ \A p \in 1 .. Len(ls) : \E r \in DOMAIN t, k \in Nat :
                                     ls[p] = <<t[r].id, k>> /\ LineOf(t, r, k, base + p)
      BY <1>4, LinesOfRows
    <3>2. events = ev
      BY <1>4
    <3>. HIDE DEF events, ev, base
    <3>3. lines = ls
      BY <3>2
    <3>. HIDE DEF lines, ls
    <3>. QED BY <3>1, <3>2, <3>3
  <2>2. curLine = base + 1
    <3>. HIDE DEF events
    <3>. QED BY <2>1
  <2>3. base \in Nat /\ base < start /\ n \in Nat /\ start - base <= n
    <3>1. /\ t[f].agr \in Nat /\ t[f].lines \in Nat /\ t[f].agr >= t[f].lines
          /\ t[l].agr \in Nat /\ t[l].lines \in Nat /\ t[f].agr <= t[l].agr
      <4>1. \A i \in DOMAIN t : t[i].agr \in Nat /\ t[i].lines \in Nat /\ t[i].agr >= t[i].lines
        BY TableIs
      <4>2. CASE f = l
        BY <4>1, <4>2
      <4>3. CASE f # l
        <5>1. f < l
          BY <1>4, <4>3, TableIs
        <5>2. t[f].agr <= t[l].agr - t[l].lines
          BY <5>1, TableIs
        <5>. QED BY <4>1, <5>2
      <4>. QED BY <4>2, <4>3
    <3>. HIDE DEF n
    <3>. QED BY <1>4, <2>1, <3>1
  <2>. DEFINE first == start - base
              e     == Min({n, start + count - base})
  <2>. HIDE DEF base, n, lines, events, page
  <2>4. e \in Nat /\ first <= e /\ e <= n
    <3>1. \A x, y \in Nat : Min({x, y}) = IF x <= y THEN x ELSE y
      <4>1. ASSUME NEW x \in Nat, NEW y \in Nat
            PROVE  Min({x, y}) \in {x, y} /\ Min({x, y}) <= x /\ Min({x, y}) <= y
        <5>1. \E m \in {x, y} : \A u \in {x, y} : m <= u
          BY <4>1
        <5>. QED BY <5>1 DEF Min
      <4>. QED BY <4>1
    <3>2. start + count - base \in Nat
      BY <2>3
    <3>. QED BY <2>3, <3>1, <3>2
  <2>. HIDE DEF e
  <2>5. page = SubSeq(lines, first, e)
    <3>1. start - (base + 1) + 1 = first /\ start + count - (base + 1) + 1 = start + count - base
      BY <2>3
    <3>. QED BY <1>1, <2>1, <2>2, <3>1 DEF e, n
  <2>6. first \in Int /\ e \in Int /\ \A p \in first .. e : p \in 1 .. n
    BY <2>3, <2>4
  <2>. HIDE DEF first
  <2>7. /\ page \in Seq(Ids \X Nat) /\ Len(page) = e - first + 1
        /\ \A i \in 1 .. e - first + 1 : page[i] = lines[first + i - 1]
    <3>1. \A p \in first .. e : lines[p] \in Ids \X Nat
      BY <2>1, <2>6, ElementOfSeq DEF n
    <3>. QED BY <2>4, <2>5, <2>6, <3>1, SubSeqProperties
  <2>8. page # << >>
    <3>1. Len(page) >= 1
      BY <2>4, <2>6, <2>7
    <3>. QED BY <3>1
  <2>9. ASSUME NEW i \in DOMAIN page
        PROVE  \E r \in DOMAIN t, k \in Nat :
                 page[i] = <<t[r].id, k>> /\ LineOf(t, r, k, start + i - 1)
    <3>1. i \in 1 .. e - first + 1
      BY <2>7, LenProperties
    <3>2. first + i - 1 \in 1 .. n /\ page[i] = lines[first + i - 1]
      BY <2>4, <2>6, <2>7, <3>1
    <3>3. base + (first + i - 1) = start + i - 1
      BY <2>3, <3>1 DEF first
    <3>. QED BY <2>1, <3>2, <3>3
  <2>. QED BY <1>2, <1>4, <2>7, <2>8, <2>9 DEF PageOf
<1>. HIDE DEF page, events
<1>5. PageOf(t, start, page)
  BY <1>3, <1>4, LoadJournalIs DEF events
<1>. QED BY <1>5 DEF page

(* The lines before a row are counted by its total.                        *)
LEMMA LinesBeforeRow ==
  ASSUME NEW t, IsTable(t), Shown = IdsOf(t), NEW r \in DOMAIN t
  PROVE  Cardinality(LinesBefore(t[r].id)) = t[r].agr - t[r].lines
<1>. DEFINE Text(i) == {t[i].id} \X (1 .. Lines[t[i].id])
            B(n) == UNION {Text(i) : i \in 1 .. n - 1}
            Good(n) == IsFiniteSet(B(n)) /\ Cardinality(B(n)) = t[n].agr - t[n].lines
            m == Len(t)
<1>1. /\ DOMAIN t = 1 .. m /\ m \in Nat
      /\ \A i \in DOMAIN t : /\ t[i].lines \in Nat /\ t[i].lines = Lines[t[i].id]
                             /\ t[i].agr \in Nat /\ t[i].id \in Nat
      /\ \A i, j \in DOMAIN t : i < j => t[i].id < t[j].id
  BY TableIs DEF IsTable
<1>. HIDE DEF m
<1>2. \A n \in DOMAIN t : LinesBefore(t[n].id) = B(n)
  <2>1. ASSUME NEW n \in DOMAIN t
        PROVE  {j \in Shown : j < t[n].id} = {t[i].id : i \in 1 .. n - 1}
    <3>1. \A i \in DOMAIN t : t[i].id < t[n].id <=> i < n
      BY <1>1
    <3>2. \A i \in 1 .. n - 1 : i \in DOMAIN t /\ i < n
      BY <1>1
    <3>3. \A i \in DOMAIN t : i < n => i \in 1 .. n - 1
      BY <1>1
    <3>. QED BY <3>1, <3>2, <3>3 DEF IdsOf
  <2>. QED BY <2>1 DEF LinesBefore
<1>3. ASSUME NEW i \in DOMAIN t
      PROVE  IsFiniteSet(Text(i)) /\ Cardinality(Text(i)) = t[i].lines
  <2>. DEFINE n == t[i].lines
              a == {t[i].id}
  <2>1. n \in Nat /\ Text(i) = a \X (1 .. n)
    BY <1>1
  <2>2. IsFiniteSet(a) /\ Cardinality(a) = 1
    BY FS_Singleton
  <2>3. IsFiniteSet(1 .. n) /\ Cardinality(1 .. n) = n
    <3>. HIDE DEF n
    <3>1. 1 \in Int /\ n \in Int /\ (1 > n => n = 0) /\ n - 1 + 1 = n
      BY <2>1
    <3>2. IsFiniteSet(1 .. n) /\ Cardinality(1 .. n) = IF 1 > n THEN 0 ELSE n - 1 + 1
      BY <3>1, FS_Interval
    <3>. QED BY <3>1, <3>2
  <2>. HIDE DEF n, a
  <2>. DEFINE b == 1 .. n
  <2>4. IsFiniteSet(a \X (1 .. n)) /\ Cardinality(a \X (1 .. n)) = 1 * n
    <3>1. IsFiniteSet(b) /\ Cardinality(b) = n
      BY <2>3
    <3>. HIDE DEF b
    <3>2. IsFiniteSet(a \X b) /\ Cardinality(a \X b) = Cardinality(a) * Cardinality(b)
      BY <2>2, <3>1, FS_Product
    <3>. QED BY <2>2, <3>1, <3>2 DEF b
  <2>5. 1 * n = n
    BY <2>1
  <2>. HIDE DEF Text
  <2>. QED BY <2>1, <2>4, <2>5 DEF n
<1>4. 1 <= m => Good(1)
  <2>1. SUFFICES ASSUME 1 <= m PROVE Good(1)
    OBVIOUS
  <2>2. B(1) = {}
    OBVIOUS
  <2>3. 1 \in DOMAIN t
    BY <1>1, <2>1
  <2>4. t[1].agr = 0 + t[1].lines
    BY <2>3 DEF IsTable
  <2>5. t[1].agr - t[1].lines = 0
    BY <1>1, <2>3, <2>4
  <2>. HIDE DEF B
  <2>. QED BY <2>2, <2>5, FS_EmptySet
<1>5. ASSUME NEW n \in 1 .. m - 1, Good(n)
      PROVE  Good(n + 1)
  <2>1. n \in DOMAIN t /\ n + 1 \in DOMAIN t /\ n + 1 # 1 /\ (n + 1) - 1 = n
    BY <1>1
  <2>2. t[n + 1].agr = t[n].agr + t[n + 1].lines
    BY <2>1 DEF IsTable
  <2>3. B(n + 1) = B(n) \cup Text(n)
    <3>1. 1 .. (n + 1) - 1 = (1 .. n - 1) \cup {n}
      BY <2>1
    <3>. HIDE DEF Text
    <3>. QED BY <3>1
  <2>4. B(n) \cap Text(n) = {}
    <3>1. \A i \in 1 .. n - 1 : i \in DOMAIN t /\ t[i].id # t[n].id
      <4>1. \A i \in 1 .. n - 1 : i \in DOMAIN t /\ i < n
        BY <1>1
      <4>2. \A i \in 1 .. n - 1 : t[i].id < t[n].id /\ t[i].id \in Nat /\ t[n].id \in Nat
        BY <1>1, <2>1, <4>1
      <4>. QED BY <4>1, <4>2
    <3>. QED BY <3>1
  <2>5. IsFiniteSet(Text(n)) /\ Cardinality(Text(n)) = t[n].lines
    BY <1>3, <2>1
  <2>. HIDE DEF B, Text
  <2>6. /\ IsFiniteSet(B(n) \cup Text(n))
        /\ Cardinality(B(n) \cup Text(n)) = Cardinality(B(n)) + Cardinality(Text(n)) - 0
    <3>1. IsFiniteSet(B(n))
      BY <1>5
    <3>. QED BY <2>4, <2>5, <3>1, FS_Union, FS_EmptySet
  <2>7. /\ Cardinality(B(n)) = t[n].agr - t[n].lines
        /\ t[n].agr - t[n].lines + t[n].lines - 0 = t[n + 1].agr - t[n + 1].lines
    <3>1. t[n].agr \in Nat /\ t[n].lines \in Nat /\ t[n + 1].lines \in Nat
      BY <1>1, <2>1
    <3>. QED BY <1>5, <2>2, <3>1
  <2>. QED BY <2>3, <2>5, <2>6, <2>7
<1>6. r \in {n \in 1 .. m : Good(n)}
  <2>. DEFINE T == {n \in 1 .. m : Good(n)}
  <2>1. (1 <= m => 1 \in T) /\ \A n \in 1 .. m - 1 : n \in T => n + 1 \in T
    <3>. HIDE DEF Good
    <3>. QED BY <1>1, <1>4, <1>5
  <2>2. 1 .. m \subseteq T
    <3>1. 1 \in Int /\ m \in Int
      BY <1>1
    <3>. HIDE DEF T
    <3>. QED BY <2>1, <3>1, RangeInduction, Zenon
  <2>. QED BY <1>1, <2>2
<1>. QED BY <1>2, <1>6

-----------------------------------------------------------------------------
(* The invariant.  Whatever the window did, findResult is a table (of a    *)
(* search that succeeded: of its matches), the scroll positions agree, and *)
(* unless a message box is open the page, the current event and the line   *)
(* of the caret are all of the table that is shown.                        *)
TypeInv == TypeOK /\ maxVpos \in Nat

TablesInv ==
  /\ IsTable(findResult) /\ IsTable(before)
  /\ box /\ ~crashed => findStr \in Failing
  /\ ~crashed /\ findStr \notin Failing /\ findStr # NoQuery =>
       IdsOf(findResult) = Matches[findStr]

PageInv == ~invalid /\ ~box => PageOf(Table, numLine, display)

(* e is the event that line is in.                                         *)
InEvent(t, line, e) ==
  \/ e = NotSet
  \/ e = DefaultEvent /\ line > CountLines(t)
  \/ \E r \in DOMAIN t : e = t[r] /\ \E k \in Nat : LineOf(t, r, k, line)

CaretInv == ~box => InEvent(Table, caretLine, current)

MenuInv == menu = "copy" => clicked = current /\ clicked # NotSet

ViewInv == TypeInv /\ TablesInv /\ PageInv /\ CaretInv /\ MenuInv

LEMMA TableOfIs ==
  ASSUME NEW q, NEW result, IsTable(result)
  PROVE  IsTable(TableOf(q, result)) /\ CountLines(TableOf(q, result)) \in Nat
BY JournalIsTable, CountLinesIs DEF TableOf

LEMMA RowsAre ==
  /\ NotSet \in Rows /\ DefaultEvent \in Rows /\ NotSet # DefaultEvent
  /\ \A t : IsTable(t) => \A r \in DOMAIN t : t[r] \in Rows /\ t[r] # NotSet /\ t[r] # DefaultEvent
<1>1. ASSUME NEW t, IsTable(t), NEW r \in DOMAIN t
      PROVE  t[r] \in Rows /\ t[r].id # -1 /\ t[r].id # 0
  <2>1. t[r] \in TableRows /\ t[r].id \in Ids
    BY <1>1, TableIs
  <2>2. \A id \in Ids : id # -1 /\ id # 0
    BY LinesOfIds
  <2>. QED BY <2>1, <2>2 DEF Rows, TableRows
<1>2. NotSet.id = -1 /\ DefaultEvent.id = 0
  BY DEF NotSet, DefaultEvent
<1>. QED BY <1>1, <1>2 DEF Rows

(* Windows keeps a position within the bar, and a kept one unchanged.      *)
LEMMA ClampIs ==
  ASSUME NEW pos \in Int, NEW max \in Nat
  PROVE  /\ Clamp(pos, max) \in 0 .. max
         /\ Clamp(Clamp(pos, max), max) = Clamp(pos, max)
<1>. DEFINE last == IF max >= ScrollPage THEN max - ScrollPage + 1 ELSE 0
<1>1. last \in 0 .. max
  BY ViewerAssumption
<1>2. ASSUME NEW x \in Int, NEW y \in Int
      PROVE  Min({x, y}) = IF x <= y THEN x ELSE y
  <2>1. \E m \in {x, y} : \A u \in {x, y} : m <= u
    BY <1>2
  <2>2. Min({x, y}) \in {x, y} /\ Min({x, y}) <= x /\ Min({x, y}) <= y
    BY <2>1 DEF Min
  <2>. QED BY <1>2, <2>2
<1>3. \A p : Clamp(p, max) = IF p < 0 THEN 0 ELSE Min({p, last})
  BY DEF Clamp
<1>. HIDE DEF last
<1>4. ASSUME NEW p \in Int
      PROVE  Clamp(p, max) = IF p < 0 THEN 0 ELSE IF p <= last THEN p ELSE last
  <2>1. last \in Int
    BY <1>1
  <2>2. Min({p, last}) = IF p <= last THEN p ELSE last
    BY <1>2, <2>1
  <2>. QED BY <1>3, <2>2
<1>. QED BY <1>1, <1>4

LEMMA MinOfTwo ==
  ASSUME NEW x \in Int, NEW y \in Int
  PROVE  Min({x, y}) = IF x <= y THEN x ELSE y
<1>1. \E m \in {x, y} : \A u \in {x, y} : m <= u
  OBVIOUS
<1>2. Min({x, y}) \in {x, y} /\ Min({x, y}) <= x /\ Min({x, y}) <= y
  BY <1>1 DEF Min
<1>. QED BY <1>2

LEMMA ClampZero ==
  ASSUME NEW max \in Nat
  PROVE  Clamp(0, max) = 0
<1>. DEFINE last == IF max >= ScrollPage THEN max - ScrollPage + 1 ELSE 0
<1>1. last \in Int /\ last >= 0
  BY ViewerAssumption
<1>2. Clamp(0, max) = Min({0, last})
  BY DEF Clamp
<1>. HIDE DEF last
<1>. QED BY <1>1, <1>2, MinOfTwo

(* Before the first painting.                                              *)
LEMMA ViewInit == Init => ViewInv
<1>. SUFFICES ASSUME Init PROVE ViewInv
  OBVIOUS
<1>1. CountLines(Journal) \in Nat /\ NoQuery \in Queries
  BY JournalIsTable, CountLinesIs, ViewerAssumption
<1>2. Clamp(0, CountLines(Journal)) = 0
  BY <1>1, ClampZero
<1>3. TypeInv
  <2>1. Table = Journal
    BY DEF Init, Table, TableOf
  <2>2. /\ findStr \in Queries /\ numLine = vpos + 1 /\ caretLine \in Nat
        /\ vpos = 0 /\ scrollPos = 0 /\ maxVpos = CountLines(Journal)
        /\ menu \in {"none", "plain", "copy"}
        /\ findResult = << >> /\ before = << >> /\ display = << >>
        /\ current = NotSet /\ clicked = NotSet /\ copied = NotSet
    BY <1>1 DEF Init
  <2>5. box \in BOOLEAN /\ invalid \in BOOLEAN /\ crashed \in BOOLEAN
    BY DEF Init
  <2>3. scrollPos = Clamp(vpos, maxVpos) /\ vpos \in 0 .. maxVpos /\ maxVpos \in Nat
    BY <1>1, <1>2, <2>2
  <2>4. \A S : << >> \in Seq(S)
    BY EmptySeq
  <2>. QED BY <2>1, <2>2, <2>3, <2>4, <2>5, RowsAre DEF TypeInv, TypeOK
<1>. QED BY <1>3, EmptyIsTable
     DEF Init, ViewInv, TablesInv, PageInv, CaretInv, MenuInv, InEvent

(* Painting shows a page of the table, and chooses an event only if there  *)
(* is none.                                                                *)
LEMMA PaintFromIs ==
  ASSUME ViewInv, NEW first \in Nat \ {0}, NEW rows \in 0 .. MaxRows, PaintFrom(first, rows)
  PROVE  /\ PageOf(Table, first, display') /\ display' \in Seq(Ids \X Nat)
         /\ invalid' \in BOOLEAN /\ caretLine' \in Nat /\ current' \in Rows
         /\ InEvent(Table, caretLine, current) => InEvent(Table, caretLine', current')
         /\ current # NotSet => current' = current
<1>1. IsTable(Table) /\ current \in Rows /\ caretLine \in Nat
  BY TableOfIs DEF ViewInv, TypeInv, TypeOK, TablesInv, Table
<1>2. PageOf(Table, first, display')
  <2>1. rows \in Nat
    BY ViewerAssumption
  <2>. QED BY <1>1, <2>1, GetLinesIs DEF PaintFrom
<1>3. display' \in Seq(Ids \X Nat)
  BY <1>2 DEF PageOf
<1>4. CASE display' # << >> /\ current = NotSet
  <2>1. caretLine' = first /\ current' = GetEvent(Table, first) /\ invalid' = TRUE
    BY <1>4 DEF PaintFrom
  <2>2. InEvent(Table, caretLine', current') /\ current' \in Rows
    <3>1. \/ first > CountLines(Table) /\ current' = DefaultEvent
          \/ \E r \in DOMAIN Table : current' = Table[r] /\ \E k \in Nat : LineOf(Table, r, k, first)
      BY <1>1, <2>1, GetEventIs
    <3>. QED BY <1>1, <2>1, <3>1, RowsAre DEF InEvent
  <2>. QED BY <1>2, <1>3, <1>4, <2>1, <2>2
<1>5. CASE ~(display' # << >> /\ current = NotSet)
  <2>1. caretLine' = caretLine /\ current' = current /\ invalid' = FALSE
    BY <1>5 DEF PaintFrom
  <2>. QED BY <1>1, <1>2, <1>3, <2>1
<1>. QED BY <1>4, <1>5

(* Steps that leave the search as it is.                                   *)
LEMMA SearchKept ==
  ASSUME ViewInv, ~crashed, UNCHANGED searchVars
  PROVE  TablesInv' /\ Table' = Table
BY DEF ViewInv, TablesInv, searchVars, Table, TableOf

(* Scrolling, by the bar or the wheel: the page is painted at once.        *)
LEMMA ScrolledInv ==
  ASSUME ViewInv, ~crashed, menu = "none", NEW rows \in 0 .. MaxRows,
         vpos' \in 0 .. maxVpos, numLine' = vpos' + 1, scrollPos' = Clamp(vpos', maxVpos),
         PaintFrom(vpos' + 1, rows), UNCHANGED <<searchVars, maxVpos, menuVars>>
  PROVE  ViewInv'
<1>1. TablesInv' /\ Table' = Table
  BY SearchKept
<1>2. maxVpos \in Nat
  BY DEF ViewInv, TypeInv
<1>3. vpos' + 1 \in Nat \ {0}
  <2>1. \A n \in 0 .. maxVpos : n + 1 \in Nat \ {0}
    BY <1>2
  <2>. QED BY <2>1
<1>4. /\ PageOf(Table, vpos' + 1, display') /\ display' \in Seq(Ids \X Nat)
      /\ invalid' \in BOOLEAN /\ caretLine' \in Nat /\ current' \in Rows
      /\ InEvent(Table, caretLine, current) => InEvent(Table, caretLine', current')
  BY <1>3, PaintFromIs
<1>5. TypeInv'
  BY <1>1, <1>4 DEF ViewInv, TypeInv, TypeOK, searchVars, menuVars
<1>6. PageInv' /\ CaretInv' /\ MenuInv'
  <2>1. box' = box /\ menu' = menu
    BY DEF searchVars, menuVars
  <2>2. PageInv'
    BY <1>1, <1>4 DEF PageInv
  <2>3. CaretInv'
    BY <1>1, <1>4, <2>1 DEF ViewInv, CaretInv
  <2>. QED BY <2>1, <2>2, <2>3 DEF MenuInv
<1>. QED BY <1>1, <1>5, <1>6 DEF ViewInv

(* After a search the window shows the first page of its result.           *)
LEMMA UpdatedInv ==
  ASSUME ViewInv, UpdateDisplay, UNCHANGED <<display, clicked, copied>>, menu' = "none",
         TablesInv', findStr' \in Queries, box' \in BOOLEAN, crashed' \in BOOLEAN
  PROVE  ViewInv'
<1>1. IsTable(findResult') /\ IsTable(before')
  BY DEF TablesInv
<1>2. Table' = TableOf(findStr', findResult') /\ CountLines(Table') \in Nat
  <2>1. Table' = TableOf(findStr', findResult')
    BY DEF Table, TableOf
  <2>. QED BY <1>1, <2>1, TableOfIs
<1>3. /\ vpos' = 0 /\ numLine' = 1 /\ caretLine' = 1 /\ scrollPos' = 0
      /\ current' = NotSet /\ invalid' = TRUE /\ maxVpos' = CountLines(Table')
  BY <1>2 DEF UpdateDisplay
<1>4. vpos' \in 0 .. maxVpos' /\ maxVpos' \in Nat /\ numLine' = vpos' + 1 /\ caretLine' \in Nat
  BY <1>2, <1>3
<1>5. scrollPos' = Clamp(vpos', maxVpos')
  BY <1>3, <1>4, ClampZero
<1>6. findResult' \in Seq(TableRows) /\ before' \in Seq(TableRows)
  BY <1>1 DEF IsTable
<1>7. display' \in Seq(Ids \X Nat) /\ clicked' \in Rows /\ copied' \in Rows
  BY DEF ViewInv, TypeInv, TypeOK
<1>8. TypeInv'
  BY <1>3, <1>4, <1>5, <1>6, <1>7, RowsAre DEF TypeInv, TypeOK, TableRows
<1>9. PageInv' /\ CaretInv' /\ MenuInv'
  BY <1>3 DEF PageInv, CaretInv, MenuInv, InEvent
<1>. QED BY <1>8, <1>9 DEF ViewInv

LEMMA SearchInv ==
  ASSUME ViewInv, ~crashed, NEW q \in Queries, Search(q),
         UNCHANGED <<display, clicked, copied>>, menu' = "none"
  PROVE  ViewInv'
<1>1. IsTable(FindRows(q)) /\ IdsOf(FindRows(q)) = Matches[q]
  BY FindRowsAreTable
<1>2. /\ IsTable(findResult) /\ IsTable(before)
      /\ box \in BOOLEAN /\ crashed \in BOOLEAN /\ (box => findStr \in Failing)
  BY DEF ViewInv, TypeInv, TypeOK, TablesInv
<1>3. CASE SearchEnds(q)
  <2>1. /\ UpdateDisplay /\ findStr' = q /\ ~box /\ box' = box /\ before' = before
        /\ crashed' = crashed /\ q \notin Failing
        /\ findResult' = IF q = NoQuery THEN << >> ELSE FindRows(q)
    BY <1>3 DEF SearchEnds
  <2>2. TablesInv'
    BY <1>1, <1>2, <2>1, EmptyIsTable DEF TablesInv
  <2>. QED BY <1>2, <2>1, <2>2, UpdatedInv
<1>4. CASE SearchFails(q)
  <2>1. /\ q \in Failing /\ findStr' = q /\ box' = TRUE /\ before' = findResult
        /\ UNCHANGED <<scrollVars, caretLine, current, invalid, crashed>>
    BY <1>4 DEF SearchFails
  <2>2. IsTable(findResult')
    <3>1. PICK n \in 0 .. Len(FindRows(q)) : findResult' = SubSeq(FindRows(q), 1, n)
      BY <1>4 DEF SearchFails
    <3>. QED BY <1>1, <3>1, PrefixIsTable
  <2>3. TablesInv'
    BY <1>2, <2>1, <2>2 DEF TablesInv
  <2>4. findResult' \in Seq(TableRows) /\ before' \in Seq(TableRows)
    BY <1>2, <2>1, <2>2 DEF IsTable
  <2>5. TypeInv'
    BY <2>1, <2>4 DEF ViewInv, TypeInv, TypeOK, TableRows, scrollVars
  <2>. QED BY <2>1, <2>3, <2>5 DEF ViewInv, PageInv, CaretInv, MenuInv
<1>5. CASE SearchUnderBox(q)
  <2>1. /\ box /\ findStr' = q /\ crashed' = TRUE
        /\ UNCHANGED <<findResult, box, before, scrollVars, caretLine, current, invalid>>
    BY <1>5 DEF SearchUnderBox
  <2>2. TablesInv'
    BY <1>2, <2>1 DEF TablesInv
  <2>3. TypeInv'
    BY <2>1 DEF ViewInv, TypeInv, TypeOK, scrollVars
  <2>. QED BY <2>1, <2>2, <2>3 DEF ViewInv, PageInv, CaretInv, MenuInv
<1>. QED BY <1>3, <1>4, <1>5 DEF Search

LEMMA CloseBoxInv ==
  ASSUME ViewInv, ~crashed, CloseBox
  PROVE  ViewInv'
<1>1. /\ IsTable(findResult) /\ IsTable(before) /\ findStr \in Queries /\ crashed \in BOOLEAN
      /\ box /\ findStr \in Failing /\ menu = "none"
  BY DEF ViewInv, TypeInv, TypeOK, TablesInv, CloseBox
<1>2. /\ box' = FALSE /\ before' = << >> /\ findStr' = findStr /\ UpdateDisplay
      /\ findResult' \in {findResult, before} /\ UNCHANGED <<display, menuVars>>
  BY DEF CloseBox
<1>3. TablesInv'
  BY <1>1, <1>2, EmptyIsTable DEF TablesInv, menuVars
<1>. QED BY <1>1, <1>2, <1>3, UpdatedInv DEF menuVars

LEMMA PaintInv ==
  ASSUME ViewInv, ~crashed, Paint
  PROVE  ViewInv'
<1>1. TablesInv' /\ Table' = Table
  BY SearchKept DEF Paint
<1>2. PICK rows \in 0 .. MaxRows : PaintFrom(numLine, rows)
  BY DEF Paint
<1>3. numLine \in Nat \ {0}
  <2>1. \A n \in 0 .. maxVpos : n + 1 \in Nat \ {0}
    BY DEF ViewInv, TypeInv
  <2>. QED BY <2>1 DEF ViewInv, TypeInv, TypeOK
<1>4. /\ PageOf(Table, numLine, display') /\ display' \in Seq(Ids \X Nat)
      /\ invalid' \in BOOLEAN /\ caretLine' \in Nat /\ current' \in Rows
      /\ InEvent(Table, caretLine, current) => InEvent(Table, caretLine', current')
      /\ current # NotSet => current' = current
  BY <1>2, <1>3, PaintFromIs
<1>5. UNCHANGED <<findStr, findResult, box, before, numLine, vpos, scrollPos, maxVpos,
                  clicked, menu, copied, crashed>>
  BY DEF Paint, searchVars, scrollVars, menuVars
<1>6. TypeInv'
  BY <1>1, <1>4, <1>5 DEF ViewInv, TypeInv, TypeOK
<1>7. PageInv' /\ CaretInv' /\ MenuInv'
  BY <1>1, <1>4, <1>5 DEF ViewInv, PageInv, CaretInv, MenuInv
<1>. QED BY <1>1, <1>6, <1>7 DEF ViewInv

LEMMA ScrollInv ==
  ASSUME ViewInv, ~crashed, VScroll \/ \E delta \in WheelSteps : MouseWheel(delta)
  PROVE  ViewInv'
<1>1. maxVpos \in Nat /\ vpos \in 0 .. maxVpos /\ scrollPos = Clamp(vpos, maxVpos)
  BY DEF ViewInv, TypeInv, TypeOK
<1>2. scrollPos \in 0 .. maxVpos
  BY <1>1, ClampIs
<1>3. ASSUME NEW pos \in {scrollPos - 1, scrollPos + 1} \cup 0 .. maxVpos, Scroll(pos)
      PROVE  ViewInv'
  <2>1. pos \in Int
    BY <1>1, <1>2
  <2>2. scrollPos' = Clamp(pos, maxVpos) /\ vpos' = scrollPos' /\ numLine' = scrollPos' + 1
    BY <1>3 DEF Scroll
  <2>3. vpos' \in 0 .. maxVpos /\ scrollPos' = Clamp(vpos', maxVpos)
    BY <1>1, <2>1, <2>2, ClampIs
  <2>4. PICK rows \in 0 .. MaxRows : PaintFrom(scrollPos' + 1, rows)
    BY <1>3 DEF Scroll
  <2>5. menu = "none" /\ UNCHANGED <<searchVars, maxVpos, menuVars>>
    BY <1>3 DEF Scroll
  <2>6. PaintFrom(vpos' + 1, rows)
    BY <2>2, <2>4
  <2>. QED BY <2>2, <2>3, <2>5, <2>6, ScrolledInv
<1>4. ASSUME NEW delta \in WheelSteps, MouseWheel(delta)
      PROVE  ViewInv'
  <2>1. vpos - delta \in Int
    BY <1>1, ViewerAssumption
  <2>2. vpos' = IF vpos - delta < 0 THEN 0 ELSE Min({vpos - delta, maxVpos})
    BY <1>4 DEF MouseWheel
  <2>3. vpos' \in 0 .. maxVpos
    BY <1>1, <2>1, <2>2, MinOfTwo
  <2>4. PICK rows \in 0 .. MaxRows : PaintFrom(vpos' + 1, rows)
    BY <1>4 DEF MouseWheel
  <2>5. /\ menu = "none" /\ UNCHANGED <<searchVars, maxVpos, menuVars>>
        /\ numLine' = vpos' + 1 /\ scrollPos' = Clamp(vpos', maxVpos)
    BY <1>4 DEF MouseWheel
  <2>. QED BY <2>3, <2>4, <2>5, ScrolledInv
<1>. QED BY <1>3, <1>4 DEF VScroll

(* A click makes the event of its line current, a right click opens the    *)
(* menu on it.                                                             *)
LEMMA ClickInv ==
  ASSUME ViewInv, ~crashed, NEW y \in 0 .. MaxRows, LButtonDown(y) \/ ContextMenu(y)
  PROVE  ViewInv'
<1>1. UNCHANGED <<findStr, findResult, box, before, numLine, vpos, scrollPos, maxVpos,
                  display, copied>> /\ menu = "none" /\ UNCHANGED searchVars
  BY DEF LButtonDown, ContextMenu, searchVars, scrollVars, menuVars
<1>2. TablesInv' /\ Table' = Table
  BY <1>1, SearchKept
<1>3. IsTable(Table)
  BY TableOfIs DEF ViewInv, TablesInv, Table
<1>4. numLine + y \in Nat \ {0}
  <2>1. \A n \in 0 .. maxVpos : \A m \in 0 .. MaxRows : (n + 1) + m \in Nat \ {0}
    BY ViewerAssumption DEF ViewInv, TypeInv
  <2>. QED BY <2>1 DEF ViewInv, TypeInv, TypeOK
<1>5. GetEvent(Table, numLine + y) \in Rows /\ InEvent(Table, numLine + y, GetEvent(Table, numLine + y))
  <2>1. \/ numLine + y > CountLines(Table) /\ GetEvent(Table, numLine + y) = DefaultEvent
        \/ \E r \in DOMAIN Table : /\ GetEvent(Table, numLine + y) = Table[r]
                                   /\ \E k \in Nat : LineOf(Table, r, k, numLine + y)
    BY <1>3, <1>4, GetEventIs
  <2>. QED BY <1>3, <2>1, RowsAre DEF InEvent
<1>6. CASE LButtonDown(y)
  <2>1. /\ caretLine' = numLine + y /\ current' = GetEvent(Table, numLine + y) /\ invalid' = TRUE
        /\ UNCHANGED <<clicked, menu, crashed>>
    BY <1>6 DEF LButtonDown, menuVars
  <2>2. TypeInv'
    BY <1>1, <1>2, <1>4, <1>5, <2>1 DEF ViewInv, TypeInv, TypeOK
  <2>3. CaretInv'
    BY <1>2, <1>5, <2>1 DEF CaretInv
  <2>. QED BY <1>1, <1>2, <2>1, <2>2, <2>3 DEF ViewInv, PageInv, MenuInv
<1>7. CASE ContextMenu(y)
  <2>1. /\ clicked' = IF y < Len(display) THEN GetEvent(Table, numLine + y) ELSE NotSet
        /\ crashed' = (clicked' # NotSet /\ current = NotSet)
        /\ menu' = IF clicked' # NotSet /\ clicked' = current THEN "copy" ELSE "plain"
        /\ UNCHANGED <<caretLine, current, invalid>>
    BY <1>7 DEF ContextMenu
  <2>2. clicked' \in Rows /\ menu' \in {"none", "plain", "copy"}
    BY <1>5, <2>1, RowsAre
  <2>3. crashed' \in BOOLEAN
    BY <2>1
  <2>4. TypeInv'
    BY <1>1, <1>2, <2>1, <2>2, <2>3 DEF ViewInv, TypeInv, TypeOK
  <2>5. MenuInv'
    BY <2>1 DEF MenuInv
  <2>. QED BY <1>1, <1>2, <2>1, <2>4, <2>5 DEF ViewInv, PageInv, CaretInv
<1>. QED BY <1>6, <1>7

(* Every input keeps the invariant.                                        *)
LEMMA ViewNext == ViewInv /\ [Next]_vars => ViewInv'
<1>. SUFFICES ASSUME ViewInv, [Next]_vars PROVE ViewInv'
  OBVIOUS
<1>1. CASE UNCHANGED vars
  <2>1. UNCHANGED <<findStr, findResult, box, before, numLine, vpos, scrollPos, maxVpos,
                    caretLine, current, display, invalid, clicked, menu, copied, crashed>>
    BY <1>1 DEF vars, searchVars, scrollVars, menuVars
  <2>2. Table' = Table
    BY <2>1 DEF Table, TableOf
  <2>3. TypeInv'
    BY <2>1, <2>2 DEF ViewInv, TypeInv, TypeOK
  <2>4. TablesInv' /\ PageInv' /\ CaretInv' /\ MenuInv'
    BY <2>1, <2>2 DEF ViewInv, TablesInv, PageInv, CaretInv, MenuInv
  <2>. QED BY <2>3, <2>4 DEF ViewInv
<1>2. ASSUME ~crashed, Expose \/ Copy \/ CloseMenu
      PROVE  ViewInv'
  <2>1. /\ UNCHANGED <<findStr, findResult, box, before, numLine, vpos, scrollPos, maxVpos,
                       caretLine, current, display, clicked, crashed>>
        /\ invalid' = TRUE \/ invalid' = invalid
        /\ copied' = current \/ copied' = copied
        /\ menu' = menu \/ menu' = "none"
    BY <1>2 DEF Expose, Copy, CloseMenu, searchVars, scrollVars, menuVars
  <2>2. Table' = Table
    BY <2>1 DEF Table, TableOf
  <2>3. TypeInv'
    BY <2>1, <2>2 DEF ViewInv, TypeInv, TypeOK
  <2>4. TablesInv' /\ PageInv' /\ CaretInv' /\ MenuInv'
    BY <2>1, <2>2 DEF ViewInv, TablesInv, PageInv, CaretInv, MenuInv
  <2>. QED BY <2>3, <2>4 DEF ViewInv
<1>3. ASSUME ~crashed, NEW q \in Queries, Find(q) \/ MenuSelection(q)
      PROVE  ViewInv'
  BY <1>3, SearchInv DEF Find, MenuSelection
<1>4. Input => ViewInv'
  BY <1>2, <1>3, PaintInv, ScrollInv, ClickInv, CloseBoxInv DEF Input
<1>. QED BY <1>1, <1>4 DEF Next

-----------------------------------------------------------------------------
(* What follows from it.                                                   *)

LEMMA ShownAre ==
  ASSUME ViewInv
  PROVE  IsTable(Table) /\ Shown = IdsOf(Table)
<1>1. IsTable(Table)
  BY TableOfIs DEF ViewInv, TablesInv, Table
<1>2. CASE findStr = NoQuery
  BY <1>1, <1>2, JournalIsTable DEF Shown, Table, TableOf
<1>3. CASE findStr # NoQuery
  BY <1>1, <1>3 DEF Shown, Table, TableOf, IdsOf
<1>. QED BY <1>2, <1>3

(* The line of an event that a table's totals give is its line in the text *)
(* of the events shown.                                                    *)
LEMMA NumberOfLine ==
  ASSUME ViewInv, NEW r \in DOMAIN Table, NEW k, NEW n, LineOf(Table, r, k, n)
  PROVE  /\ Table[r].id \in Shown /\ k \in 1 .. Lines[Table[r].id]
         /\ LineNumber(Table[r].id, k) = n
<1>1. IsTable(Table) /\ Shown = IdsOf(Table)
  BY ShownAre
<1>2. Table[r].id \in Shown /\ Table[r].lines = Lines[Table[r].id]
  BY <1>1, TableIs DEF IdsOf
<1>3. Cardinality(LinesBefore(Table[r].id)) = Table[r].agr - Table[r].lines
  BY <1>1, LinesBeforeRow
<1>. QED BY <1>2, <1>3 DEF LineOf, LineNumber

LEMMA PageSlice == ViewInv => PageIsSlice
<1>. SUFFICES ASSUME ViewInv, ~invalid, ~box
              PROVE  /\ \A i \in DOMAIN display :
                          LET id == display[i][1]
                              k  == display[i][2]
                          IN  /\ id \in Shown /\ k \in 1 .. Lines[id]
                              /\ LineNumber(id, k) = numLine + i - 1
                     /\ display = << >> <=> numLine > maxVpos
  BY DEF PageIsSlice
<1>1. PageOf(Table, numLine, display)
  BY DEF ViewInv, PageInv
<1>2. ASSUME NEW i \in DOMAIN display
      PROVE  /\ display[i][1] \in Shown /\ display[i][2] \in 1 .. Lines[display[i][1]]
             /\ LineNumber(display[i][1], display[i][2]) = numLine + i - 1
  <2>1. PICK r \in DOMAIN Table, k \in Nat :
          display[i] = <<Table[r].id, k>> /\ LineOf(Table, r, k, numLine + i - 1)
    BY <1>1 DEF PageOf
  <2>2. display[i][1] = Table[r].id /\ display[i][2] = k
    BY <2>1
  <2>. QED BY <2>1, <2>2, NumberOfLine
<1>3. display = << >> <=> numLine > maxVpos
  BY <1>1 DEF PageOf, ViewInv, TypeInv, TypeOK
<1>. QED BY <1>2, <1>3

(* A line is of one row only.                                              *)
LEMMA RowOfLine ==
  ASSUME NEW t, IsTable(t), NEW r \in DOMAIN t, NEW c \in DOMAIN t, NEW k, NEW n \in Int,
         LineOf(t, r, k, n)
  PROVE  n \in t[c].agr - t[c].lines + 1 .. t[c].agr <=> t[r].id = t[c].id
<1>1. /\ DOMAIN t = 1 .. Len(t) /\ Len(t) \in Nat
      /\ \A i \in DOMAIN t : t[i].lines \in Nat /\ t[i].agr \in Nat /\ t[i].id \in Nat
      /\ \A i, j \in DOMAIN t : i < j => t[i].agr <= t[j].agr - t[j].lines /\ t[i].id < t[j].id
  BY TableIs DEF IsTable
<1>2. n \in t[r].agr - t[r].lines + 1 .. t[r].agr
  BY <1>1 DEF LineOf
<1>3. CASE r = c
  BY <1>2, <1>3
<1>4. CASE r < c
  <2>1. n <= t[c].agr - t[c].lines /\ t[r].id # t[c].id
    BY <1>1, <1>2, <1>4
  <2>. QED BY <1>1, <2>1
<1>5. CASE c < r
  <2>1. n > t[c].agr /\ t[r].id # t[c].id
    <3>1. t[c].agr <= t[r].agr - t[r].lines /\ t[c].id < t[r].id
      BY <1>1, <1>5
    <3>. QED BY <1>1, <1>2, <3>1
  <2>. QED BY <1>1, <2>1
<1>. QED BY <1>1, <1>3, <1>4, <1>5

LEMMA GreyOfCurrent == ViewInv => GreyIsCurrent
<1>. SUFFICES ASSUME ViewInv, ~invalid, ~box, current # NotSet, NEW i \in DOMAIN display
              PROVE  numLine + i - 1 \in current.agr - current.lines + 1 .. current.agr
                       <=> display[i][1] = current.id
  BY DEF GreyIsCurrent
<1>1. PageOf(Table, numLine, display) /\ InEvent(Table, caretLine, current) /\ IsTable(Table)
  BY ShownAre DEF ViewInv, PageInv, CaretInv
<1>2. PICK r \in DOMAIN Table, k \in Nat :
        display[i] = <<Table[r].id, k>> /\ LineOf(Table, r, k, numLine + i - 1)
  BY <1>1 DEF PageOf
<1>3. display[i][1] = Table[r].id /\ Table[r].id \in Nat \ {0}
  BY <1>1, <1>2, TableIs, LinesOfIds
<1>4. CASE current = DefaultEvent
  <2>1. current.agr = 0 /\ current.lines = 0 /\ current.id = 0
    BY <1>4 DEF DefaultEvent
  <2>2. current.agr - current.lines + 1 .. current.agr = {}
    BY <2>1
  <2>. QED BY <1>3, <2>1, <2>2
<1>5. ASSUME NEW c \in DOMAIN Table, current = Table[c]
      PROVE  numLine + i - 1 \in current.agr - current.lines + 1 .. current.agr
               <=> display[i][1] = current.id
  <2>1. numLine + i - 1 \in Int
    <3>1. numLine \in Int
      <4>1. \A n \in 0 .. maxVpos : n + 1 \in Int
        BY DEF ViewInv, TypeInv
      <4>. QED BY <4>1 DEF ViewInv, TypeInv, TypeOK
    <3>2. i \in Int
      <4>1. display \in Seq(Ids \X Nat)
        BY <1>1 DEF PageOf
      <4>. QED BY <4>1, LenProperties
    <3>. QED BY <3>1, <3>2
  <2>. QED BY <1>1, <1>2, <1>3, <1>5, <2>1, RowOfLine
<1>. QED BY <1>1, <1>4, <1>5 DEF InEvent

LEMMA CaretOfCurrent == ViewInv => CurrentHasCaret
<1>. SUFFICES ASSUME ViewInv, ~box
              PROVE  /\ current = DefaultEvent => caretLine > maxVpos
                     /\ current \notin {NotSet, DefaultEvent} =>
                          /\ current.id \in Shown
                          /\ \E k \in 1 .. Lines[current.id] :
                               caretLine = LineNumber(current.id, k)
  BY DEF CurrentHasCaret
<1>1. InEvent(Table, caretLine, current) /\ IsTable(Table) /\ maxVpos = CountLines(Table)
  BY ShownAre DEF ViewInv, CaretInv, TypeInv, TypeOK
<1>2. CASE current = DefaultEvent /\ caretLine > CountLines(Table)
  BY <1>1, <1>2
<1>3. ASSUME NEW r \in DOMAIN Table, current = Table[r],
             NEW k \in Nat, LineOf(Table, r, k, caretLine)
      PROVE  /\ current # DefaultEvent
             /\ current.id \in Shown
             /\ \E l \in 1 .. Lines[current.id] : caretLine = LineNumber(current.id, l)
  BY <1>1, <1>3, NumberOfLine, RowsAre
<1>4. CASE current = NotSet
  BY <1>4, RowsAre
<1>. QED BY <1>1, <1>2, <1>3, <1>4 DEF InEvent

LEMMA ExactSearch == ViewInv => SearchIsExact
BY ShownAre DEF ViewInv, TablesInv, SearchIsExact, Shown, IdsOf

(* The state of the window is well typed, and its scroll positions agree,  *)
(* for any journal, searches and sizes of the window.                      *)
THEOREM ViewerTyped == Spec => []TypeOK
<1>1. ViewInv => TypeOK
  BY DEF ViewInv, TypeInv
<1>. QED BY <1>1, ViewInit, ViewNext, PTL DEF Spec

(* The painted window is a piece of the text of the events shown, from the *)
(* line the scroll bar says, for any journal.                              *)
THEOREM PagesAreSlices == Spec => []PageIsSlice
BY PageSlice, ViewInit, ViewNext, PTL DEF Spec

(* The grey lines are those of the current event.                          *)
THEOREM GreyShowsCurrent == Spec => []GreyIsCurrent
BY GreyOfCurrent, ViewInit, ViewNext, PTL DEF Spec

(* The current event is the one the caret is in.                           *)
THEOREM CaretInCurrent == Spec => []CurrentHasCaret
BY CaretOfCurrent, ViewInit, ViewNext, PTL DEF Spec

(* A search that does not fail shows its matches and no other event.       *)
THEOREM SearchesExact == Spec => []SearchIsExact
BY ExactSearch, ViewInit, ViewNext, PTL DEF Spec

(* What is copied is what the menu was opened on.                          *)
THEOREM ClickedIsCopied == Spec => CopyIsClicked
<1>1. ViewInv /\ [Next]_vars => [copied' # copied => copied' = clicked]_vars
  <2>. SUFFICES ASSUME ViewInv, Next, copied' # copied PROVE copied' = clicked
    BY DEF vars, menuVars
  <2>1. Copy
    BY DEF Next, Input, Paint, Expose, Find, MenuSelection, VScroll, Scroll, MouseWheel,
           LButtonDown, ContextMenu, CloseMenu, CloseBox, vars, menuVars
  <2>. QED BY <2>1 DEF Copy, ViewInv, MenuInv
<1>. QED BY <1>1, ViewInit, ViewNext, PTL DEF Spec, CopyIsClicked
=============================================================================
