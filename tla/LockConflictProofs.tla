-------------------------- MODULE LockConflictProofs --------------------------
(***************************************************************************)
(* The theorems of LockConflict, for any fields, values and spaces and     *)
(* lists of any length: what the Locks objects say of two lock lists is    *)
(* what the texts say. TLC checks the same properties in MCLockConflict.   *)
(***************************************************************************)
EXTENDS LockConflict, TLAPS

(* ParseTLock makes a lock of the text into a Lock object.                 *)
LEMMA ParsedLockType ==
  ASSUME NEW t \in LockTexts
  PROVE  /\ ParsedLock(t) \in LockObjects
         /\ ParsedLock(t).space = t.space
         /\ ParsedLock(t).type = t.type
         /\ \A f \in Fields : ParsedLock(t).values[f] = ValuesOf(t.elements, f)
<1>1. ASSUME NEW f \in Fields PROVE ValuesOf(t.elements, f) \subseteq Values
  BY DEF ValuesOf, LockTexts, Elements
<1>2. [f \in Fields |-> ValuesOf(t.elements, f)] \in [Fields -> SUBSET Values]
  BY <1>1
<1>. QED BY <1>2 DEF ParsedLock, LockObjects, LockTexts

(* The object keeps a map from spaces to locks: AddLock keeps one lock of  *)
(* a space, and the locks it had.                                          *)
LEMMA AddLockKeeps ==
  ASSUME NEW ls, NEW l, \A j, k \in ls : j.space = k.space => j = k
  PROVE  /\ \A j, k \in AddLock(ls, l) : j.space = k.space => j = k
         /\ ls \subseteq AddLock(ls, l)
         /\ \E k \in AddLock(ls, l) : k.space = l.space
         /\ \A k \in AddLock(ls, l) : k \in ls \/ k = l
BY DEF AddLock

(* A conflict of two elements that have every field their locks share is   *)
(* seen field by field, whatever the other elements are: no field sets the *)
(* locks apart.                                                            *)
LEMMA ConflictIsSeen ==
  ASSUME NEW t \in LockTexts, NEW u \in LockTexts, Exclude(t, u),
         NEW e \in t.elements, NEW g \in u.elements,
         Overlap(e, g), ComparedByOwn(t, u, e, g)
  PROVE  IsLocking(ParsedLock(t), ParsedLock(u))
<1>2. ASSUME NEW f \in Fields,
             ValuesOf(t.elements, f) # {}, ValuesOf(u.elements, f) # {}
      PROVE  ValuesOf(t.elements, f) \cap ValuesOf(u.elements, f) # {}
  <2>1. f \in DOMAIN e /\ f \in DOMAIN g
    <3>1. f \in FieldsOf(t) /\ f \in FieldsOf(u)
      BY <1>2 DEF ValuesOf, FieldsOf
    <3>. QED BY <3>1 DEF ComparedByOwn
  <2>2. e[f] = g[f]
    BY <2>1 DEF Overlap
  <2>3. e[f] \in ValuesOf(t.elements, f) /\ g[f] \in ValuesOf(u.elements, f)
    BY <2>1 DEF ValuesOf
  <2>. QED BY <2>2, <2>3
<1>3. t.space = u.space /\ ~(t.type = "Shared" /\ u.type = "Shared")
  BY DEF Exclude
<1>. QED BY <1>2, <1>3, ParsedLockType DEF IsLocking

(* A conflict that is seen between locks of one element each is one of     *)
(* their elements.                                                         *)
LEMMA SeenIsConflict ==
  ASSUME NEW t \in LockTexts, NEW u \in LockTexts,
         NEW e, NEW g, t.elements = {e}, u.elements = {g},
         IsLocking(ParsedLock(t), ParsedLock(u))
  PROVE  Exclude(t, u)
<1>1. ASSUME NEW f \in DOMAIN e \cap DOMAIN g PROVE e[f] = g[f]
  <2>1. f \in Fields
    BY DEF LockTexts, Elements
  <2>2. ValuesOf(t.elements, f) = {e[f]} /\ ValuesOf(u.elements, f) = {g[f]}
    BY DEF ValuesOf
  <2>3. /\ ParsedLock(t).values[f] = ValuesOf(t.elements, f)
        /\ ParsedLock(u).values[f] = ValuesOf(u.elements, f)
    BY <2>1, ParsedLockType
  <2>4. ParsedLock(t).values[f] # {} /\ ParsedLock(u).values[f] # {}
    BY <2>2, <2>3
  <2>5. ParsedLock(t).values[f] \cap ParsedLock(u).values[f] # {}
    BY <2>1, <2>4 DEF IsLocking
  <2>6. ValuesOf(t.elements, f) \cap ValuesOf(u.elements, f) # {}
    BY <2>3, <2>5
  <2>. QED BY <2>2, <2>6
<1>2. t.space = u.space /\ ~(t.type = "Shared" /\ u.type = "Shared")
  BY ParsedLockType DEF IsLocking
<1>. QED BY <1>1, <1>2 DEF Exclude, Overlap

(* The relation is symmetric.                                              *)
LEMMA IsLockingSymmetric ==
  ASSUME NEW l, NEW r
  PROVE  IsLocking(l, r) <=> IsLocking(r, l)
BY DEF IsLocking

-----------------------------------------------------------------------------
(* The Locks object of a side has a lock of every space that the text      *)
(* names, and each of its locks is the first that the text has of a space. *)
LocksFromTexts ==
  \A d \in Sides :
    /\ \A i \in DOMAIN texts[d] : \E k \in locks[d] : k.space = texts[d][i].space
    /\ \A k \in locks[d] :
         \E i \in DOMAIN texts[d] : k = ParsedLock(texts[d][i]) /\ FirstOfSpace(texts[d], i)

(* The invariant the properties follow from.                               *)
LockInv == TypeOK /\ LocksFromTexts

(* It holds before any lock is read.                                       *)
LEMMA LockInvInit == Init => LockInv
BY DEF Init, LockInv, TypeOK, LocksFromTexts

(* ParseTLock keeps it, lock after lock.                                   *)
LEMMA LockInvNext == LockInv /\ [Next]_vars => LockInv'
<1>. SUFFICES ASSUME LockInv, [Next]_vars PROVE LockInv'
  OBVIOUS
<1>1. CASE Next
  <2>1. PICK d \in Sides, t \in LockTexts : ReadLock(d, t)
    BY <1>1 DEF Next
  <2>. DEFINE l == ParsedLock(t)
  <2>2. /\ texts \in [Sides -> Seq(LockTexts)]
        /\ locks \in [Sides -> SUBSET LockObjects]
        /\ \A j, k \in locks[d] : j.space = k.space => j = k
    BY DEF LockInv, TypeOK
  <2>3. /\ texts' = [texts EXCEPT ![d] = Append(texts[d], t)]
        /\ locks' = [locks EXCEPT ![d] = AddLock(locks[d], l)]
    BY <2>1 DEF ReadLock
  <2>4. /\ \A j, k \in AddLock(locks[d], l) : j.space = k.space => j = k
        /\ locks[d] \subseteq AddLock(locks[d], l)
        /\ \E k \in AddLock(locks[d], l) : k.space = l.space
        /\ \A k \in AddLock(locks[d], l) : k \in locks[d] \/ k = l
    BY <2>2, AddLockKeeps
  <2>5. l \in LockObjects /\ l.space = t.space
    BY ParsedLockType
  <2>6. AddLock(locks[d], l) \subseteq LockObjects
    BY <2>2, <2>4, <2>5
  <2>7. TypeOK'
    <3>1. Append(texts[d], t) \in Seq(LockTexts)
      BY <2>2
    <3>2. texts' \in [Sides -> Seq(LockTexts)]
      BY <2>2, <2>3, <3>1
    <3>3. locks' \in [Sides -> SUBSET LockObjects]
      BY <2>2, <2>3, <2>6
    <3>4. ASSUME NEW c \in Sides
          PROVE  \A j, k \in locks'[c] : j.space = k.space => j = k
      <4>1. CASE c = d BY <4>1, <2>2, <2>3, <2>4
      <4>2. CASE c # d BY <4>2, <2>2, <2>3 DEF LockInv, TypeOK
      <4>. QED BY <4>1, <4>2
    <3>. QED BY <3>2, <3>3, <3>4 DEF TypeOK
  <2>8. LocksFromTexts'
    <3>. SUFFICES ASSUME NEW c \in Sides
         PROVE  /\ \A i \in DOMAIN texts'[c] : \E k \in locks'[c] : k.space = texts'[c][i].space
                /\ \A k \in locks'[c] :
                     \E i \in DOMAIN texts'[c] :
                       k = ParsedLock(texts'[c][i]) /\ FirstOfSpace(texts'[c], i)
      BY DEF LocksFromTexts
    <3>0. /\ \A i \in DOMAIN texts[c] : \E k \in locks[c] : k.space = texts[c][i].space
          /\ \A k \in locks[c] :
               \E i \in DOMAIN texts[c] : k = ParsedLock(texts[c][i]) /\ FirstOfSpace(texts[c], i)
      BY DEF LockInv, LocksFromTexts
    <3>1. CASE c # d
      <4>1. texts'[c] = texts[c] /\ locks'[c] = locks[c]
        BY <3>1, <2>2, <2>3
      <4>. QED BY <4>1, <3>0
    <3>2. CASE c = d
      <4>. DEFINE ts == texts[d]
      <4>1. texts'[c] = Append(ts, t) /\ locks'[c] = AddLock(locks[d], l)
        BY <3>2, <2>2, <2>3
      <4>2. /\ ts \in Seq(LockTexts)
            /\ DOMAIN Append(ts, t) = DOMAIN ts \cup {Len(ts) + 1}
            /\ \A i \in DOMAIN ts : Append(ts, t)[i] = ts[i]
            /\ Append(ts, t)[Len(ts) + 1] = t
        BY <2>2
      <4>3. \A i \in DOMAIN Append(ts, t) :
              \E k \in AddLock(locks[d], l) : k.space = Append(ts, t)[i].space
        BY <4>2, <2>4, <2>5, <3>0, <3>2
      <4>4. ASSUME NEW k \in AddLock(locks[d], l)
            PROVE  \E i \in DOMAIN Append(ts, t) :
                     k = ParsedLock(Append(ts, t)[i]) /\ FirstOfSpace(Append(ts, t), i)
        <5>0. Len(ts) \in Nat /\ DOMAIN ts = 1 .. Len(ts)
          BY <4>2
        <5>1. CASE k \in locks[d]
          <6>1. PICK i \in DOMAIN ts : k = ParsedLock(ts[i]) /\ FirstOfSpace(ts, i)
            BY <5>1, <3>0, <3>2
          <6>2. FirstOfSpace(Append(ts, t), i)
            BY <4>2, <5>0, <6>1 DEF FirstOfSpace
          <6>. QED BY <4>2, <6>1, <6>2
        <5>2. CASE k \notin locks[d]
          <6>1. k = l /\ \A j \in locks[d] : j.space # t.space
            BY <5>2, <2>4, <2>5 DEF AddLock
          <6>2. \A j \in DOMAIN ts : ts[j].space # t.space
            BY <6>1, <3>0, <3>2
          <6>3. FirstOfSpace(Append(ts, t), Len(ts) + 1)
            BY <4>2, <5>0, <6>2 DEF FirstOfSpace
          <6>. QED BY <4>2, <6>1, <6>3
        <5>. QED BY <5>1, <5>2
      <4>. QED BY <4>1, <4>3, <4>4
    <3>. QED BY <3>1, <3>2
  <2>. QED BY <2>7, <2>8 DEF LockInv
<1>2. CASE UNCHANGED vars
  BY <1>2 DEF vars, LockInv, TypeOK, LocksFromTexts
<1>. QED BY <1>1, <1>2

(* Reading any lists of locks keeps the invariant.                         *)
LEMMA LockInvHolds == Spec => []LockInv
BY LockInvInit, LockInvNext, PTL DEF Spec

-----------------------------------------------------------------------------
(* The state of the objects is well formed: in particular, one lock of a   *)
(* space.                                                                  *)
THEOREM TypeCorrect == Spec => []TypeOK
<1>1. LockInv => TypeOK
  BY DEF LockInv
<1>. QED BY <1>1, LockInvHolds, PTL

(* Of any two lists, an analysis sees every conflict of elements that have *)
(* all the fields their locks share, between locks that are the first of   *)
(* their space: there is no other way to miss one.                         *)
THEOREM MissesNoKeptConflict == Spec => []NoKeptConflictMissed
<1>1. LockInv => NoKeptConflictMissed
  <2>. SUFFICES ASSUME LockInv,
                       NEW i \in DOMAIN texts["lhs"], NEW j \in DOMAIN texts["rhs"],
                       FirstOfSpace(texts["lhs"], i), FirstOfSpace(texts["rhs"], j),
                       Exclude(texts["lhs"][i], texts["rhs"][j]),
                       NEW e \in texts["lhs"][i].elements, NEW g \in texts["rhs"][j].elements,
                       Overlap(e, g), ComparedByOwn(texts["lhs"][i], texts["rhs"][j], e, g)
       PROVE  LocksAreLocking(locks["lhs"], locks["rhs"])
    BY DEF NoKeptConflictMissed
  <2>1. ASSUME NEW d \in Sides, NEW n \in DOMAIN texts[d], FirstOfSpace(texts[d], n)
        PROVE  texts[d][n] \in LockTexts /\ ParsedLock(texts[d][n]) \in locks[d]
    <3>1. \A m \in DOMAIN texts[d] : texts[d][m] \in LockTexts /\ m \in Nat
      BY DEF LockInv, TypeOK
    <3>2. PICK k \in locks[d] : k.space = texts[d][n].space
      BY DEF LockInv, LocksFromTexts
    <3>3. PICK m \in DOMAIN texts[d] : k = ParsedLock(texts[d][m]) /\ FirstOfSpace(texts[d], m)
      BY DEF LockInv, LocksFromTexts
    <3>4. texts[d][m].space = texts[d][n].space
      BY <3>1, <3>2, <3>3, ParsedLockType
    <3>5. m = n
      BY <2>1, <3>1, <3>3, <3>4 DEF FirstOfSpace
    <3>. QED BY <3>1, <3>3, <3>5
  <2>2. /\ texts["lhs"][i] \in LockTexts /\ ParsedLock(texts["lhs"][i]) \in locks["lhs"]
        /\ texts["rhs"][j] \in LockTexts /\ ParsedLock(texts["rhs"][j]) \in locks["rhs"]
    BY <2>1 DEF Sides
  <2>3. IsLocking(ParsedLock(texts["lhs"][i]), ParsedLock(texts["rhs"][j]))
    BY <2>2, ConflictIsSeen
  <2>. QED BY <2>2, <2>3 DEF LocksAreLocking
<1>. QED BY <1>1, LockInvHolds, PTL

(* Nor does it report one that is not there, of locks of one element.      *)
THEOREM ReportsNoFalseConflict == Spec => []NoFalseConflict
<1>1. LockInv => NoFalseConflict
  <2>. SUFFICES ASSUME LockInv,
                       \A d \in Sides : \A i \in DOMAIN texts[d] :
                         \E e \in texts[d][i].elements : texts[d][i].elements = {e},
                       LocksAreLocking(locks["lhs"], locks["rhs"])
       PROVE  TextsExclude
    BY DEF NoFalseConflict
  <2>1. PICK k \in locks["lhs"], l \in locks["rhs"] : IsLocking(k, l)
    BY DEF LocksAreLocking
  <2>2. PICK i \in DOMAIN texts["lhs"] : k = ParsedLock(texts["lhs"][i])
    BY DEF LockInv, LocksFromTexts, Sides
  <2>3. PICK j \in DOMAIN texts["rhs"] : l = ParsedLock(texts["rhs"][j])
    BY DEF LockInv, LocksFromTexts, Sides
  <2>4. texts["lhs"][i] \in LockTexts /\ texts["rhs"][j] \in LockTexts
    BY DEF LockInv, TypeOK, Sides
  <2>5. PICK e : texts["lhs"][i].elements = {e}
    BY DEF Sides
  <2>6. PICK g : texts["rhs"][j].elements = {g}
    BY DEF Sides
  <2>7. Exclude(texts["lhs"][i], texts["rhs"][j])
    BY <2>1, <2>2, <2>3, <2>4, <2>5, <2>6, SeenIsConflict
  <2>. QED BY <2>7 DEF TextsExclude
<1>. QED BY <1>1, LockInvHolds, PTL

(* It does not matter which list is asked.                                 *)
THEOREM ConflictMutual == Spec => []ConflictIsMutual
<1>1. ConflictIsMutual
  BY IsLockingSymmetric DEF ConflictIsMutual, LocksAreLocking
<1>. QED BY <1>1, PTL
=============================================================================
