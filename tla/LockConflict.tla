---------------------------- MODULE LockConflict ----------------------------
(***************************************************************************)
(* AnalayzerLock::ParseTLock reads the two lock lists that an analysis     *)
(* compares, lock by lock, into Locks objects.                             *)
(***************************************************************************)
EXTENDS Locks, Naturals, Sequences

CONSTANTS MaxLocks,       \* bound: the locks of a list
          MaxElements     \* bound: the elements of a lock

ASSUME LockAssumption == MaxLocks \in Nat /\ MaxElements \in Nat

Sides == {"lhs", "rhs"}

VARIABLES
  texts,     \* texts[side]: the locks of the text that are read
  locks      \* locks[side]: the Locks object, a map from spaces to locks

vars == <<texts, locks>>

TypeOK ==
  /\ texts \in [Sides -> Seq(LockTexts)]
  /\ locks \in [Sides -> SUBSET LockObjects]
  /\ \A d \in Sides : \A k, l \in locks[d] : k.space = l.space => k = l

-----------------------------------------------------------------------------
Init ==
  /\ texts = [d \in Sides |-> << >>]
  /\ locks = [d \in Sides |-> {}]

(* One turn of the loop of ParseTLock over the locks of the text.          *)
ReadLock(d, t) ==
  /\ Len(texts[d]) < MaxLocks /\ Cardinality(t.elements) <= MaxElements
  /\ texts' = [texts EXCEPT ![d] = Append(@, t)]
  /\ locks' = [locks EXCEPT ![d] = AddLock(@, ParsedLock(t))]

Next == \E d \in Sides : \E t \in LockTexts : ReadLock(d, t)

Spec == Init /\ [][Next]_vars

-----------------------------------------------------------------------------
(* Properties                                                              *)

TextsExclude ==
  \E i \in DOMAIN texts["lhs"], j \in DOMAIN texts["rhs"] :
    Exclude(texts["lhs"][i], texts["rhs"][j])

(* A conflict of two elements is missed only if one of their locks follows *)
(* another of its space, which insert drops, or one of the elements leaves *)
(* out a field that both locks have, which their merged values then decide.*)
(* All other conflicts of any two lists are seen, though IsLocking compares*)
(* sets of values field by field and not element by element.               *)
NoKeptConflictMissed ==
  \A i \in DOMAIN texts["lhs"], j \in DOMAIN texts["rhs"] :
    LET t == texts["lhs"][i]
        u == texts["rhs"][j]
    IN  /\ FirstOfSpace(texts["lhs"], i) /\ FirstOfSpace(texts["rhs"], j)
        /\ Exclude(t, u)
        /\ \E e \in t.elements, g \in u.elements :
             Overlap(e, g) /\ ComparedByOwn(t, u, e, g)
        => LocksAreLocking(locks["lhs"], locks["rhs"])

(* It reports none that is not there, when the locks have one element.     *)
NoFalseConflict ==
  (\A d \in Sides : \A i \in DOMAIN texts[d] :
     \E e \in texts[d][i].elements : texts[d][i].elements = {e})
    /\ LocksAreLocking(locks["lhs"], locks["rhs"])
    => TextsExclude

(* Whose locks are asked whether they exclude the other's does not matter: *)
(* AnalyzeTDeadlock asks for both connections.                             *)
ConflictIsMutual ==
  LocksAreLocking(locks["lhs"], locks["rhs"]) <=> LocksAreLocking(locks["rhs"], locks["lhs"])
=============================================================================
