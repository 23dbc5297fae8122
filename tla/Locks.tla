-------------------------------- MODULE Locks --------------------------------
(***************************************************************************)
(* Which managed locks exclude each other: the classes Lock and Locks, and *)
(* the objects AnalayzerLock::ParseTLock makes of the property Locks of a  *)
(* TLOCK event. In the text a lock names a space, a type and one or more   *)
(* elements, each a conjunction of field=value; the object keeps for each  *)
(* field the set of the values of all the elements. A field whose value is *)
(* Undefined is left out: the element locks every value of it.             *)
(***************************************************************************)
EXTENDS FiniteSets, Naturals

CONSTANTS Fields, Values, Spaces

Types == {"Shared", "Exclusive"}

(* An element of the text: a value for some of the fields.                 *)
Elements == UNION {[F -> Values] : F \in SUBSET Fields}

LockTexts == [space : Spaces, type : Types, elements : (SUBSET Elements) \ {{}}]

(* class Lock: a field without values is one that lock_values_ has not.    *)
LockObjects == [space : Spaces, type : Types, values : [Fields -> SUBSET Values]]

ValuesOf(elements, f) == {e[f] : e \in {x \in elements : f \in DOMAIN x}}

(* Wrong: an element replaces the one before it.                           *)
LastElementOnly(t) ==
  LET last == CHOOSE e \in t.elements : TRUE
  IN  [space |-> t.space, type |-> t.type, values |-> [f \in Fields |-> ValuesOf({last}, f)]]

(* The Lock that ParseTLock makes of a lock of the text, one call of       *)
(* AddBlockingElement for each field=value of each element.                *)
ParsedLock(t) ==
  [space |-> t.space, type |-> t.type, values |-> [f \in Fields |-> ValuesOf(t.elements, f)]]

(* Wrong: shared locks exclude each other.                                 *)
IsLockingWithoutTypes(l, r) ==
  /\ l.space = r.space
  /\ \A f \in Fields :
       l.values[f] # {} /\ r.values[f] # {} => l.values[f] \cap r.values[f] # {}

(* Lock::IsLocking: the spaces are equal, one of the locks is exclusive,   *)
(* and no field that both have sets apart their values.                    *)
IsLocking(l, r) ==
  /\ l.space = r.space
  /\ ~(l.type = "Shared" /\ r.type = "Shared")
  /\ \A f \in Fields :
       l.values[f] # {} /\ r.values[f] # {} => l.values[f] \cap r.values[f] # {}

(* Locks::IsLocking.                                                       *)
LocksAreLocking(ls, rs) == \E l \in ls, r \in rs : IsLocking(l, r)

(* Wrong: a lock replaces the one of its space, as locks_[space] = lock.   *)
ReplaceLock(ls, l) == {k \in ls : k.space # l.space} \cup {l}

(* Wrong: a space has two locks.                                           *)
AddLockTwice(ls, l) == ls \cup {l}

(* Locks::AddLock: insert changes nothing when the map has the space.      *)
AddLock(ls, l) == IF \E k \in ls : k.space = l.space THEN ls ELSE ls \cup {l}

-----------------------------------------------------------------------------
(* What a conflict is, from the text                                       *)

(* Two elements lock a common row of data.                                 *)
Overlap(e, g) == \A f \in DOMAIN e \cap DOMAIN g : e[f] = g[f]

(* Two locks of the text exclude each other.                               *)
Exclude(t, u) ==
  /\ t.space = u.space
  /\ ~(t.type = "Shared" /\ u.type = "Shared")
  /\ \E e \in t.elements, g \in u.elements : Overlap(e, g)

(* The lock that the map has of a space is the first that the list has.    *)
FirstOfSpace(ts, i) == \A j \in DOMAIN ts : ts[j].space = ts[i].space => i <= j

FieldsOf(t) == UNION {DOMAIN e : e \in t.elements}

(* An element that leaves out a field is compared by the values that the   *)
(* other elements of its lock have there. Two elements are compared by     *)
(* their own values when both have every field that both locks have.       *)
ComparedByOwn(t, u, e, g) == FieldsOf(t) \cap FieldsOf(u) \subseteq DOMAIN e \cap DOMAIN g
=============================================================================
