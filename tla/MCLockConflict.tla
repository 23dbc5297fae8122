--------------------------- MODULE MCLockConflict ---------------------------
(***************************************************************************)
(* LockConflict for TLC: two fields of two values with one lock on each    *)
(* side (MCLockConflict.cfg), two spaces with lists of two locks of one    *)
(* field (MCLockLists.cfg).                                                *)
(***************************************************************************)
EXTENDS LockConflict, TLC

CONSTANTS dim1, dim2, x, y, reg1, reg2

AlikeFields == Permutations({dim1, dim2}) \cup Permutations({x, y})

AlikeSpaces == Permutations({reg1, reg2}) \cup Permutations({x, y})
=============================================================================
