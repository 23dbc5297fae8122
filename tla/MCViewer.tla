------------------------------ MODULE MCViewer ------------------------------
(***************************************************************************)
(* Four events of one and two lines for TLC; a search that selects two     *)
(* events that are not neighbours, one without a key word, which selects   *)
(* nothing, and one that fails.                                            *)
(***************************************************************************)
EXTENDS Viewer, TLC

CONSTANTS none, byUser, keyless, broken

MCLines == <<1, 2, 1, 2>>

MCWheelSteps == {-3, 1}

MCMatches == none :> {} @@ byUser :> {2, 4} @@ keyless :> {} @@ broken :> {1, 2}
=============================================================================
