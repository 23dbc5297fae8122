-------------------------- MODULE MCSearchDuringLoad --------------------------
(***************************************************************************)
(* Three hours for TLC, the first of two servers, and three searches: for  *)
(* events that every hour has, for nothing, and one that fails.            *)
(***************************************************************************)
EXTENDS SearchDuringLoad, TLC

CONSTANTS a1, a2, b, c, srv, call, lock, none, byCall, broken

MCHour == a1 :> 1 @@ a2 :> 1 @@ b :> 2 @@ c :> 3

MCProcess == [f \in LogFiles |-> srv]

Event(o, l, n) == [offset |-> o, lines |-> l, name |-> n]

MCEvents ==
  a1 :> <<Event(2, 2, call)>> @@ a2 :> <<Event(1, 3, lock)>>
  @@ b :> <<Event(0, 1, call), Event(1, 1, call)>> @@ c :> <<Event(3, 1, call)>>

MCFound == none :> {} @@ byCall :> {call} @@ broken :> {lock}
=============================================================================
