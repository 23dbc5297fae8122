----------------------------- MODULE MCReadFiles -----------------------------
(***************************************************************************)
(* A directory of five files for TLC: two servers in the first hour, whose *)
(* events interleave and have one time stamp in common, one file of the    *)
(* next hour, and in the last hour a file without a byte order mark and    *)
(* one with a single event of a new name.                                  *)
(***************************************************************************)
EXTENDS ReadFiles, TLC

CONSTANTS a1, a2, b, c1, c2, rphost, ragent, call, lock, excp

MCHour == a1 :> 1 @@ a2 :> 1 @@ b :> 2 @@ c1 :> 3 @@ c2 :> 3

MCProcess == a1 :> rphost @@ a2 :> ragent @@ b :> rphost @@ c1 :> ragent @@ c2 :> ragent

Event(o, l, n) == [offset |-> o, lines |-> l, name |-> n]

MCEvents ==
  a1 :> <<Event(2, 2, call), Event(1, 1, lock)>> @@ a2 :> <<Event(1, 3, call)>>
  @@ b :> <<Event(0, 1, lock)>> @@ c1 :> << >> @@ c2 :> <<Event(3, 1, excp)>>
=============================================================================
