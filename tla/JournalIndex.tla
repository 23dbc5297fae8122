---------------------------- MODULE JournalIndex ----------------------------
(***************************************************************************)
(* What the index of a log directory (the file data.sqlite3) promises to   *)
(* the viewer, whatever threads and transactions build it: the events of   *)
(* the directory come in one sequence ordered by time, an hour of logs at  *)
(* a time, and a build that is interrupted leaves a beginning of that      *)
(* sequence which is never continued.                                      *)
(***************************************************************************)
EXTENDS Naturals, Sequences, FiniteSets

CONSTANTS AllEvents,       \* the events of the directory's readable files
          HourOf(_),       \* the hour (YYMMDDHH) an event's file is of
          TimeOf(_)        \* the time stamp of an event

VARIABLES index,           \* the events of the journal table, by id
          phase            \* "building", "complete" or "partial"

vars == <<index, phase>>

Hours == {HourOf(e) : e \in AllEvents}

Indexed == {index[i] : i \in DOMAIN index}

EventsOf(h) == {e \in AllEvents : HourOf(e) = h}

(* The arrangements of S in time order; events of one time stamp come in   *)
(* any order, because std::sort is not stable.                             *)
InTimeOrder(S) ==
  {s \in [1..Cardinality(S) -> S] :
      /\ \A e \in S : \E i \in DOMAIN s : s[i] = e
      /\ \A i, j \in DOMAIN s : i < j => TimeOf(s[i]) <= TimeOf(s[j])}

(* The earliest hour none of whose events is indexed.                      *)
NextHours ==
  {h \in Hours :
      /\ EventsOf(h) \cap Indexed = {}
      /\ \A g \in Hours : EventsOf(g) \cap Indexed = {} => h <= g}

Init == index = << >> /\ phase = "building"

AddHour ==
  /\ phase = "building"
  /\ \E h \in NextHours : \E s \in InTimeOrder(EventsOf(h)) : index' = index \o s
  /\ UNCHANGED phase

Finish ==
  /\ phase = "building"
  /\ NextHours = {}
  /\ phase' = "complete"
  /\ UNCHANGED index

(* The process dies: a beginning of the hour being written may remain.     *)
Interrupt ==
  /\ phase = "building"
  /\ phase' = "partial"
  /\ \/ UNCHANGED index
     \/ \E h \in NextHours : \E s \in InTimeOrder(EventsOf(h)) :
          \E n \in DOMAIN s : index' = index \o SubSeq(s, 1, n)

Next == AddHour \/ Finish \/ Interrupt

Spec == Init /\ [][Next]_vars /\ WF_vars(AddHour \/ Finish)

=============================================================================
