--------------------------- MODULE MCLockAnalysis ---------------------------
(***************************************************************************)
(* LockAnalysis for TLC. Connection 1 is the victim of waits and timeouts  *)
(* on locks of connection 2; one register, two rows of it.                 *)
(***************************************************************************)
EXTENDS LockAnalysis

CONSTANTS dim, x, y, reg

LockOn(v) == {[space |-> reg, type |-> "Exclusive", values |-> [f \in {dim} |-> {v}]]}

SDBL(c, begin)       == [name |-> "SDBL", conn |-> c, begin |-> begin]
TLOCK(c, waits, v)   == [name |-> "TLOCK", conn |-> c, waits |-> waits, locks |-> LockOn(v)]
TTIMEOUT(c, waits)   == [name |-> "TTIMEOUT", conn |-> c, waits |-> waits]

(* Timeouts and waits of connection 1 for connection 2.                    *)
TimeoutAlphabet ==
  {SDBL(1, TRUE), SDBL(2, TRUE), SDBL(2, FALSE), TLOCK(1, {2}, x), TLOCK(1, {}, x),
   TLOCK(2, {}, x), TLOCK(2, {}, y), TTIMEOUT(1, {2})}

TimeoutJournals == [1 .. 5 -> TimeoutAlphabet]

WaitJournals == [1 .. 5 -> TimeoutAlphabet \ {TTIMEOUT(1, {2})}]

(* A deadlock of connections 1 and 2 after any four events; both failed    *)
(* locks are logged after it, among others.                                *)
DeadlockAlphabet ==
  {SDBL(1, TRUE), SDBL(2, TRUE), SDBL(2, FALSE), TLOCK(1, {}, y), TLOCK(2, {}, x), TLOCK(2, {}, y)}

Deadlock ==
  <<[name |-> "TDEADLOCK", conn |-> 1,
     first |-> [conn |-> 1, locks |-> LockOn(x)],
     second |-> [conn |-> 2, locks |-> LockOn(y)]],
    TLOCK(1, {}, y), TLOCK(1, {2}, x), TLOCK(2, {1}, y), TLOCK(2, {1}, x)>>

DeadlockJournals == {s \o Deadlock : s \in [1 .. 4 -> DeadlockAlphabet]}

AllJournals == TimeoutJournals \cup DeadlockJournals
=============================================================================
