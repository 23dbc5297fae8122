---------------------------- MODULE LockAnalysis ----------------------------
(***************************************************************************)
(* The three analyses of the context menu, DirectoryWatcher::Analyze*, on  *)
(* a journal of the events of several connections: from a TTIMEOUT, a      *)
(* waiting TLOCK or a TDEADLOCK event they collect the rows to show, the   *)
(* victim's (0) and the culprits' (1), by walking the journal with         *)
(* Db::Prev, Db::Next and Db::PrevAll. The texts of the events are         *)
(* abstracted to what the parsers take from them.                          *)
(***************************************************************************)
EXTENDS Locks, Naturals, Sequences, FiniteSetsExt

CONSTANTS Connections,  \* the values of t:connectID
          Journals      \* the journals

(* conn: t:connectID; begin: the text of an SDBL event has                 *)
(* Func=BeginTransaction; waits: WaitConnections; locks: the Locks object  *)
(* of a TLOCK; first, second: the two intersections of a TDEADLOCK, each a *)
(* connection and the locks it asks for.                                   *)
Blocked == [conn : Connections, locks : SUBSET LockObjects]

JournalEvents ==
  [name : {"SDBL"}, conn : Connections, begin : BOOLEAN]
  \cup [name : {"TLOCK"}, conn : Connections, waits : SUBSET Connections,
        locks : SUBSET LockObjects]
  \cup [name : {"TTIMEOUT"}, conn : Connections, waits : SUBSET Connections]
  \cup [name : {"TDEADLOCK"}, conn : Connections, first : Blocked, second : Blocked]

ASSUME AnalysisAssumption == Journals \subseteq Seq(JournalEvents)

VARIABLES journal,   \* the events, by id
          event,     \* the id of the event analysed, 0 before the first analysis
          rows       \* id_rows: the rows <<id, role>> the analysis found

vars == <<journal, event, rows>>

Victim  == 0
Culprit == 1

TypeOK ==
  /\ journal \in Seq(JournalEvents)
  /\ event \in {0} \cup DOMAIN journal
  /\ rows \subseteq (DOMAIN journal) \X {Victim, Culprit}

-----------------------------------------------------------------------------
(* Db::Prev: the nearest event of a name and a connection before id, 0 if  *)
(* there is none. Db::PrevAll: all of them between two ids.                *)
Of(name, c) == {i \in DOMAIN journal : journal[i].name = name /\ journal[i].conn = c}

Prev(id, name, c) ==
  LET before == {i \in Of(name, c) : i < id} IN IF before = {} THEN 0 ELSE Max(before)

(* Wrong: the query has no lower bound.                                    *)
PrevAllFromStart(first, second, name, c) == {i \in Of(name, c) : i < second}

PrevAll(first, second, name, c) == {i \in Of(name, c) : first < i /\ i < second}

(* Wrong: any SDBL event is taken for a beginning.                         *)
BeginSearchAnySDBL(e, c) == [begin |-> Prev(e, "SDBL", c), id |-> e]

(* The loop that looks for the beginning of c's transaction: back from the *)
(* event e to an SDBL event with BeginTransaction. "begin" is its id, or 0;*)
(* "id" is what the loop leaves in the variable id: the last SDBL event    *)
(* passed by on the way, or e.                                             *)
BeginSearch(e, c) ==
  LET search[id \in 1 .. e] ==
        LET p == Prev(id, "SDBL", c)
        IN  IF p = 0 \/ journal[p].begin THEN [begin |-> p, id |-> id] ELSE search[p]
  IN  search[e]

(* Wrong: the connections waited for are not compared.                     *)
FailedLockOfAnyWait(e, c, waits) ==
  LET after == {i \in Of("TLOCK", c) : i > e} IN IF after = {} THEN 0 ELSE Min(after)

(* The loops of Db::Next that look for the lock that could not be set: the *)
(* first TLOCK of c after e whose connections waited for are one of waits. *)
FailedLock(e, c, waits) ==
  LET after == {i \in Of("TLOCK", c) : i > e /\ journal[i].waits \in waits}
  IN  IF after = {} THEN 0 ELSE Min(after)

(* TLock::CheckWaitConnection.                                             *)
WaitingFor(c) == {w \in SUBSET Connections : c \in w}

(* Wrong: the id 0 of an event that is not there is shown.                 *)
RowsOfAll(ids, role) == ids \X {role}

RowsOf(ids, role) == (ids \ {0}) \X {role}

Incompatible(ids, ls) == {i \in ids : LocksAreLocking(journal[i].locks, ls)}

-----------------------------------------------------------------------------
(* Wrong: id is not reset after the search.                                *)
AnalyzeTTimeOutUpToSDBL(e) ==
  LET c     == journal[e].conn
      fail  == FailedLock(e, c, {journal[e].waits})
      found == IF fail = 0 THEN {}
               ELSE UNION {LET s == BeginSearch(e, w) IN
                             {s.begin} \cup Incompatible(PrevAll(s.begin, s.id, "TLOCK", w),
                                                         journal[fail].locks)
                           : w \in journal[fail].waits}
  IN
  /\ journal[e].name = "TTIMEOUT"
  /\ event' = e
  /\ rows' = RowsOf({e, BeginSearch(e, c).begin, fail}, Victim) \cup RowsOf(found, Culprit)
  /\ UNCHANGED journal

(* AnalyzeTTimeOut: the TLOCK that timed out is logged after the TTIMEOUT. *)
AnalyzeTTimeOut(e) ==
  LET c     == journal[e].conn
      fail  == FailedLock(e, c, {journal[e].waits})
      found == IF fail = 0 THEN {}
               ELSE UNION {LET begin == BeginSearch(e, w).begin IN
                             {begin} \cup Incompatible(PrevAll(begin, e, "TLOCK", w),
                                                       journal[fail].locks)
                           : w \in journal[fail].waits}
  IN
  /\ journal[e].name = "TTIMEOUT"
  /\ event' = e
  /\ rows' = RowsOf({e, BeginSearch(e, c).begin, fail}, Victim) \cup RowsOf(found, Culprit)
  /\ UNCHANGED journal

(* AnalyzeTLock: PrevAll is given the id that the loop left.               *)
AnalyzeTLock(e) ==
  LET c     == journal[e].conn
      found == UNION {LET s == BeginSearch(e, w) IN
                        {s.begin} \cup Incompatible(PrevAll(s.begin, s.id, "TLOCK", w),
                                                    journal[e].locks)
                      : w \in journal[e].waits}
  IN
  /\ journal[e].name = "TLOCK" /\ journal[e].waits # {}
  /\ event' = e
  /\ rows' = RowsOf({e, BeginSearch(e, c).begin}, Victim) \cup RowsOf(found, Culprit)
  /\ UNCHANGED journal

(* AnalyzeTDeadlock: both calls of PrevAll are given the beginning of the  *)
(* first connection's transaction, and the id that the loop for the second *)
(* one left. Without one of the failed locks the code takes the text of no *)
(* event apart, which is undefined; that case is left out.                 *)
AnalyzeTDeadlock(e) ==
  LET a == journal[e].first
      b == journal[e].second
      failA  == FailedLock(e, a.conn, WaitingFor(b.conn))
      failB  == FailedLock(e, b.conn, WaitingFor(a.conn))
      beginA == BeginSearch(e, a.conn).begin
      beginB == BeginSearch(e, b.conn).begin
      id     == BeginSearch(e, b.conn).id
      foundA == Incompatible(PrevAll(beginA, id, "TLOCK", a.conn), b.locks)
      foundB == Incompatible(PrevAll(beginA, id, "TLOCK", b.conn), a.locks)
  IN
  /\ journal[e].name = "TDEADLOCK" /\ failA # 0 /\ failB # 0
  /\ event' = e
  /\ rows' = RowsOf({e, failA, beginA} \cup foundA, Victim)
             \cup RowsOf({failB, beginB} \cup foundB, Culprit)
  /\ UNCHANGED journal

(* A journal with an event to analyse: the menu offers nothing on others.  *)
Init ==
  /\ journal \in Journals
  /\ \E i \in DOMAIN journal :
       \/ journal[i].name = "TTIMEOUT"
       \/ journal[i].name = "TDEADLOCK"
       \/ journal[i].name = "TLOCK" /\ journal[i].waits # {}
  /\ event = 0
  /\ rows = {}

Next ==
  \E e \in DOMAIN journal :
    AnalyzeTTimeOut(e) \/ AnalyzeTLock(e) \/ AnalyzeTDeadlock(e)

Spec == Init /\ [][Next]_vars

-----------------------------------------------------------------------------
(* Properties                                                              *)

(* i is in the transaction of its connection that is open at the event e.  *)
InTransaction(i, e) ==
  LET c == journal[i].conn IN
  /\ i < e
  /\ \E b \in 1 .. i : b \in Of("SDBL", c) /\ journal[b].begin
  /\ \A b \in i .. e : ~(b \in Of("SDBL", c) /\ journal[b].begin)

(* The locks that connection c set in that transaction and that exclude ls.*)
Blocking(e, c, ls) ==
  {i \in Of("TLOCK", c) : InTransaction(i, e) /\ LocksAreLocking(journal[i].locks, ls)}

Analysed(name) == event # 0 /\ journal[event].name = name

(* The analysis of a timeout shows, for the failed lock it found, every    *)
(* lock of the connections it waited for that excludes it and was set in   *)
(* the transaction that is open at the timeout.                            *)
TimeoutCulpritsShown ==
  Analysed("TTIMEOUT") =>
    LET failed == {i \in DOMAIN journal : <<i, Victim>> \in rows /\ i > event} IN
    \A f \in failed : \A c \in journal[f].waits :
      Blocking(event, c, journal[f].locks) \X {Culprit} \subseteq rows

(* The lock a timeout's analysis shows as failed is a lock of the same     *)
(* connection that waited for the same ones, and the nearest such.         *)
TimeoutLockIsNearest ==
  Analysed("TTIMEOUT") =>
    LET e == journal[event]
        same(i) == i > event /\ journal[i].name = "TLOCK" /\ journal[i].conn = e.conn
                     /\ journal[i].waits = e.waits
    IN  \A i \in DOMAIN journal :
          i > event => (<<i, Victim>> \in rows
                          <=> same(i) /\ \A j \in event + 1 .. i - 1 : ~same(j))

(* What the analysis of a timeout or of a wait shows of a connection       *)
(* waited for, when that connection has a transaction open at the event,   *)
(* is the beginning of that transaction or a lock set in it: no row of an  *)
(* earlier transaction, none after the event.                              *)
CulpritsInTransaction ==
  Analysed("TTIMEOUT") \/ Analysed("TLOCK") =>
    \A i \in DOMAIN journal : <<i, Culprit>> \in rows =>
      LET c == journal[i].conn
          begins == {b \in Of("SDBL", c) : b < event /\ journal[b].begin}
      IN  i < event /\ (begins # {} => i >= Max(begins))

(* A deadlock is shown from both sides: of each connection the beginning   *)
(* of the transaction that is open at the deadlock and, of what is logged  *)
(* after it, the nearest lock that waited for the other connection; and    *)
(* the rows of a role, the deadlock aside, are all of its connection.      *)
DeadlockSidesShown ==
  Analysed("TDEADLOCK") =>
    LET a == journal[event].first.conn
        b == journal[event].second.conn
        waits(i, c, d) == i > event /\ i \in Of("TLOCK", c) /\ d \in journal[i].waits
        side(c, d, role) ==
          LET shown  == {i \in DOMAIN journal \ {event} : <<i, role>> \in rows}
              begins == {i \in Of("SDBL", c) : i < event /\ journal[i].begin}
          IN  /\ \A i \in shown : journal[i].conn = c
              /\ begins # {} => Max(begins) \in shown
              /\ \A i \in DOMAIN journal :
                   i > event => (i \in shown <=> waits(i, c, d)
                                  /\ \A j \in event + 1 .. i - 1 : ~waits(j, c, d))
    IN  side(a, b, Victim) /\ side(b, a, Culprit)

(* "For each connection that the wait is due to we look for the beginning  *)
(* of the transaction and the locks": the analysis of a wait shows every   *)
(* incompatible lock of the open transactions of the connections waited    *)
(* for.                                                                    *)
WaitCulpritsShown ==
  Analysed("TLOCK") =>
    \A c \in journal[event].waits :
      Blocking(event, c, journal[event].locks) \X {Culprit} \subseteq rows

(* "Successful incompatible locks of the first connection", "... of the    *)
(* second connection": the analysis of a deadlock shows them all.          *)
DeadlockLocksShown ==
  Analysed("TDEADLOCK") =>
    LET a == journal[event].first
        b == journal[event].second
    IN  /\ Blocking(event, a.conn, b.locks) \X {Victim} \subseteq rows
        /\ Blocking(event, b.conn, a.locks) \X {Culprit} \subseteq rows
=============================================================================
