-------------------------- MODULE SearchDuringLoad --------------------------
(***************************************************************************)
(* Searches while a directory loads: the loading thread and the committing *)
(* threads of ReadFiles together with the window's thread, which runs      *)
(* Edit::OnFind on the same connection, without the mutex.  BEGIN fails    *)
(* inside any transaction; the thread that asked for it then stands in the *)
(* message box of Exec, and the process ends when that is answered.        *)
(*                                                                         *)
(* The calls of SQLite are atomic.  Searches begin after Db::Open has      *)
(* returned; the process does not die from outside (ReadFiles treats that).*)
(***************************************************************************)
EXTENDS ReadFiles

CONSTANTS Texts,    \* the texts of the search field
          NoText,   \* the empty one
          Found,    \* Found[s]: the names of the events the SQL of s selects
          Failing   \* the texts whose SQL fails while it is executed

ASSUME SearchAssumption ==
  /\ NoText \in Texts \ Failing
  /\ Found \in [Texts -> SUBSET Names]

VARIABLES
  ui,         \* where the window's thread is in OnFind
  findStr,    \* find_str_
  findResult, \* table mem.find_result, in the order of its totals
  counted,    \* what the query of CountLines has returned
  stuck,      \* a BEGIN of the loader or of a committing thread has failed
  statusOpen  \* the row ALL_DATA_LOAD belongs to the transaction of a search

searchVars == <<ui, findStr, findResult, counted, stuck, statusOpen>>
allVars == <<vars, searchVars>>

FoundRows == [id : Nat \ {0}, agr : Nat]

SearchTypeOK ==
  /\ ui \in {"idle", "select", "commit", "box", "count", "store",
             "beginFailed", "nestedFailed"}
  /\ findStr \in Texts
  /\ findResult \in Seq(FoundRows)
  /\ counted \in Nat
  /\ countLines \in Nat
  /\ stuck \in BOOLEAN
  /\ statusOpen \in BOOLEAN
  /\ statusOpen => status /\ ui \in {"select", "commit", "box", "nestedFailed"}

SearchInit ==
  /\ Init
  /\ ui = "idle" /\ findStr = NoText /\ findResult = << >> /\ counted = 0
  /\ stuck = FALSE /\ statusOpen = FALSE

-----------------------------------------------------------------------------
(* The threads of the loader                                               *)

(* ReadDirectory begins a transaction whether or not the index is new.     *)
LoaderBegins == pc = "readDirectory"

LoaderStep ==
  /\ LoaderBegins => ~txn /\ ~stuck
  /\ LoaderNext
  /\ statusOpen' = (statusOpen \/ (pc = "status" /\ txn))
  /\ UNCHANGED <<ui, findStr, findResult, counted, stuck>>

CommitterBegins(t) == pc # "terminated" /\ threads[t].pc = "begin"

CommitterStep(t) ==
  /\ CommitterBegins(t) => ~txn /\ ~stuck
  /\ CommitterNext(t)
  /\ UNCHANGED searchVars

(* Wrong: the transaction is begun again as long as another one is open.   *)
BeginFailsRetried ==
  /\ txn /\ ~stuck
  /\ UNCHANGED allVars

(* Exec shows what failed before it throws; what it shows waits for the    *)
(* user, and the other threads go on.                                      *)
BeginFails ==
  /\ txn /\ ~stuck
  /\ stuck' = TRUE
  /\ UNCHANGED <<vars, ui, findStr, findResult, counted, statusOpen>>

LoaderThread == LoaderStep \/ (LoaderBegins /\ BeginFails)

CommitterThread(t) == CommitterStep(t) \/ (CommitterBegins(t) /\ BeginFails)

-----------------------------------------------------------------------------
(* The window's thread                                                     *)

(* The connection is open and its tables are there.                        *)
Opened == pc \notin {"start", "createDb", "terminated"}

(* Wrong: inside a transaction the search goes on without one of its own.  *)
FindBeginJoins(s) ==
  /\ ui = "idle" /\ Opened
  /\ findStr' = s
  /\ txn' = TRUE /\ ui' = "select"
  /\ UNCHANGED <<dbVars, pending, pendingEnts, readVars, loaderVars, mutex, threads,
                 kills, findResult, counted, stuck, statusOpen>>

(* Wrong: BEGIN stands in the try block, whose handler rolls back.         *)
FindBeginRollsBack(s) ==
  /\ ui = "idle" /\ Opened
  /\ findStr' = s
  /\ IF txn THEN /\ txn' = FALSE /\ pending' = << >> /\ pendingEnts' = NoEntities
                 /\ ui' = "count"
     ELSE txn' = TRUE /\ ui' = "select" /\ UNCHANGED <<pending, pendingEnts>>
  /\ UNCHANGED <<dbVars, readVars, loaderVars, mutex, threads, kills, findResult,
                 counted, stuck, statusOpen>>

(* DirectoryWatcher::Find up to its try block.                             *)
FindBegin(s) ==
  /\ ui = "idle" /\ Opened
  /\ findStr' = s
  /\ IF txn THEN ui' = "beginFailed" /\ UNCHANGED txn
            ELSE ui' = "select" /\ txn' = TRUE
  /\ UNCHANGED <<dbVars, pending, pendingEnts, readVars, loaderVars, mutex, threads,
                 kills, findResult, counted, stuck, statusOpen>>

(* The rows a connection sees: its own uncommitted ones too.               *)
Visible == journal \o pending

NameOf(r) == {p[2] : p \in {q \in saved["event"] \cup pendingEnts["event"] : q[1] = r.event_id}}

Selects(s, r) == NameOf(r) \cap Found[s] # {}

(* A row of the result, with a running total that begins at 0.             *)
CallbackFind(rows, id, lines) ==
  Append(rows, [id |-> id, agr |-> lines + IF rows = << >> THEN 0 ELSE rows[Len(rows)].agr])

(* It is called for the selected rows of a table in their order.           *)
ResultOf(table, ids) ==
  LET inserted[i \in 0 .. Len(table)] ==
        IF i = 0 THEN << >>
        ELSE IF i \in ids THEN CallbackFind(inserted[i - 1], i, table[i].lines)
        ELSE inserted[i - 1]
  IN  inserted[Len(table)]

Result(s, table) == ResultOf(table, {i \in DOMAIN table : Selects(s, table[i])})

(* ClearFindTable and the SELECT, whose callback inserts row after row.    *)
(* When it fails, the message box stands inside the transaction.           *)
FindSelect ==
  /\ ui = "select" /\ pc # "terminated"
  /\ IF findStr \in Failing
     THEN /\ ui' = "box"
          /\ findResult' \in {findResult} \cup
               {SubSeq(Result(findStr, Visible), 1, n) :
                  n \in 0 .. Len(Result(findStr, Visible))}
     ELSE /\ ui' = "commit"
          /\ findResult' = IF findStr = NoText THEN << >> ELSE Result(findStr, Visible)
  /\ UNCHANGED <<vars, findStr, counted, stuck, statusOpen>>

(* COMMIT commits whatever the connection has written.                     *)
FindCommit ==
  /\ ui = "commit" /\ pc # "terminated"
  /\ IF txn
     THEN /\ txn' = FALSE /\ ui' = "count"
          /\ journal' = Visible /\ pending' = << >>
          /\ saved' = [k \in Kinds |-> saved[k] \cup pendingEnts[k]]
          /\ pendingEnts' = NoEntities
          /\ UNCHANGED pc
     ELSE pc' = "terminated" /\ UNCHANGED <<txnVars, journal, saved, ui>>
  /\ statusOpen' = FALSE
  /\ UNCHANGED <<dbFile, fileTable, status, readVars, newDb, files, filesIsRead, mutex,
                 threads, kills, findStr, findResult, counted, stuck>>

(* The box is closed and the handler rolls back.  Without a journal a row  *)
(* that another thread has written in the transaction is kept or lost.     *)
FindRollback ==
  /\ ui = "box" /\ pc # "terminated"
  /\ txn' = FALSE /\ ui' = "count"
  /\ IF statusOpen THEN status' \in BOOLEAN ELSE UNCHANGED status
  /\ statusOpen' = FALSE
  /\ UNCHANGED <<dbFile, fileTable, journal, saved, pending, pendingEnts, readVars,
                 loaderVars, mutex, threads, kills, findStr, findResult, counted, stuck>>

(* The box has no owner, so the field under it takes another search, whose *)
(* BEGIN fails inside the transaction of the first.                        *)
NestedFind(s) ==
  /\ ui = "box" /\ pc # "terminated"
  /\ findStr' = s
  /\ ui' = "nestedFailed"
  /\ UNCHANGED <<vars, findResult, counted, stuck, statusOpen>>

(* A box that tells of a failed BEGIN is closed: nobody catches.           *)
Answer ==
  /\ pc # "terminated"
  /\ stuck \/ ui \in {"beginFailed", "nestedFailed"}
  /\ pc' = "terminated"
  /\ UNCHANGED <<dbVars, txnVars, readVars, newDb, files, filesIsRead, mutex, threads,
                 kills, searchVars>>

(* Wrong: the column of no row is no number.                               *)
LastTotalOfNone(table) == IF table = << >> THEN NoId ELSE table[Len(table)].agr

LastTotal(table) == IF table = << >> THEN 0 ELSE table[Len(table)].agr

(* UpdateDisplay asks CountLines, which keeps the number in count_lines_,  *)
(* the member from which the loader takes the total of the next hour.      *)
CountQuery ==
  /\ ui = "count" /\ pc # "terminated"
  /\ counted' = LastTotal(IF findStr = NoText THEN Visible ELSE findResult)
  /\ ui' = "store"
  /\ UNCHANGED <<vars, findStr, findResult, stuck, statusOpen>>

CountStore ==
  /\ ui = "store" /\ pc # "terminated"
  /\ countLines' = counted
  /\ ui' = "idle"
  /\ UNCHANGED <<dbVars, txnVars, cur, evt, time, records, countCur, dict, nextId,
                 newEnts, loaderVars, mutex, threads, kills, findStr, findResult,
                 counted, stuck, statusOpen>>

FindNext == FindSelect \/ FindCommit \/ CountQuery \/ CountStore

ProcessEnded == pc = "terminated" /\ UNCHANGED allVars

SearchNext ==
  \/ LoaderThread
  \/ \E t \in DOMAIN threads : CommitterThread(t)
  \/ \E s \in Texts : FindBegin(s) \/ NestedFind(s)
  \/ FindNext
  \/ FindRollback
  \/ Answer
  \/ ProcessEnded

(* Threads that can run do; boxes and searches are the user's.             *)
SearchFairness ==
  /\ WF_allVars(LoaderThread)
  /\ WF_allVars(\E t \in DOMAIN threads : CommitterThread(t))
  /\ WF_allVars(FindNext)

SearchSpec == SearchInit /\ [][SearchNext]_allVars /\ SearchFairness

-----------------------------------------------------------------------------
(* Properties                                                              *)

(* The threads that are inside a transaction of their own.                 *)
SearchInside == ui \in {"select", "commit", "box", "nestedFailed"}

Owners ==
  (IF SearchInside THEN {<<"search", 0>>} ELSE {})
  \cup (IF pc = "commitFiles" THEN {<<"loader", 0>>} ELSE {})
  \cup {<<"hour", t>> : t \in {u \in DOMAIN threads : threads[u].pc \in InsideTransaction}}

(* The window's thread does not take the mutex, and still the connection's *)
(* transaction belongs to one thread, whose rows alone are in it: a        *)
(* collision ends the process before one thread commits, or rolls back,    *)
(* what another has written.                                               *)
OneOwner ==
  pc # "terminated" =>
    /\ txn <=> Owners # {}
    /\ Cardinality(Owners) <= 1
    /\ \A t \in DOMAIN threads : <<"hour", t>> \in Owners => Len(pending) = threads[t].next - 1
    /\ SearchInside => pending = << >> /\ pendingEnts = NoEntities

(* The first n rows of the journal are those of whole hours.               *)
WholeHours(n) ==
  LET there == {EventOf(journal[i]) : i \in 1 .. n}
  IN  \A d \in there, e \in IndexedEvents : HourOf(d) = HourOf(e) => e \in there

(* The result of a search is that of a number of whole hours: the matching *)
(* rows up to the end of an hour, with the totals of their own lines,      *)
(* however much is written before, during and after the search.            *)
SearchOfWholeHours ==
  ui \in {"count", "store", "idle"} /\ findStr \notin Failing =>
    \E n \in 0 .. Len(journal) :
      /\ WholeHours(n)
      /\ findResult = IF findStr = NoText THEN << >>
                      ELSE Result(findStr, SubSeq(journal, 1, n))

(* CountLines of a search replaces the total from which the next hour is   *)
(* counted.  The damage stays at the beginning of an hour: inside one the  *)
(* totals go on without a gap.                                             *)
TotalsWithinHour ==
  \A i \in DOMAIN journal \ {1} :
    journal[i].time \div HourSpan = journal[i - 1].time \div HourSpan
      => journal[i].agr = journal[i - 1].agr + journal[i].lines

(* No search makes the load lose, repeat or reorder an event: what is      *)
(* committed grows by whole hours, as JournalIndex says.                   *)
SearchedIndex == INSTANCE JournalIndex WITH
  AllEvents <- IndexedEvents,
  index <- [i \in DOMAIN journal |-> EventOf(journal[i])],
  phase <- IF status /\ ~statusOpen THEN "complete"
           ELSE IF dbFile = "absent" \/ newDb THEN "building" ELSE "partial"

IndexByHours == SearchedIndex!Init /\ [][SearchedIndex!Next]_(SearchedIndex!vars)

(* Searches, failing ones too, do not hold the load up for ever: it ends,  *)
(* or a message box that tells of a collision stands open.                 *)
LoadEndsOrTells == <>[](pc \in {"done", "terminated"} \/ stuck)

=============================================================================
