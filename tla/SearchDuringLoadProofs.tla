----------------------- MODULE SearchDuringLoadProofs -----------------------
(***************************************************************************)
(* Searches during a load, for any directory, any texts of searches and    *)
(* any number of them: the transaction of the one connection has one       *)
(* owner, though the window's thread does not take the mutex; a search     *)
(* sees whole hours; and all that ReadFiles says of the journal but its    *)
(* totals is as true with searches as without, because what the loader's   *)
(* threads rely on is that nobody gets into their transactions.            *)
(***************************************************************************)
EXTENDS SearchDuringLoad, ReadFilesProofs, DataInduction

-----------------------------------------------------------------------------
(* While the process lives, the journal is as without searches, for the    *)
(* search and the loader's threads are never inside a transaction at the   *)
(* same time: who finds one open does not get in.                          *)
OneInside == (txn <=> SearchInside \/ LoadOwns) /\ ~(SearchInside /\ LoadOwns)

NothingLeft == (\A t \in DOMAIN threads : ~Writing(t)) => pendingEnts = NoEntities

BuiltHere == IF pc = "start" THEN dbFile = "absent" ELSE newDb

Live == CompleteInv /\ OneInside /\ NothingLeft /\ BuiltHere

LiveInv == pc # "terminated" => Live

(* Before the program starts nothing is open.                              *)
LEMMA LiveInit == SearchInit => Live
BY CompleteInit
   DEF SearchInit, Init, Live, OneInside, NothingLeft, BuiltHere, SearchInside, LoadOwns, Writing

(* A step of the program: of the loader, of an hour's thread, of the       *)
(* window's thread; a box that is closed ends the process; then nothing    *)
(* happens.                                                                *)
WindowStep ==
  \/ BeginFails
  \/ \E s \in Texts : FindBegin(s) \/ NestedFind(s)
  \/ FindNext
  \/ FindRollback

LEMMA StepsOfAll ==
  ASSUME [SearchNext]_allVars
  PROVE  \/ pc # "terminated" /\ LoaderStep
         \/ pc # "terminated" /\ \E t \in DOMAIN threads : CommitterStep(t)
         \/ pc # "terminated" /\ WindowStep
         \/ pc # "terminated" /\ Answer
         \/ UNCHANGED allVars
<1>1. CASE LoaderThread
  <2>1. CASE LoaderStep
    BY <2>1 DEF LoaderStep, LoaderNext, OpenNew, CreateDb, OpenExisting, ListFiles, CommitFiles,
                LoadFiles, BeginReadFiles, HourEnds, OpenFile, ReadEvent, CloseFile, FilesEnd,
                LastHourWritten, WriteStatus, ShowStatus, FilesAreRead
  <2>2. CASE LoaderBegins /\ BeginFails
    BY <2>2 DEF LoaderBegins, WindowStep
  <2>. QED BY <1>1, <2>1, <2>2 DEF LoaderThread
<1>2. ASSUME NEW t \in DOMAIN threads, CommitterThread(t)
      PROVE  \/ pc # "terminated" /\ \E u \in DOMAIN threads : CommitterStep(u)
             \/ pc # "terminated" /\ WindowStep
  BY <1>2 DEF CommitterThread, CommitterStep, CommitterNext, CommitterBegins, WindowStep
<1>3. CASE (\E s \in Texts : FindBegin(s) \/ NestedFind(s)) \/ FindNext \/ FindRollback
  <2>1. pc # "terminated"
    BY <1>3 DEF FindBegin, Opened, NestedFind, FindNext, FindSelect, FindCommit, CountQuery,
                CountStore, FindRollback
  <2>. QED BY <1>3, <2>1 DEF WindowStep
<1>4. CASE Answer
  BY <1>4 DEF Answer
<1>. QED BY <1>1, <1>2, <1>3, <1>4 DEF SearchNext, ProcessEnded

(* What of the index a step of the loading thread leaves as it is.         *)
LEMMA LoaderFrame ==
  ASSUME LoaderNext
  PROVE  /\ UNCHANGED <<journal, saved, pending, pendingEnts>>
         /\ threads' = threads \/ HandOver
         /\ OpenNew \/ OpenExisting \/ (pc # "start" /\ UNCHANGED <<dbFile, newDb>>) \/ CreateDb
         /\ CommitFiles \/ UNCHANGED fileTable
         /\ WriteStatus \/ (pc # "status" /\ UNCHANGED status)
         /\ pc' # "start"
<1>. USE DEF dbVars, txnVars, readVars, loaderVars
<1>1. CASE OpenNew \/ CreateDb \/ OpenExisting \/ ListFiles \/ CommitFiles \/ LoadFiles
  BY <1>1 DEF OpenNew, CreateDb, OpenExisting, ListFiles, CommitFiles, LoadFiles
<1>2. CASE HourEnds \/ OpenFile \/ ReadEvent \/ CloseFile \/ FilesEnd
  BY <1>2 DEF HourEnds, OpenFile, ReadEvent, CloseFile, FilesEnd
<1>3. CASE BeginReadFiles \/ LastHourWritten \/ WriteStatus \/ ShowStatus \/ FilesAreRead
  BY <1>3 DEF BeginReadFiles, LastHourWritten, WriteStatus, ShowStatus, FilesAreRead
<1>. QED BY <1>1, <1>2, <1>3 DEF LoaderNext

(* The loading thread gets into a transaction only when none is open.      *)
LEMMA LiveLoader ==
  ASSUME Live, LoaderStep
  PROVE  Live' /\ LoaderNext
<1>1. /\ LoaderNext /\ UNCHANGED ui
      /\ pc = "readDirectory" => ~txn
  BY DEF LoaderStep, LoaderBegins
<1>2. CompleteInv /\ WriterInv /\ TypeInv /\ OneInside
  BY CompleteFacts DEF Live, WriterInv
<1>3. WriterInv'
  BY <1>1, <1>2, TypeLoader, WriterLoader DEF WriterInv
<1>4. CompleteInv'
  BY <1>1, <1>2, <1>3, CompleteNext DEF Next
<1>5. OneInside'
  <2>1. SearchInside' = SearchInside
    BY <1>1 DEF SearchInside
  <2>2. LoadOwns' => txn'
    BY <1>3 DEF WriterInv, WriterParts, TxnHeld
  <2>. QED BY <1>1, <1>2, <2>1, <2>2, TxnOfLoader DEF OneInside
<1>6. NothingLeft'
  <2>1. CASE threads' = threads
    BY <1>1, <2>1, LoaderFrame DEF Live, NothingLeft, Writing
  <2>2. CASE HandOver
    <3>1. \A u \in DOMAIN threads : ~Writing(u)
      BY <1>2, <2>2, HandedOver DEF Writing, InsideTransaction
    <3>. QED BY <1>1, <3>1, LoaderFrame DEF Live, NothingLeft
  <2>. QED BY <1>1, <2>1, <2>2, LoaderFrame
<1>7. BuiltHere'
  <2>1. ~OpenExisting
    BY DEF OpenExisting, Live, BuiltHere
  <2>2. pc' # "start" /\ (OpenNew \/ CreateDb \/ (pc # "start" /\ newDb' = newDb))
    BY <1>1, <2>1, LoaderFrame
  <2>3. newDb'
    BY <2>2 DEF Live, BuiltHere, OpenNew, CreateDb
  <2>. QED BY <2>2, <2>3 DEF BuiltHere
<1>. QED BY <1>1, <1>4, <1>5, <1>6, <1>7 DEF Live

(* What a step of an hour's thread leaves, and how its pending entries go. *)
LEMMA CommitterFrame ==
  ASSUME Live, NEW t \in DOMAIN threads, CommitterStep(t)
  PROVE  /\ CommitterNext(t) /\ UNCHANGED searchVars
         /\ UNCHANGED <<pc, dbFile, newDb, fileTable, status>>
         /\ threads[t].pc = "begin" => ~txn
         /\ DOMAIN threads' = DOMAIN threads
         /\ \A u \in DOMAIN threads : u # t => threads'[u] = threads[u]
         /\ \/ threads'[t].pc \in InsideTransaction
            \/ Commit(t) /\ txn
            \/ threads[t].pc = "unlock" /\ UNCHANGED <<journal, pending, pendingEnts>>
<1>. USE DEF dbVars, txnVars, readVars, loaderVars
<1>1. /\ CommitterNext(t) /\ UNCHANGED searchVars /\ pc # "terminated"
      /\ threads[t].pc = "begin" => ~txn
  BY DEF CommitterStep, CommitterBegins, CommitterNext
<1>2. /\ threads \in Seq(Threads) /\ threads[t] \in Threads
      /\ Writing(t) => txn
  BY CompleteFacts, ThreadsOfSeq DEF Live, WriterInv, WriterParts, TxnHeld, LoadOwns
<1>3. ASSUME NEW q \in {"begin", "unlock", "done"} \cup InsideTransaction,
             threads' = [threads EXCEPT ![t].pc = q]
      PROVE  /\ DOMAIN threads' = DOMAIN threads /\ threads'[t].pc = q
             /\ \A u \in DOMAIN threads : u # t => threads'[u] = threads[u]
  BY <1>2, <1>3, ThreadStep DEF Threads
<1>4. CASE Begin(t)
  <2>1. ~txn
    BY <1>1, <1>4 DEF Begin
  <2>2. threads' = [threads EXCEPT ![t].pc = "save"] /\ UNCHANGED <<pc, dbFile, newDb, fileTable, status>>
    BY <1>4, <2>1 DEF Begin
  <2>. QED BY <1>1, <1>3, <2>1, <2>2 DEF InsideTransaction
<1>5. CASE SaveEntity(t)
  BY <1>1, <1>3, <1>5 DEF SaveEntity, InsideTransaction
<1>6. CASE EventsEnd(t)
  BY <1>1, <1>3, <1>6 DEF EventsEnd, InsideTransaction
<1>7. CASE InsertEvent(t)
  <2>. DEFINE r == threads[t].rows[threads[t].next]
              a == threads[t].agr + r.lines
              new == [threads[t] EXCEPT !.next = @ + 1, !.agr = a]
  <2>1. /\ threads[t].pc = "insert" /\ threads' = [threads EXCEPT ![t] = new]
        /\ UNCHANGED <<pc, dbFile, newDb, fileTable, status>>
    BY <1>7 DEF InsertEvent
  <2>2. new.pc = "insert"
    BY <1>2, <2>1 DEF Threads
  <2>. HIDE DEF new
  <2>. QED BY <1>1, <1>2, <2>1, <2>2 DEF InsideTransaction
<1>8. CASE Commit(t)
  <2>1. threads[t].pc = "commit" /\ txn
    BY <1>2, <1>8 DEF Commit, Writing, InsideTransaction
  <2>2. threads' = [threads EXCEPT ![t].pc = "unlock"] /\ UNCHANGED <<pc, dbFile, newDb, fileTable, status>>
    BY <1>8, <2>1 DEF Commit
  <2>. QED BY <1>1, <1>3, <1>8, <2>1, <2>2
<1>9. CASE Unlock(t)
  BY <1>1, <1>3, <1>9 DEF Unlock
<1>. QED BY <1>1, <1>4, <1>5, <1>6, <1>7, <1>8, <1>9 DEF CommitterNext

(* An hour's thread does too.                                              *)
LEMMA LiveCommitter ==
  ASSUME Live, NEW t \in DOMAIN threads, CommitterStep(t)
  PROVE  Live'
<1>1. /\ CommitterNext(t) /\ UNCHANGED <<ui, pc, newDb>>
      /\ threads[t].pc = "begin" => ~txn
      /\ DOMAIN threads' = DOMAIN threads
      /\ \A u \in DOMAIN threads : u # t => threads'[u] = threads[u]
      /\ \/ threads'[t].pc \in InsideTransaction
         \/ Commit(t) /\ txn
         \/ threads[t].pc = "unlock" /\ UNCHANGED <<journal, pending, pendingEnts>>
  BY CommitterFrame DEF searchVars
<1>2. CompleteInv /\ WriterInv /\ TypeInv /\ OneInside
  BY CompleteFacts DEF Live, WriterInv
<1>3. WriterInv'
  BY <1>1, <1>2, TypeCommitter, WriterCommitter DEF WriterInv
<1>4. CompleteInv'
  BY <1>1, <1>2, <1>3, CompleteNext DEF Next
<1>5. OneInside'
  <2>1. SearchInside' = SearchInside
    BY <1>1 DEF SearchInside
  <2>2. LoadOwns' => txn'
    BY <1>3 DEF WriterInv, WriterParts, TxnHeld
  <2>. QED BY <1>1, <1>2, <2>1, <2>2, TxnOfCommitter DEF OneInside
<1>6. NothingLeft'
  <2>1. CASE threads'[t].pc \in InsideTransaction
    BY <1>1, <2>1 DEF NothingLeft, Writing
  <2>2. CASE Commit(t) /\ txn
    BY <2>2 DEF Commit, NothingLeft
  <2>3. CASE threads[t].pc = "unlock" /\ UNCHANGED <<journal, pending, pendingEnts>>
    BY <1>1, <2>3 DEF Live, NothingLeft, Writing, InsideTransaction
  <2>. QED BY <1>1, <2>1, <2>2, <2>3
<1>7. BuiltHere'
  <2>1. pc # "start"
    <3>1. t \in 1 .. Len(threads)
      BY CompleteFacts, LenProperties DEF Live
    <3>2. Len(<< >>) = 0
      OBVIOUS
    <3>3. threads # << >>
      BY <3>1, <3>2
    <3>. QED BY <1>2, <3>3 DEF WriterInv, WriterParts, NoThreadYet, BeforeReading
  <2>. QED BY <1>1, <2>1 DEF Live, BuiltHere
<1>. QED BY <1>4, <1>5, <1>6, <1>7 DEF Live

(* When a search is inside its transaction there is nothing in it but what *)
(* the search has written itself.                                          *)
LEMMA SearchIsAlone ==
  ASSUME Live, SearchInside
  PROVE  /\ txn /\ ~LoadOwns /\ pending = << >> /\ pendingEnts = NoEntities
         /\ Visible = journal
<1>1. txn /\ ~LoadOwns
  BY DEF Live, OneInside
<1>2. pending = << >> /\ pendingEnts = NoEntities
  BY <1>1, CompleteFacts DEF Live, LoadOwns, WriterInv, WriterParts, PendingIsWritten, NothingLeft
<1>3. journal \in Seq(Rows)
  BY CompleteFacts DEF Live
<1>. QED BY <1>1, <1>2, <1>3, ConcatEmptySeq DEF Visible

(* The steps of the window's thread leave the journal as it is, and the    *)
(* loader where it is; what a search commits is its own.                   *)
LEMMA LiveWindow ==
  ASSUME Live, SearchTypeOK, WindowStep
  PROVE  Live' /\ Unnoticed
<1>. USE DEF dbVars, txnVars, readVars, loaderVars
<1>1. /\ CompleteInv /\ WriterInv /\ TypeInv /\ OneInside /\ NothingLeft /\ BuiltHere
      /\ status \in BOOLEAN /\ txn \in BOOLEAN /\ countLines \in Nat /\ counted \in Nat
      /\ journal \in Seq(Rows) /\ saved \in Entities
  BY CompleteFacts DEF Live, WriterInv, TypeOK, SearchTypeOK
<1>2. ASSUME Unnoticed, UNCHANGED <<mutex, kills, countCur>>, txn' \in BOOLEAN, countLines' \in Nat,
             txn' <=> SearchInside' \/ LoadOwns, ~(SearchInside' /\ LoadOwns)
      PROVE  Live'
  <2>1. /\ UNCHANGED <<pc, threads, mutex, pending, pendingEnts, dbFile, newDb, files, cur, dict>>
        /\ LoadOwns' = LoadOwns
    BY <1>2 DEF Unnoticed, LoadOwns, Writing
  <2>2. TypeInv'
    BY <1>1, <1>2 DEF Unnoticed, TypeInv, TypeOK, ProcessHasId
  <2>3. WriterParts'
    BY <1>1, <1>2, <2>1
       DEF WriterInv, WriterParts, NoThreadYet, OneAtWork, TxnHeld, PendingIsWritten, NeverFails, Writing
  <2>4. CompleteInv'
    BY <1>1, <1>2, <2>2, <2>3, CompleteUnnoticed DEF WriterInv
  <2>5. NothingLeft' /\ BuiltHere'
    BY <1>1, <2>1 DEF NothingLeft, BuiltHere, Writing
  <2>. QED BY <1>2, <2>1, <2>4, <2>5 DEF Live, OneInside
<1>3. ASSUME UNCHANGED vars, SearchInside' = SearchInside
      PROVE  Live' /\ Unnoticed
  <2>1. /\ Unnoticed /\ UNCHANGED <<mutex, kills, countCur, txn, countLines>>
    BY <1>1, <1>3 DEF vars, Unnoticed
  <2>. QED BY <1>1, <1>2, <1>3, <2>1 DEF OneInside
<1>4. CASE BeginFails
  BY <1>3, <1>4 DEF BeginFails, SearchInside
<1>5. ASSUME NEW s \in Texts, FindBegin(s)
      PROVE  Live' /\ Unnoticed
  <2>1. CASE txn
    <3>1. UNCHANGED vars /\ ui = "idle" /\ ui' = "beginFailed"
      BY <1>5, <2>1 DEF FindBegin, vars
    <3>. QED BY <1>3, <3>1 DEF SearchInside
  <2>2. CASE ~txn
    <3>1. /\ txn' = TRUE /\ ui' = "select"
          /\ Unnoticed /\ UNCHANGED <<mutex, kills, countCur, countLines>>
      BY <1>1, <1>5, <2>2 DEF FindBegin, Unnoticed
    <3>2. SearchInside' /\ ~LoadOwns
      BY <1>1, <2>2, <3>1 DEF OneInside, SearchInside
    <3>. QED BY <1>1, <1>2, <3>1, <3>2
  <2>. QED BY <2>1, <2>2
<1>6. ASSUME NEW s \in Texts, NestedFind(s)
      PROVE  Live' /\ Unnoticed
  BY <1>3, <1>6 DEF NestedFind, SearchInside
<1>7. CASE FindSelect
  BY <1>3, <1>7 DEF FindSelect, SearchInside
<1>8. CASE CountQuery
  BY <1>3, <1>8 DEF CountQuery, SearchInside
<1>9. CASE CountStore
  <2>1. /\ ui = "store" /\ ui' = "idle" /\ countLines' \in Nat
        /\ Unnoticed /\ UNCHANGED <<mutex, kills, countCur, txn>>
    BY <1>1, <1>9 DEF CountStore, Unnoticed
  <2>2. SearchInside' = SearchInside
    BY <2>1 DEF SearchInside
  <2>. QED BY <1>1, <1>2, <2>1, <2>2 DEF OneInside
<1>10. ASSUME SearchInside, ~SearchInside', txn' = FALSE, Unnoticed,
              UNCHANGED <<mutex, kills, countCur, countLines>>
       PROVE  Live'
  <2>1. ~LoadOwns
    BY <1>10, SearchIsAlone
  <2>. QED BY <1>1, <1>2, <1>10, <2>1
<1>11. CASE FindCommit
  <2>1. SearchInside
    BY <1>11 DEF FindCommit, SearchInside
  <2>2. /\ txn /\ pending = << >> /\ pendingEnts = NoEntities /\ Visible = journal
    BY <2>1, SearchIsAlone
  <2>3. /\ txn' = FALSE /\ ui' = "count" /\ journal' = journal /\ pending' = pending
        /\ saved' = [k \in Kinds |-> saved[k] \cup pendingEnts[k]] /\ pendingEnts' = pendingEnts
        /\ UNCHANGED <<pc, dbFile, fileTable, status, readVars, newDb, files, filesIsRead, mutex,
                       threads, kills>>
    BY <1>11, <2>2 DEF FindCommit
  <2>4. saved' = saved
    <3>1. \A k \in Kinds : saved[k] \cup pendingEnts[k] = saved[k]
      BY <2>2 DEF NoEntities
    <3>2. saved = [k \in Kinds |-> saved[k]]
      BY <1>1 DEF Entities
    <3>. QED BY <2>3, <3>1, <3>2
  <2>5. Unnoticed /\ UNCHANGED <<mutex, kills, countCur, countLines>>
    BY <1>1, <2>3, <2>4 DEF Unnoticed
  <2>6. ~SearchInside'
    BY <2>3 DEF SearchInside
  <2>. QED BY <1>10, <2>1, <2>3, <2>5, <2>6
<1>12. CASE FindRollback
  <2>1. SearchInside
    BY <1>12 DEF FindRollback, SearchInside
  <2>2. pending = << >> /\ pendingEnts = NoEntities
    BY <2>1, SearchIsAlone
  <2>3. /\ txn' = FALSE /\ ui' = "count"
        /\ UNCHANGED <<dbFile, fileTable, journal, saved, pending, pendingEnts, readVars, loaderVars,
                       mutex, threads, kills>>
    BY <1>12, <2>2 DEF FindRollback
  <2>4. status' \in BOOLEAN /\ (status' => status)
    BY <1>1, <1>12 DEF FindRollback, SearchTypeOK
  <2>5. Unnoticed /\ UNCHANGED <<mutex, kills, countCur, countLines>>
    BY <2>3, <2>4 DEF Unnoticed
  <2>6. ~SearchInside'
    BY <2>3 DEF SearchInside
  <2>. QED BY <1>10, <2>1, <2>3, <2>5, <2>6
<1>. QED BY <1>4, <1>5, <1>6, <1>7, <1>8, <1>9, <1>11, <1>12 DEF WindowStep, FindNext

-----------------------------------------------------------------------------
(* The result of a search is a table of ids and totals: the recursion that *)
(* makes it is solved, and its last value is such a table.                 *)
LEMMA InsertedRow ==
  ASSUME NEW rows \in Seq(FoundRows), NEW id \in Nat \ {0}, NEW lines \in Nat
  PROVE  CallbackFind(rows, id, lines) \in Seq(FoundRows)
<1>1. CASE rows = << >>
  BY <1>1, AppendProperties DEF CallbackFind, FoundRows
<1>2. CASE rows # << >>
  <2>1. Len(rows) \in 1 .. Len(rows)
    BY <1>2, LenProperties, EmptySeq
  <2>2. rows[Len(rows)] \in FoundRows
    BY <2>1, ElementOfSeq
  <2>3. rows[Len(rows)].agr \in Nat
    BY <2>2 DEF FoundRows
  <2>. QED BY <1>2, <2>3, AppendProperties DEF CallbackFind, FoundRows
<1>. QED BY <1>1, <1>2

LEMMA ResultType ==
  ASSUME NEW table \in Seq(Rows), NEW ids
  PROVE  ResultOf(table, ids) \in Seq(FoundRows)
<1>. DEFINE n == Len(table)
            V == Seq(FoundRows)
            next(rows, i) == IF i \in 1 .. n /\ i \in ids
                             THEN CallbackFind(rows, i, table[i].lines) ELSE rows
            step == [x \in V \X Int |-> next(x[1], x[2])]
            Solves(f) == f = [i \in 0 .. n |->
                                IF i = 0 THEN << >>
                                ELSE IF i \in ids THEN CallbackFind(f[i - 1], i, table[i].lines)
                                ELSE f[i - 1]]
            inserted == CHOOSE f : Solves(f)
<1>1. n \in Nat /\ \A i \in 1 .. n : table[i].lines \in Nat /\ i \in Nat \ {0}
  <2>1. n \in Nat /\ \A i \in 1 .. n : table[i] \in Rows
    BY LenProperties, ElementOfSeq
  <2>2. \A r \in Rows : r.lines \in Nat
    BY DEF Rows
  <2>. HIDE DEF n
  <2>. QED BY <2>1, <2>2
<1>2. << >> \in V
  BY EmptySeq
<1>3. step \in [V \X Int -> V]
  <2>1. \A rows \in V, i \in Int : next(rows, i) \in V
    BY <1>1, InsertedRow
  <2>. HIDE DEF next, V
  <2>. QED BY <2>1
<1>4. PICK f \in [0 .. n -> V] : Recursion(f, 0, n, << >>, step)
  <2>1. 0 \in Int /\ n \in Int
    BY <1>1
  <2>. HIDE DEF step, n, V
  <2>. QED BY <1>2, <1>3, <2>1, RangeRecursion
<1>5. ASSUME NEW i \in 0 .. n
      PROVE  f[i] = IF i = 0 THEN << >>
                    ELSE IF i \in ids THEN CallbackFind(f[i - 1], i, table[i].lines)
                    ELSE f[i - 1]
  <2>1. f[i] = IF i = 0 THEN << >> ELSE step[<<f[i - 1], i>>]
    BY <1>4 DEF Recursion
  <2>2. CASE i = 0
    BY <2>1, <2>2
  <2>3. CASE i # 0
    <3>1. i \in 1 .. n /\ i - 1 \in 0 .. n
      BY <1>1, <2>3
    <3>2. <<f[i - 1], i>> \in V \X Int
      BY <3>1
    <3>3. step[<<f[i - 1], i>>] = next(f[i - 1], i)
      <4>. HIDE DEF V, next
      <4>. QED BY <3>2
    <3>. HIDE DEF step
    <3>. QED BY <2>1, <2>3, <3>1, <3>3
  <2>. QED BY <2>2, <2>3
<1>6. Solves(f)
  BY <1>5
<1>7. Solves(inserted)
  <2>. HIDE DEF Solves
  <2>. QED BY <1>6
<1>8. ResultOf(table, ids) = inserted[n]
  BY DEF ResultOf
<1>9. inserted[0] = << >> /\ \A i \in 1 .. n :
        inserted[i] = IF i \in ids THEN CallbackFind(inserted[i - 1], i, table[i].lines)
                      ELSE inserted[i - 1]
  <2>. HIDE DEF inserted
  <2>1. \A i \in 0 .. n :
          inserted[i] = IF i = 0 THEN << >>
                        ELSE IF i \in ids THEN CallbackFind(inserted[i - 1], i, table[i].lines)
                        ELSE inserted[i - 1]
    BY <1>7
  <2>. HIDE DEF n
  <2>2. 0 \in 0 .. n /\ \A i \in 1 .. n : i \in 0 .. n /\ i # 0
    BY <1>1
  <2>. QED BY <2>1, <2>2
<1>. DEFINE T == {i \in 0 .. n : inserted[i] \in V}
<1>10. 0 .. n \subseteq T
  <2>. HIDE DEF inserted, n, V
  <2>1. 0 \in T
    BY <1>1, <1>2, <1>9
  <2>2. ASSUME NEW i \in 0 .. n - 1, i \in T
        PROVE  i + 1 \in T
    <3>1. i + 1 \in 1 .. n /\ (i + 1) - 1 = i /\ inserted[i] \in V
      BY <1>1, <2>2
    <3>2. /\ table[i + 1].lines \in Nat /\ i + 1 \in Nat \ {0}
          /\ inserted[i + 1] = IF i + 1 \in ids
                               THEN CallbackFind(inserted[i], i + 1, table[i + 1].lines)
                               ELSE inserted[i]
      BY <1>1, <1>9, <3>1
    <3>3. inserted[i + 1] \in V
      BY <3>1, <3>2, InsertedRow DEF V
    <3>. QED BY <1>1, <3>1, <3>3
  <2>3. 0 \in Int /\ n \in Int
    BY <1>1
  <2>. HIDE DEF T, n
  <2>. QED BY <2>1, <2>2, <2>3, RangeInduction
<1>. HIDE DEF inserted
<1>. QED BY <1>1, <1>8, <1>10

(* The last total of the table or of the result.                           *)
LEMMA LastTotalType ==
  ASSUME NEW S, \A r \in S : r.agr \in Nat, NEW table \in Seq(S)
  PROVE  LastTotal(table) \in Nat
<1>1. CASE table # << >>
  <2>1. Len(table) \in 1 .. Len(table)
    BY <1>1, LenProperties, EmptySeq
  <2>. QED BY <1>1, <2>1, ElementOfSeq DEF LastTotal
<1>. QED BY <1>1 DEF LastTotal

(* The status row belongs to a search that is inside its transaction.      *)
LEMMA StatusOpened ==
  ASSUME Live, SearchTypeOK, LoaderStep
  PROVE  statusOpen' \in BOOLEAN /\ (statusOpen' => status' /\ SearchInside)
<1>1. /\ LoaderNext /\ statusOpen' = (statusOpen \/ (pc = "status" /\ txn))
      /\ statusOpen \in BOOLEAN /\ (statusOpen => status /\ SearchInside)
  BY DEF LoaderStep, SearchTypeOK, SearchInside
<1>2. pc = "status" /\ txn => SearchInside
  <2>1. pc = "status" => \A t \in DOMAIN threads : ~Writing(t)
    BY CompleteFacts DEF Live, StageParts, StatusLast, AllWritten, Writing, InsideTransaction
  <2>. QED BY <2>1 DEF Live, OneInside, LoadOwns
<1>3. status' \/ (pc # "status" /\ UNCHANGED status)
  BY <1>1, LoaderFrame DEF WriteStatus
<1>. QED BY <1>1, <1>2, <1>3

LEMMA SearchTypeNext ==
  ASSUME LiveInv, LiveInv', SearchTypeOK, [SearchNext]_allVars
  PROVE  SearchTypeOK'
<1>. USE DEF dbVars, txnVars, readVars, loaderVars, SearchTypeOK
<1>1. CASE pc # "terminated" /\ LoaderStep
  <2>1. Live /\ Live'
    BY <1>1, LiveLoader DEF LiveInv
  <2>2. countLines' \in Nat
    BY <2>1 DEF Live, CompleteInv, ResolveInv, OrderInv, WriterInv, TypeInv, TypeOK
  <2>3. UNCHANGED <<ui, findStr, findResult, counted, stuck>>
    BY <1>1 DEF LoaderStep
  <2>4. statusOpen' \in BOOLEAN /\ (statusOpen' => status' /\ SearchInside)
    BY <1>1, <2>1, StatusOpened
  <2>. QED BY <2>2, <2>3, <2>4 DEF SearchInside
<1>2. ASSUME pc # "terminated", NEW t \in DOMAIN threads, CommitterStep(t)
      PROVE  SearchTypeOK'
  <2>1. Live /\ Live' /\ UNCHANGED searchVars /\ UNCHANGED status
    BY <1>2, LiveCommitter, CommitterFrame DEF LiveInv
  <2>2. countLines' \in Nat
    BY <2>1 DEF Live, CompleteInv, ResolveInv, OrderInv, WriterInv, TypeInv, TypeOK
  <2>. QED BY <2>1, <2>2 DEF searchVars
<1>3. CASE pc # "terminated" /\ WindowStep
  <2>1. Live
    BY <1>3 DEF LiveInv
  <2>2. journal \in Seq(Rows) /\ pending \in Seq(Rows)
    BY <2>1, CompleteFacts DEF Live
  <2>3. Visible \in Seq(Rows) /\ Result(findStr, Visible) \in Seq(FoundRows)
    <3>1. Visible \in Seq(Rows)
      BY <2>2, ConcatProperties DEF Visible
    <3>. QED BY <3>1, ResultType DEF Result
  <2>4. CASE BeginFails
    BY <2>4 DEF BeginFails, vars
  <2>5. ASSUME NEW s \in Texts, FindBegin(s)
        PROVE  SearchTypeOK'
    BY <2>5 DEF FindBegin
  <2>6. ASSUME NEW s \in Texts, NestedFind(s)
        PROVE  SearchTypeOK'
    BY <2>6 DEF NestedFind, vars
  <2>7. CASE FindSelect
    <3>1. UNCHANGED <<status, countLines, findStr, counted, stuck, statusOpen>>
      BY <2>7 DEF FindSelect, vars
    <3>2. ui' \in {"box", "commit"}
      BY <2>7 DEF FindSelect
    <3>3. findResult' \in Seq(FoundRows)
      <4>. DEFINE res == Result(findStr, Visible)
      <4>1. \A n \in 0 .. Len(res) : SubSeq(res, 1, n) \in Seq(FoundRows)
        <5>1. \A i \in 1 .. Len(res) : res[i] \in FoundRows
          BY <2>3, ElementOfSeq
        <5>2. Len(res) \in Nat
          BY <2>3, LenProperties
        <5>. HIDE DEF res
        <5>3. \A n \in 0 .. Len(res) : \A i \in 1 .. n : res[i] \in FoundRows
          BY <5>1, <5>2
        <5>. QED BY <5>2, <5>3, SubSeqProperties
      <4>2. << >> \in Seq(FoundRows)
        BY EmptySeq
      <4>. HIDE DEF res
      <4>3. findResult' \in {findResult} \cup {SubSeq(res, 1, n) : n \in 0 .. Len(res)}
            \/ findResult' = << >> \/ findResult' = res
        BY <2>7 DEF FindSelect, res
      <4>. QED BY <2>3, <4>1, <4>2, <4>3 DEF res
    <3>. QED BY <3>1, <3>2, <3>3
  <2>8. CASE FindCommit
    <3>1. UNCHANGED <<status, countLines, findStr, findResult, counted, stuck>> /\ statusOpen' = FALSE
      BY <2>8 DEF FindCommit
    <3>2. ui' \in {ui, "count"}
      BY <2>8 DEF FindCommit
    <3>. QED BY <3>1, <3>2
  <2>9. CASE CountQuery
    <3>1. counted' \in Nat
      <4>1. \A r \in Rows : r.agr \in Nat
        BY DEF Rows
      <4>2. \A r \in FoundRows : r.agr \in Nat
        BY DEF FoundRows
      <4>3. LastTotal(Visible) \in Nat
        BY <2>3, <4>1, LastTotalType
      <4>4. LastTotal(findResult) \in Nat
        BY <4>2, LastTotalType
      <4>. QED BY <2>9, <4>3, <4>4 DEF CountQuery
    <3>. QED BY <2>9, <3>1 DEF CountQuery, vars
  <2>10. CASE CountStore
    BY <2>10 DEF CountStore
  <2>11. CASE FindRollback
    BY <2>11 DEF FindRollback
  <2>. QED BY <1>3, <2>4, <2>5, <2>6, <2>7, <2>8, <2>9, <2>10, <2>11 DEF WindowStep, FindNext
<1>4. CASE Answer
  BY <1>4 DEF Answer, searchVars
<1>5. CASE UNCHANGED allVars
  BY <1>5 DEF allVars, vars, searchVars
<1>. QED BY <1>1, <1>2, <1>3, <1>4, <1>5, StepsOfAll

(* The journal's invariant and the types of what a search has hold         *)
(* together.                                                               *)
SearchInv == LiveInv /\ SearchTypeOK

LEMMA SearchInvInit == SearchInit => SearchInv
<1>1. ASSUME SearchInit
      PROVE  SearchTypeOK
  <2>1. NoText \in Texts /\ << >> \in Seq(FoundRows)
    BY SearchAssumption, EmptySeq
  <2>2. findResult \in Seq(FoundRows) /\ findStr \in Texts
    BY <1>1, <2>1 DEF SearchInit
  <2>3. /\ ui = "idle" /\ counted = 0 /\ stuck = FALSE /\ statusOpen = FALSE /\ countLines = 0
    BY <1>1 DEF SearchInit, Init
  <2>. QED BY <2>2, <2>3 DEF SearchTypeOK
<1>. QED BY <1>1, LiveInit DEF SearchInv, LiveInv

LEMMA SearchInvNext == SearchInv /\ [SearchNext]_allVars => SearchInv'
<1>. SUFFICES ASSUME SearchInv, [SearchNext]_allVars PROVE SearchInv'
  OBVIOUS
<1>1. LiveInv /\ SearchTypeOK
  BY DEF SearchInv
<1>2. LiveInv'
  <2>1. CASE pc # "terminated" /\ LoaderStep
    BY <1>1, <2>1, LiveLoader DEF LiveInv
  <2>2. CASE pc # "terminated" /\ \E t \in DOMAIN threads : CommitterStep(t)
    BY <1>1, <2>2, LiveCommitter DEF LiveInv
  <2>3. CASE pc # "terminated" /\ WindowStep
    BY <1>1, <2>3, LiveWindow DEF LiveInv
  <2>4. CASE Answer
    BY <2>4 DEF Answer, LiveInv
  <2>5. CASE UNCHANGED allVars
    <3>1. UNCHANGED vars /\ UNCHANGED searchVars
      BY <2>5 DEF allVars
    <3>2. CASE pc = "terminated"
      BY <3>1, <3>2 DEF vars, loaderVars, LiveInv
    <3>3. CASE pc # "terminated"
      <4>1. Live /\ CompleteInv /\ WriterInv
        BY <1>1, <3>3, CompleteFacts DEF LiveInv, Live
      <4>2. WriterInv'
        BY <3>1, <4>1
           DEF vars, dbVars, txnVars, readVars, loaderVars, WriterInv, TypeInv, TypeOK, ProcessHasId,
               WriterParts, NoThreadYet, OneAtWork, TxnHeld, LoadOwns, PendingIsWritten, NeverFails,
               Writing
      <4>3. CompleteInv'
        BY <3>1, <4>1, <4>2, CompleteNext
      <4>4. (OneInside /\ NothingLeft /\ BuiltHere)'
        BY <3>1, <4>1 DEF vars, dbVars, txnVars, loaderVars, searchVars, Live, OneInside, SearchInside,
                          LoadOwns, NothingLeft, BuiltHere, Writing
      <4>. QED BY <4>3, <4>4 DEF Live, LiveInv
    <3>. QED BY <3>2, <3>3
  <2>. QED BY <2>1, <2>2, <2>3, <2>4, <2>5, StepsOfAll
<1>. QED BY <1>1, <1>2, SearchTypeNext DEF SearchInv

LEMMA SearchInvAlways == SearchSpec => []SearchInv
BY SearchInvInit, SearchInvNext, PTL DEF SearchSpec

(* Whatever the loader, the hours' threads and the searches do in whatever *)
(* order, their variables are well typed, the total that a search puts     *)
(* into the loader's counter among them; and a status row that belongs to  *)
(* no search is not taken back.                                            *)
THEOREM SearchTypesCorrect == SearchSpec => []SearchTypeOK
<1>1. SearchInv => SearchTypeOK
  BY DEF SearchInv
<1>. QED BY <1>1, SearchInvAlways, PTL

-----------------------------------------------------------------------------
(* Of all threads that are inside a transaction there is one.              *)
LEMMA OneOwnerAtMost == Live => Owners = {} \/ \E o : Owners = {o}
<1>. SUFFICES ASSUME Live PROVE Owners = {} \/ \E o : Owners = {o}
  OBVIOUS
<1>. DEFINE listing == pc = "commitFiles"
            hours == {<<"hour", t>> : t \in {u \in DOMAIN threads : Writing(u)}}
<1>1. Owners = (IF SearchInside THEN {<<"search", 0>>} ELSE {})
               \cup (IF listing THEN {<<"loader", 0>>} ELSE {}) \cup hours
  BY DEF Owners, Writing
<1>2. listing => threads = << >>
  BY CompleteFacts DEF Live, WriterInv, WriterParts, NoThreadYet, BeforeReading
<1>3. \A t, u \in DOMAIN threads : Writing(t) /\ Writing(u) => t = u
  BY CompleteFacts DEF Live, WriterInv, WriterParts, OneAtWork, Writing, InsideTransaction
<1>4. SearchInside => ~listing /\ hours = {}
  BY DEF Live, OneInside, LoadOwns
<1>5. listing => hours = {}
  BY <1>2
<1>6. hours = {} \/ \E t : hours = {<<"hour", t>>}
  <2>1. CASE \A u \in DOMAIN threads : ~Writing(u)
    BY <2>1
  <2>2. ASSUME NEW t \in DOMAIN threads, Writing(t)
        PROVE  hours = {<<"hour", t>>}
    BY <1>3, <2>2
  <2>. QED BY <2>1, <2>2
<1>. HIDE DEF hours, listing
<1>. QED BY <1>1, <1>4, <1>5, <1>6

(* While the process lives, the transaction of the one connection belongs  *)
(* to one thread, and holds what that thread has written: a search and an  *)
(* hour's rows are never committed or rolled back together.                *)
THEOREM TransactionHasOneOwner == SearchSpec => []OneOwner
<1>1. SearchInv => OneOwner
  <2>. SUFFICES ASSUME Live PROVE OneOwner
    BY DEF SearchInv, LiveInv, OneOwner
  <2>1. Cardinality(Owners) <= 1
    <3>1. Cardinality({}) = 0 /\ \A o : Cardinality({o}) = 1
      BY FS_EmptySet, FS_Singleton
    <3>. QED BY <3>1, OneOwnerAtMost
  <2>2. txn <=> Owners # {}
    BY DEF Live, OneInside, LoadOwns, Writing, Owners
  <2>3. \A t \in DOMAIN threads : <<"hour", t>> \in Owners => Len(pending) = threads[t].next - 1
    BY CompleteFacts DEF Live, WriterInv, WriterParts, PendingIsWritten, Writing, Owners
  <2>4. SearchInside => pending = << >> /\ pendingEnts = NoEntities
    BY SearchIsAlone
  <2>. QED BY <2>1, <2>2, <2>3, <2>4 DEF OneOwner
<1>. QED BY <1>1, SearchInvAlways, PTL

-----------------------------------------------------------------------------
(* Why the totals have no gap inside an hour, though a search puts another *)
(* number into the counter of the loader: an hour's thread has taken its   *)
(* first total before it begins, and counts on from its own rows.          *)
ChainedFromSecond(rs) == \A i \in DOMAIN rs \ {1} : rs[i].agr = rs[i - 1].agr + rs[i].lines

GoesOnFromPending ==
  \A t \in DOMAIN threads : Writing(t) /\ pending # << >> =>
    threads[t].agr = pending[Len(pending)].agr

LiveTotals == ChainedFromSecond(pending) /\ GoesOnFromPending

HourTotals == TotalsWithinHour /\ (pc # "terminated" => LiveTotals)

(* The hour of a time stamp.                                               *)
LEMMA HourOfTime ==
  ASSUME NEW h \in Nat, NEW offset \in 0 .. HourSpan - 1
  PROVE  (h * HourSpan + offset) \div HourSpan = h
<1>1. HourSpan \in Nat \ {0}
  BY LoaderAssumption
<1>2. \A s \in Nat \ {0}, o \in Nat : o < s => (h * s + o) \div s = h
  OBVIOUS
<1>. QED BY <1>1, <1>2

LEMMA HourOfRow ==
  ASSUME NEW table, NEW r, LocatedIn(table, r)
  PROVE  /\ r.time \div HourSpan = HourOf(EventIn(table, r))
         /\ HourOf(EventIn(table, r)) \in Nat
<1>. DEFINE e == EventIn(table, r)
<1>1. /\ e \in IndexedEvents /\ r.time = TimeOf(e)
  BY DEF LocatedIn
<1>2. e[1] \in LogFiles /\ e[2] \in DOMAIN Events[e[1]]
  <2>. HIDE DEF e
  <2>. QED BY <1>1, EventsFinite
<1>. HIDE DEF e
<1>3. Hour[e[1]] \in Nat
  BY <1>2, LoaderAssumption
<1>4. Events[e[1]][e[2]].offset \in 0 .. HourSpan - 1
  <2>1. Events[e[1]] \in Seq([offset : 0 .. HourSpan - 1, lines : Nat \ {0}, name : Names])
    BY <1>2, LoaderAssumption
  <2>. DEFINE E == [offset : 0 .. HourSpan - 1, lines : Nat \ {0}, name : Names]
              s == Events[e[1]]
  <2>2. s[e[2]] \in E
    <3>. HIDE DEF E, s
    <3>1. s \in Seq(E)
      BY <2>1 DEF E, s
    <3>2. e[2] \in DOMAIN s
      BY <1>2 DEF s
    <3>. QED BY <3>1, <3>2, ElementOfSeq, LenProperties
  <2>. QED BY <2>2
<1>. QED BY <1>1, <1>3, <1>4, HourOfTime DEF TimeOf, HourOf, e

(* A row with the total that the last one has and its lines.               *)
LEMMA ChainedAppend ==
  ASSUME NEW rs \in Seq(Rows), NEW r \in Rows, ChainedFromSecond(rs),
         rs # << >> => r.agr = rs[Len(rs)].agr + r.lines
  PROVE  /\ ChainedFromSecond(Append(rs, r))
         /\ Append(rs, r)[Len(Append(rs, r))].agr = r.agr
<1>1. /\ Len(rs) \in Nat /\ DOMAIN rs = 1 .. Len(rs)
      /\ Append(rs, r) \in Seq(Rows) /\ Len(Append(rs, r)) = Len(rs) + 1
      /\ DOMAIN Append(rs, r) = 1 .. Len(rs) + 1
      /\ \A i \in 1 .. Len(rs) : Append(rs, r)[i] = rs[i]
      /\ Append(rs, r)[Len(rs) + 1] = r
  BY AppendProperties, LenProperties
<1>. DEFINE a == Append(rs, r)
<1>. HIDE DEF a
<1>2. ASSUME NEW i \in 1 .. Len(rs) + 1, i # 1
      PROVE  a[i].agr = a[i - 1].agr + a[i].lines
  <2>1. i - 1 \in 1 .. Len(rs)
    BY <1>1, <1>2
  <2>2. CASE i = Len(rs) + 1
    <3>1. rs # << >>
      BY <1>1, <2>1
    <3>2. a[i] = r /\ a[i - 1] = rs[Len(rs)]
      BY <1>1, <2>1, <2>2 DEF a
    <3>. QED BY <3>1, <3>2
  <2>3. CASE i # Len(rs) + 1
    BY <1>1, <1>2, <2>1, <2>3 DEF ChainedFromSecond, a
  <2>. QED BY <2>2, <2>3
<1>. QED BY <1>1, <1>2 DEF ChainedFromSecond, a

(* Rows of an earlier hour before rows that are chained.                   *)
TotalsOfHours(rs) ==
  \A i \in DOMAIN rs \ {1} :
    rs[i].time \div HourSpan = rs[i - 1].time \div HourSpan
      => rs[i].agr = rs[i - 1].agr + rs[i].lines

LEMMA ChainedConcat ==
  ASSUME NEW a \in Seq(Rows), NEW b \in Seq(Rows), TotalsOfHours(a), ChainedFromSecond(b),
         \A i \in DOMAIN a, j \in DOMAIN b : a[i].time \div HourSpan # b[j].time \div HourSpan
  PROVE  TotalsOfHours(a \o b)
<1>. DEFINE c == a \o b
<1>1. /\ Len(a) \in Nat /\ DOMAIN a = 1 .. Len(a)
      /\ Len(b) \in Nat /\ DOMAIN b = 1 .. Len(b)
      /\ DOMAIN c = 1 .. Len(a) + Len(b)
      /\ \A i \in 1 .. Len(a) + Len(b) : c[i] = IF i <= Len(a) THEN a[i] ELSE b[i - Len(a)]
  BY ConcatProperties, LenProperties
<1>. HIDE DEF c
<1>2. SUFFICES ASSUME NEW i \in 1 .. Len(a) + Len(b), i # 1,
                      c[i].time \div HourSpan = c[i - 1].time \div HourSpan
               PROVE  c[i].agr = c[i - 1].agr + c[i].lines
  BY <1>1 DEF TotalsOfHours, c
<1>3. i - 1 \in 1 .. Len(a) + Len(b)
  BY <1>1, <1>2
<1>4. CASE i <= Len(a)
  <2>1. i \in DOMAIN a \ {1} /\ c[i] = a[i] /\ c[i - 1] = a[i - 1]
    BY <1>1, <1>2, <1>3, <1>4
  <2>. QED BY <1>2, <2>1 DEF TotalsOfHours
<1>5. CASE i = Len(a) + 1
  <2>1. i - 1 \in DOMAIN a /\ 1 \in DOMAIN b /\ c[i] = b[1] /\ c[i - 1] = a[i - 1]
    BY <1>1, <1>2, <1>3, <1>5
  <2>2. a[i - 1].time \div HourSpan # b[1].time \div HourSpan
    BY <2>1
  <2>. QED BY <1>2, <2>1, <2>2
<1>6. CASE i > Len(a) + 1
  <2>. DEFINE j == i - Len(a)
  <2>1. /\ j \in DOMAIN b \ {1} /\ c[i] = b[j] /\ c[i - 1] = b[(i - 1) - Len(a)]
        /\ (i - 1) - Len(a) = j - 1
    BY <1>1, <1>2, <1>3, <1>6
  <2>. QED BY <2>1 DEF ChainedFromSecond
<1>. QED BY <1>1, <1>4, <1>5, <1>6

(* The hour that is committed is none that the journal has.                *)
LEMMA CommittedIsOther ==
  ASSUME Live, NEW t \in DOMAIN threads, threads[t].pc = "commit",
         NEW i \in DOMAIN journal, NEW j \in DOMAIN pending
  PROVE  journal[i].time \div HourSpan # pending[j].time \div HourSpan
<1>1. CompleteInv /\ Writing(t) /\ HasRows(t)
  BY DEF Live, Writing, HasRows, InsideTransaction
<1>2. PICK h \in Nat : WritesHour(t, h)
  BY <1>1, AtWork, CompleteFacts DEF CompleteParts, HoursWritten
<1>3. EventIn(fileTable, journal[i]) \in EventsBefore(h)
  BY <1>2 DEF WritesHour, Lists, ListedIn
<1>4. EventIn(fileTable, pending[j]) \in HourEvents(h)
  <2>1. Lists(fileTable, pending, HourEvents(h))
    BY <1>1, <1>2, PendingListed DEF WritesHour
  <2>. QED BY <2>1 DEF Lists, ListedIn
<1>5. LocatedIn(fileTable, journal[i])
  BY <1>1, CompleteFacts DEF RowParts, JournalResolves
<1>6. LocatedIn(fileTable, pending[j])
  <2>1. j \in DOMAIN threads[t].rows /\ SameEvent(pending[j], threads[t].rows[j])
    BY <1>1, CompleteFacts DEF RowParts, PendingAreEvents
  <2>2. LocatedIn(fileTable, threads[t].rows[j])
    BY <1>1, <2>1, CompleteFacts DEF RowParts, RowsOnTheirWay
  <2>. QED BY <2>1, <2>2, SameEventIn
<1>7. HourOf(EventIn(fileTable, journal[i])) < h
  BY <1>3 DEF EventsBefore
<1>8. HourOf(EventIn(fileTable, pending[j])) = h
  BY <1>4 DEF HourEvents
<1>. QED BY <1>5, <1>6, <1>7, <1>8, HourOfRow

(* What an hour's thread does to the totals.                               *)
LEMMA HourTotalsCommitter ==
  ASSUME Live, HourTotals, LiveTotals, NEW t \in DOMAIN threads, CommitterStep(t)
  PROVE  HourTotals'
<1>. USE DEF dbVars, txnVars, readVars, loaderVars
<1>1. /\ CommitterNext(t)
      /\ DOMAIN threads' = DOMAIN threads
      /\ \A u \in DOMAIN threads : u # t => threads'[u] = threads[u]
  BY CommitterFrame
<1>2. /\ journal \in Seq(Rows) /\ pending \in Seq(Rows) /\ threads \in Seq(Threads)
      /\ threads[t] \in Threads /\ threads[t].rows \in Seq(Rows)
      /\ threads[t].pc # "done"
      /\ \A u \in DOMAIN threads : u # t => ~Writing(u)
      /\ Writing(t) => txn
  <2>1. threads[t].pc # "done"
    BY <1>1 DEF CommitterNext, Begin, SaveEntity, InsertEvent, EventsEnd, Commit, Unlock
  <2>2. CompleteInv /\ WriterInv
    BY CompleteFacts DEF Live
  <2>3. \A u \in DOMAIN threads : u # t => ~Writing(u)
    BY <2>1, <2>2, AtWork DEF HasRows
  <2>4. Writing(t) => txn
    BY <2>2 DEF WriterInv, WriterParts, TxnHeld, LoadOwns
  <2>. QED BY <2>1, <2>2, <2>3, <2>4, ThreadsOfSeq, CompleteFacts
<1>3. \A u \in DOMAIN threads : u # t => ~Writing(u)'
  BY <1>1, <1>2 DEF Writing
<1>4. ASSUME UNCHANGED <<journal, pending>>,
             Writing(t)' /\ pending # << >> => threads'[t].agr = pending[Len(pending)].agr
      PROVE  HourTotals'
  <2>1. TotalsWithinHour' /\ ChainedFromSecond(pending')
    BY <1>4 DEF HourTotals, LiveTotals, TotalsWithinHour
  <2>2. GoesOnFromPending'
    BY <1>1, <1>3, <1>4 DEF GoesOnFromPending
  <2>. QED BY <2>1, <2>2 DEF HourTotals, LiveTotals
<1>5. ASSUME UNCHANGED <<journal, pending>>, Writing(t),
             NEW q \in {"begin", "unlock", "done"} \cup InsideTransaction,
             threads' = [threads EXCEPT ![t].pc = q]
      PROVE  HourTotals'
  <2>1. threads'[t].agr = threads[t].agr
    BY <1>2, <1>5, ThreadStep DEF Threads
  <2>. QED BY <1>4, <1>5, <2>1 DEF LiveTotals, GoesOnFromPending
<1>6. CASE Begin(t)
  <2>1. pending = << >>
    <3>1. \A u \in DOMAIN threads : ~Writing(u)
      BY <1>2, <1>6 DEF Begin, Writing, InsideTransaction
    <3>. QED BY <3>1, CompleteFacts DEF Live, WriterInv, WriterParts, PendingIsWritten
  <2>. QED BY <1>4, <1>6, <2>1 DEF Begin
<1>7. CASE SaveEntity(t)
  BY <1>5, <1>7 DEF SaveEntity, Writing, InsideTransaction
<1>8. CASE EventsEnd(t)
  BY <1>5, <1>8 DEF EventsEnd, Writing, InsideTransaction
<1>9. CASE InsertEvent(t)
  <2>. DEFINE k == threads[t].next
              r == threads[t].rows[k]
              a == threads[t].agr + r.lines
              new == [threads[t] EXCEPT !.next = @ + 1, !.agr = a]
              row == [r EXCEPT !.agr = a]
  <2>1. /\ threads[t].pc = "insert" /\ k \in DOMAIN threads[t].rows
        /\ threads' = [threads EXCEPT ![t] = new] /\ pending' = Append(pending, row)
        /\ UNCHANGED journal
    BY <1>9 DEF InsertEvent
  <2>2. new.agr = a
    BY <1>2 DEF Threads
  <2>3. threads'[t].agr = a
    <3>. HIDE DEF new, a
    <3>. QED BY <1>2, <2>1, <2>2
  <2>4. r \in Rows
    BY <1>2, <2>1, RowsOfSeq
  <2>5. row \in Rows /\ row.agr = threads[t].agr + row.lines /\ row.agr = a
    <3>1. r.lines \in Nat /\ threads[t].agr \in Nat
      BY <1>2, <2>4 DEF Rows, Threads
    <3>2. a \in Nat
      BY <3>1
    <3>. HIDE DEF r, a
    <3>3. row \in Rows /\ row.agr = a /\ row.lines = r.lines
      BY <2>4, <3>2 DEF Rows
    <3>. QED BY <3>3 DEF a
  <2>6. pending # << >> => threads[t].agr = pending[Len(pending)].agr
    BY <2>1 DEF LiveTotals, GoesOnFromPending, Writing, InsideTransaction
  <2>. HIDE DEF row, new, a
  <2>7. ChainedFromSecond(pending') /\ pending'[Len(pending')].agr = a
    BY <1>2, <2>1, <2>5, <2>6, ChainedAppend DEF LiveTotals
  <2>8. GoesOnFromPending'
    BY <1>1, <1>3, <2>3, <2>7 DEF GoesOnFromPending
  <2>9. TotalsWithinHour'
    BY <2>1 DEF HourTotals, TotalsWithinHour
  <2>. QED BY <2>7, <2>8, <2>9 DEF HourTotals, LiveTotals
<1>10. CASE Commit(t)
  <2>1. threads[t].pc = "commit" /\ txn
    BY <1>2, <1>10 DEF Commit, Writing, InsideTransaction
  <2>2. journal' = journal \o pending /\ pending' = << >>
    BY <1>10, <2>1 DEF Commit
  <2>3. TotalsOfHours(journal \o pending)
    <3>1. TotalsOfHours(journal) /\ ChainedFromSecond(pending)
      BY DEF HourTotals, LiveTotals, TotalsWithinHour, TotalsOfHours
    <3>2. \A i \in DOMAIN journal, j \in DOMAIN pending :
            journal[i].time \div HourSpan # pending[j].time \div HourSpan
      BY <2>1, CommittedIsOther
    <3>. QED BY <1>2, <3>1, <3>2, ChainedConcat
  <2>4. TotalsWithinHour'
    BY <2>2, <2>3 DEF TotalsOfHours, TotalsWithinHour
  <2>5. LiveTotals'
    <3>1. DOMAIN pending' = {}
      BY <2>2
    <3>. QED BY <2>2, <3>1 DEF LiveTotals, ChainedFromSecond, GoesOnFromPending
  <2>. QED BY <2>4, <2>5 DEF HourTotals
<1>11. CASE Unlock(t)
  <2>1. UNCHANGED <<journal, pending>> /\ threads[t].pc = "unlock"
        /\ threads' = [threads EXCEPT ![t].pc = "done"]
    BY <1>11 DEF Unlock
  <2>2. threads'[t].pc = "done"
    BY <1>2, <2>1, ThreadStep DEF Threads
  <2>3. ~Writing(t)'
    BY <2>2 DEF Writing, InsideTransaction
  <2>. QED BY <1>4, <2>1, <2>3
<1>. QED BY <1>1, <1>6, <1>7, <1>8, <1>9, <1>10, <1>11 DEF CommitterNext

(* No step breaks the totals of an hour.                                   *)
LEMMA HourTotalsNext == SearchInv /\ HourTotals /\ [SearchNext]_allVars => HourTotals'
<1>. SUFFICES ASSUME SearchInv, HourTotals, [SearchNext]_allVars PROVE HourTotals'
  OBVIOUS
<1>1. pc # "terminated" => Live /\ LiveTotals /\ SearchTypeOK
  BY DEF SearchInv, LiveInv, HourTotals
<1>2. ASSUME UNCHANGED <<journal, pending, threads>>, pc # "terminated"
      PROVE  HourTotals'
  BY <1>1, <1>2 DEF HourTotals, LiveTotals, TotalsWithinHour, GoesOnFromPending, Writing
<1>3. CASE pc # "terminated" /\ LoaderStep
  <2>1. Live /\ LoaderNext
    BY <1>1, <1>3, LiveLoader
  <2>2. UNCHANGED <<journal, pending>> /\ (threads' = threads \/ HandOver)
    BY <2>1, LoaderFrame
  <2>3. CASE HandOver
    <3>1. WriterInv
      BY <2>1, CompleteFacts DEF Live
    <3>2. \A t \in DOMAIN threads' : threads'[t].pc \in {"done", "begin"}
      <4>1. \A rs : NewThread(rs).pc = "begin"
        BY DEF NewThread
      <4>. QED BY <2>3, <3>1, <4>1, HandedOver
    <3>3. GoesOnFromPending'
      BY <3>2 DEF GoesOnFromPending, Writing, InsideTransaction
    <3>. QED BY <1>1, <1>3, <2>2, <3>3 DEF HourTotals, LiveTotals, TotalsWithinHour
  <2>. QED BY <1>2, <1>3, <2>2, <2>3
<1>4. CASE pc # "terminated" /\ \E t \in DOMAIN threads : CommitterStep(t)
  BY <1>1, <1>4, HourTotalsCommitter
<1>5. CASE pc # "terminated" /\ WindowStep
  BY <1>1, <1>2, <1>5, LiveWindow DEF Unnoticed
<1>6. CASE pc # "terminated" /\ Answer
  BY <1>2, <1>6 DEF Answer, dbVars, txnVars
<1>7. CASE UNCHANGED allVars
  <2>1. UNCHANGED <<journal, pending, threads, pc>>
    BY <1>7 DEF allVars, vars, dbVars, txnVars, loaderVars
  <2>. QED BY <1>2, <2>1 DEF HourTotals, TotalsWithinHour
<1>. QED BY <1>3, <1>4, <1>5, <1>6, <1>7, StepsOfAll

(* Whatever searches are made while an hour is read, written or waits, the *)
(* rows of one hour have totals without a gap: a search disturbs the       *)
(* counter only between the hours.                                         *)
THEOREM HoursHaveTotals == SearchSpec => []TotalsWithinHour
<1>1. SearchInit => HourTotals
  BY DEF SearchInit, Init, HourTotals, LiveTotals, TotalsWithinHour, ChainedFromSecond, GoesOnFromPending
<1>2. HourTotals => TotalsWithinHour
  BY DEF HourTotals
<1>. QED BY <1>1, <1>2, SearchInvAlways, HourTotalsNext, PTL DEF SearchSpec

-----------------------------------------------------------------------------
(* Why the result of a search is that of whole hours.  When the search has *)
(* the transaction, no hour is half written; and afterwards the rows it    *)
(* has seen stay where they are and keep their names.                      *)
NameIn(e) == Events[e[1]][e[2]].name

NamesTrue == \A i \in DOMAIN journal : NameOf(journal[i]) = {NameIn(EventOf(journal[i]))}

NamesInv == pc # "terminated" => NamesTrue

(* While an index has rows, it is being built here.                        *)
LEMMA RowsAreBuilt ==
  ASSUME Live, pc # "terminated", journal # << >>
  PROVE  newDb /\ Building
<1>1. /\ pc \in LoaderStates
      /\ dbFile = "absent" => journal = << >>
      /\ newDb /\ pc \in {"createDb", "readDirectory", "commitFiles", "readFiles"} => journal = << >>
  BY CompleteFacts DEF Live, TypeOK, OrderParts, EmptyAtFirst
<1>. QED BY <1>1 DEF Live, BuiltHere, Building, LoaderStates

(* A row leads to one name, that of its event.                             *)
LEMMA NamesOfRows ==
  ASSUME Live, pc # "terminated"
  PROVE  NamesTrue
<1>. SUFFICES ASSUME NEW i \in DOMAIN journal
              PROVE  NameOf(journal[i]) = {NameIn(EventOf(journal[i]))}
  BY DEF NamesTrue
<1>. DEFINE r == journal[i]
            k == "event"
            p == RefIn(fileTable, k, r)
<1>1. newDb /\ Building
  <2>1. journal # << >>
    OBVIOUS
  <2>. QED BY <2>1, RowsAreBuilt
<1>2. /\ LocatedIn(fileTable, r) /\ k \in Kinds /\ p \in saved[k]
      /\ saved[k] \subseteq Nat \X Names /\ pendingEnts[k] \subseteq Nat \X Names
      /\ IdParts
  <2>1. /\ LocatedIn(fileTable, r)
        /\ \A l \in Kinds : RefIn(fileTable, l, r) \in saved[l]
    BY <1>1, CompleteFacts DEF Live, RowParts, JournalResolves
  <2>2. k \in Kinds
    BY DEF Kinds
  <2>3. IdParts
    BY DEF Live, CompleteInv, ResolveInv
  <2>. QED BY <2>1, <2>2, <2>3, EntityType, CompleteFacts DEF Live
<1>3. p = <<r.event_id, NameIn(EventOf(r))>>
  BY <1>2 DEF RefIn, EventIn, EventOf, NameIn
<1>4. ASSUME NEW q \in saved[k] \cup pendingEnts[k], q[1] = r.event_id
      PROVE  q = p
  <2>1. Given(k, q) /\ Given(k, p)
    BY <1>1, <1>2 DEF IdParts, EntsGiven
  <2>2. p[1] = q[1] /\ p \in Nat \X Names /\ q \in Nat \X Names
    BY <1>2, <1>3, <1>4
  <2>. HIDE DEF p, k
  <2>. QED BY <1>1, <1>2, <2>1, <2>2, GivenOnce
<1>5. p[1] = r.event_id /\ p[2] = NameIn(EventOf(r))
  BY <1>3
<1>. HIDE DEF p, r
<1>. QED BY <1>2, <1>4, <1>5 DEF NameOf, r

(* Between two steps of the process the journal has whole hours.           *)
LEMMA WholeBetween ==
  ASSUME Live, pc # "terminated"
  PROVE  WholeHours(Len(journal))
<1>. DEFINE there == {EventOf(journal[i]) : i \in 1 .. Len(journal)}
<1>1. there = ListedIn(fileTable, journal)
  <2>1. DOMAIN journal = 1 .. Len(journal)
    BY CompleteFacts, LenProperties DEF Live
  <2>. QED BY <2>1 DEF ListedIn, EventIn, EventOf
<1>2. CASE journal = << >>
  <2>1. there = {}
    BY <1>1, <1>2 DEF ListedIn
  <2>. QED BY <2>1 DEF WholeHours
<1>3. ASSUME there = IndexedEvents \/ \E h : there = EventsBefore(h)
      PROVE  WholeHours(Len(journal))
  <2>. SUFFICES ASSUME NEW d \in there, NEW e \in IndexedEvents, HourOf(d) = HourOf(e)
                PROVE  e \in there
    BY DEF WholeHours
  <2>. HIDE DEF there
  <2>. QED BY <1>3 DEF EventsBefore
<1>4. CASE journal # << >>
  <2>1. Building
    BY <1>4, RowsAreBuilt
  <2>2. CompleteParts
    BY CompleteFacts DEF Live
  <2>3. CASE pc \in {"nextFile", "events", "await"}
    <3>1. HoursWritten /\ (Reading \/ pc = "await")
      BY <2>2, <2>3 DEF CompleteParts, Reading
    <3>2. CASE \A t \in DOMAIN threads : ~HasRows(t)
      <4>1. Lists(fileTable, journal, Passed)
        BY <3>1, <3>2 DEF HoursWritten
      <4>. QED BY <1>1, <1>3, <4>1 DEF Lists, Passed
    <3>3. ASSUME NEW t \in DOMAIN threads, HasRows(t)
          PROVE  WholeHours(Len(journal))
      <4>1. PICK h \in Nat : WritesHour(t, h)
        BY <3>1, <3>3 DEF HoursWritten
      <4>. QED BY <1>1, <1>3, <4>1 DEF WritesHour, Lists
    <3>. QED BY <3>2, <3>3
  <2>4. CASE pc \in {"status", "read", "done"}
    <3>1. AllListed
      BY <2>1, <2>2, <2>4 DEF CompleteParts, StatusTrue, AllWritten, Building
    <3>. QED BY <1>1, <1>3, <3>1 DEF AllListed, Lists
  <2>. QED BY <2>1, <2>3, <2>4 DEF Building
<1>. QED BY <1>2, <1>4

(* The beginning of a journal that grows.                                  *)
LEMMA BeginningOfRows ==
  ASSUME NEW a \in Seq(Rows), NEW b \in Seq(Rows), NEW n \in 0 .. Len(a), Len(a) <= Len(b),
         \A i \in DOMAIN a : b[i] = a[i]
  PROVE  SubSeq(a, 1, n) = SubSeq(b, 1, n)
<1>1. /\ Len(a) \in Nat /\ DOMAIN a = 1 .. Len(a) /\ Len(b) \in Nat /\ n \in 0 .. Len(b)
  BY LenProperties
<1>2. \A s \in Seq(Rows) : n \in 0 .. Len(s) =>
        /\ SubSeq(s, 1, n) \in Seq(Rows) /\ Len(SubSeq(s, 1, n)) = n
        /\ \A i \in DOMAIN SubSeq(s, 1, n) : SubSeq(s, 1, n)[i] = s[i]
  <2>1. SUFFICES ASSUME NEW s \in Seq(Rows), n \in 0 .. Len(s)
                 PROVE  /\ SubSeq(s, 1, n) \in Seq(Rows) /\ Len(SubSeq(s, 1, n)) = n
                        /\ \A i \in DOMAIN SubSeq(s, 1, n) : SubSeq(s, 1, n)[i] = s[i]
    OBVIOUS
  <2>2. Len(s) \in Nat /\ \A i \in 1 .. n : s[i] \in Rows
    BY <2>1, LenProperties, ElementOfSeq
  <2>3. Len(SubSeq(s, 1, n)) = IF 1 <= n THEN n - 1 + 1 ELSE 0
    BY <2>2, SubSeqProperties
  <2>4. Len(SubSeq(s, 1, n)) = n
    BY <1>1, <2>3
  <2>. QED BY <2>1, <2>4, PrefixRows
<1>3. /\ SubSeq(a, 1, n) \in Seq(Rows) /\ SubSeq(b, 1, n) \in Seq(Rows)
      /\ Len(SubSeq(a, 1, n)) = n /\ Len(SubSeq(b, 1, n)) = n
      /\ \A i \in 1 .. n : SubSeq(a, 1, n)[i] = SubSeq(b, 1, n)[i]
  <2>1. \A i \in 1 .. n : i \in DOMAIN a
    BY <1>1
  <2>. QED BY <1>1, <1>2, <2>1, LenProperties
<1>. QED BY <1>3, SeqEqual

(* What a search has seen stays as it was when the journal grows.          *)
LEMMA ResultKept ==
  ASSUME NamesTrue, NamesTrue', journal \in Seq(Rows), journal' \in Seq(Rows),
         Len(journal) <= Len(journal'),
         \A i \in DOMAIN journal : journal'[i] = journal[i],
         UNCHANGED fileTable \/ journal = << >>,
         NEW n \in 0 .. Len(journal), WholeHours(n), NEW s
  PROVE  /\ n \in 0 .. Len(journal') /\ WholeHours(n)'
         /\ Result(s, SubSeq(journal, 1, n))' = Result(s, SubSeq(journal, 1, n))
<1>1. /\ Len(journal) \in Nat /\ DOMAIN journal = 1 .. Len(journal)
      /\ Len(journal') \in Nat /\ DOMAIN journal' = 1 .. Len(journal')
      /\ n \in 0 .. Len(journal')
      /\ \A i \in 1 .. n : i \in DOMAIN journal /\ i \in DOMAIN journal'
  BY LenProperties
<1>2. \A i \in 1 .. n : EventOf(journal[i])' = EventOf(journal[i])
  BY <1>1 DEF EventOf
<1>3. WholeHours(n)'
  BY <1>2 DEF WholeHours
<1>. DEFINE table == SubSeq(journal, 1, n)
<1>4. table' = table
  BY <1>1, BeginningOfRows
<1>5. /\ DOMAIN table = 1 .. n
      /\ \A i \in 1 .. n : table[i] = journal[i] /\ table[i] = journal'[i]
  <2>1. table \in Seq(Rows) /\ \A i \in DOMAIN table : table[i] = journal[i]
    BY PrefixRows
  <2>2. Len(table) = IF 1 <= n THEN n - 1 + 1 ELSE 0
    BY <1>1, ElementOfSeq, SubSeqProperties
  <2>3. DOMAIN table = 1 .. n
    BY <1>1, <2>1, <2>2, LenProperties
  <2>. HIDE DEF table
  <2>. QED BY <1>1, <2>1, <2>3
<1>6. \A i \in 1 .. n : NameOf(table[i])' = NameOf(table[i])
  <2>1. SUFFICES ASSUME NEW i \in 1 .. n PROVE NameOf(table[i])' = NameOf(table[i])
    OBVIOUS
  <2>2. NameOf(journal[i]) = {NameIn(EventOf(journal[i]))}
    BY <1>1 DEF NamesTrue
  <2>3. NameOf(journal[i])' = {NameIn(EventOf(journal[i])')}
    BY <1>1 DEF NamesTrue, NameIn
  <2>. DEFINE ents == saved["event"] \cup pendingEnts["event"]
              names(E, id) == {p[2] : p \in {q \in E : q[1] = id}}
  <2>4. /\ NameOf(journal[i]) = names(ents, journal[i].event_id)
        /\ NameOf(table[i]) = names(ents, table[i].event_id)
        /\ NameOf(journal[i])' = names(ents', journal'[i].event_id)
        /\ NameOf(table[i])' = names(ents', table'[i].event_id)
    BY DEF NameOf
  <2>. HIDE DEF names, ents, table
  <2>. QED BY <1>2, <1>4, <1>5, <2>1, <2>2, <2>3, <2>4
<1>7. {i \in DOMAIN table : Selects(s, table[i])}' = {i \in DOMAIN table : Selects(s, table[i])}
  BY <1>4, <1>5, <1>6 DEF Selects
<1>8. Result(s, table)' = Result(s, table)
  BY <1>4, <1>7 DEF Result
<1>. QED BY <1>1, <1>3, <1>8

(* The result is made while the search is inside its transaction, and only *)
(* a search that fails leaves by way of the box.                           *)
SeenWhole ==
  \E n \in 0 .. Len(journal) :
    /\ WholeHours(n)
    /\ findResult = IF findStr = NoText THEN << >> ELSE Result(findStr, SubSeq(journal, 1, n))

SearchKept ==
  /\ ui \in {"commit", "count", "store", "idle"} /\ findStr \notin Failing => SeenWhole
  /\ ui = "box" => findStr \in Failing

(* How the journal grows in a step of the living process.                  *)
LEMMA JournalGrows ==
  ASSUME Live, SearchTypeOK, LoaderStep \/ (\E t \in DOMAIN threads : CommitterStep(t)) \/ WindowStep
  PROVE  /\ Live' /\ Len(journal) <= Len(journal')
         /\ \A i \in DOMAIN journal : journal'[i] = journal[i]
         /\ UNCHANGED fileTable \/ journal = << >>
<1>1. journal \in Seq(Rows) /\ pending \in Seq(Rows) /\ Len(journal) \in Nat
  BY CompleteFacts, LenProperties DEF Live
<1>2. CASE LoaderStep
  <2>1. Live' /\ LoaderNext /\ UNCHANGED journal
    BY <1>2, LiveLoader, LoaderFrame
  <2>2. UNCHANGED fileTable \/ journal = << >>
    <3>1. CommitFiles => pc = "commitFiles" /\ newDb
      BY DEF CommitFiles, Live, BuiltHere
    <3>. QED BY <2>1, <3>1, LoaderFrame, CompleteFacts DEF Live, OrderParts, EmptyAtFirst
  <2>. QED BY <1>1, <2>1, <2>2
<1>3. ASSUME NEW t \in DOMAIN threads, CommitterStep(t)
      PROVE  /\ Live' /\ Len(journal) <= Len(journal')
             /\ \A i \in DOMAIN journal : journal'[i] = journal[i]
             /\ UNCHANGED fileTable \/ journal = << >>
  <2>1. Live' /\ UNCHANGED fileTable
    BY <1>3, LiveCommitter, CommitterFrame
  <2>2. journal' = journal \/ journal' = journal \o pending
    BY <1>3 DEF CommitterStep, CommitterNext, Begin, SaveEntity, InsertEvent, EventsEnd, Commit,
                Unlock, dbVars
  <2>3. CASE journal' = journal \o pending
    <3>1. /\ Len(pending) \in Nat /\ DOMAIN journal = 1 .. Len(journal)
          /\ Len(journal \o pending) = Len(journal) + Len(pending)
          /\ \A i \in 1 .. Len(journal) + Len(pending) :
               (journal \o pending)[i] = IF i <= Len(journal) THEN journal[i]
                                         ELSE pending[i - Len(journal)]
      BY <1>1, ConcatProperties, LenProperties
    <3>. QED BY <1>1, <2>1, <2>3, <3>1
  <2>. QED BY <1>1, <2>1, <2>2, <2>3
<1>4. CASE WindowStep
  BY <1>1, <1>4, LiveWindow DEF Unnoticed
<1>. QED BY <1>2, <1>3, <1>4

(* Rows that were seen whole remain so.                                    *)
LEMMA SeenKept ==
  ASSUME Live, SearchTypeOK, LoaderStep \/ (\E t \in DOMAIN threads : CommitterStep(t)) \/ WindowStep,
         NamesTrue, NamesTrue', SeenWhole, UNCHANGED <<findStr, findResult>>
  PROVE  SeenWhole'
<1>1. /\ journal \in Seq(Rows) /\ journal' \in Seq(Rows) /\ Len(journal) <= Len(journal')
      /\ \A i \in DOMAIN journal : journal'[i] = journal[i]
      /\ UNCHANGED fileTable \/ journal = << >>
  <2>1. Live'
    BY JournalGrows
  <2>2. journal' \in Seq(Rows)
    BY <2>1 DEF Live, CompleteInv, ResolveInv, OrderInv, WriterInv, TypeInv, TypeOK
  <2>. QED BY <2>2, JournalGrows, CompleteFacts DEF Live
<1>2. PICK n \in 0 .. Len(journal) :
        /\ WholeHours(n)
        /\ findResult = IF findStr = NoText THEN << >> ELSE Result(findStr, SubSeq(journal, 1, n))
  BY DEF SeenWhole
<1>3. /\ n \in 0 .. Len(journal') /\ WholeHours(n)'
      /\ Result(findStr, SubSeq(journal, 1, n))' = Result(findStr, SubSeq(journal, 1, n))
  <2>1. ASSUME NEW s
        PROVE  /\ n \in 0 .. Len(journal') /\ WholeHours(n)'
               /\ Result(s, SubSeq(journal, 1, n))' = Result(s, SubSeq(journal, 1, n))
    BY <1>1, <1>2, ResultKept
  <2>. QED BY <2>1
<1>. QED BY <1>2, <1>3 DEF SeenWhole

(* The search that reads the journal reads whole hours.                    *)
LEMMA SelectSeesWhole ==
  ASSUME Live, SearchTypeOK, NamesTrue, NamesTrue', FindSelect, findStr \notin Failing
  PROVE  SeenWhole'
<1>0. PICK n : n = Len(journal)
  OBVIOUS
<1>1. /\ ui = "select" /\ pc # "terminated" /\ UNCHANGED <<vars, findStr>>
      /\ findResult' = IF findStr = NoText THEN << >> ELSE Result(findStr, Visible)
  BY DEF FindSelect
<1>2. /\ journal \in Seq(Rows) /\ n \in 0 .. Len(journal)
      /\ UNCHANGED <<journal, fileTable, saved, pendingEnts>>
      /\ Visible = journal /\ SubSeq(journal, 1, n) = journal
  <2>1. journal \in Seq(Rows) /\ UNCHANGED <<journal, fileTable, saved, pendingEnts>>
    BY <1>1, CompleteFacts DEF Live, vars, dbVars, txnVars
  <2>2. SearchInside
    BY <1>1 DEF SearchInside
  <2>. QED BY <1>0, <2>1, <2>2, SearchIsAlone, SubSeqFull, LenProperties
<1>3. WholeHours(n)
  BY <1>0, <1>1, WholeBetween
<1>4. /\ n \in 0 .. Len(journal') /\ WholeHours(n)'
      /\ Result(findStr, SubSeq(journal, 1, n))' = Result(findStr, SubSeq(journal, 1, n))
  <2>1. ASSUME NEW s
        PROVE  /\ n \in 0 .. Len(journal') /\ WholeHours(n)'
               /\ Result(s, SubSeq(journal, 1, n))' = Result(s, SubSeq(journal, 1, n))
    BY <1>2, <1>3, ResultKept
  <2>. QED BY <1>1, <2>1
<1>. QED BY <1>1, <1>2, <1>4 DEF SeenWhole

(* No step, of a search or of the load, spoils a result.                   *)
LEMMA SearchKeptNext ==
  SearchInv /\ NamesInv /\ NamesInv' /\ SearchKept /\ [SearchNext]_allVars => SearchKept'
<1>. SUFFICES ASSUME SearchInv, NamesInv, NamesInv', SearchKept, [SearchNext]_allVars
              PROVE  SearchKept'
  OBVIOUS
<1>1. pc # "terminated" => Live /\ SearchTypeOK /\ NamesTrue
  BY DEF SearchInv, LiveInv, NamesInv
<1>2. pc' # "terminated" => NamesTrue'
  BY DEF NamesInv
<1>3. ASSUME pc # "terminated", pc' # "terminated", UNCHANGED <<findStr, findResult>>,
             ui' \in {"commit", "count", "store", "idle"} =>
               ui \in {"commit", "count", "store", "idle"} \/ findStr \in Failing,
             ui' = "box" => ui = "box" \/ findStr \in Failing,
             LoaderStep \/ (\E t \in DOMAIN threads : CommitterStep(t)) \/ WindowStep
      PROVE  SearchKept'
  BY <1>1, <1>2, <1>3, SeenKept DEF SearchKept
<1>4. ASSUME UNCHANGED <<journal, fileTable, saved, pendingEnts, ui, findStr, findResult>>
      PROVE  SearchKept'
  <2>1. SeenWhole' = SeenWhole
    BY <1>4 DEF SeenWhole, WholeHours, EventOf, Result, Selects, NameOf
  <2>. QED BY <1>4, <2>1 DEF SearchKept
<1>5. ASSUME ui' \notin {"commit", "count", "store", "idle", "box"}
      PROVE  SearchKept'
  BY <1>5 DEF SearchKept
<1>6. CASE pc # "terminated" /\ LoaderStep
  <2>1. pc' # "terminated"
    <3>1. LoaderNext /\ ~OpenExisting
      BY <1>1, <1>6, LiveLoader DEF Live, BuiltHere, OpenExisting
    <3>2. CASE OpenNew \/ CreateDb \/ ListFiles \/ CommitFiles \/ LoadFiles \/ BeginReadFiles
      BY <3>2 DEF OpenNew, CreateDb, ListFiles, CommitFiles, LoadFiles, BeginReadFiles
    <3>3. CASE HourEnds \/ OpenFile \/ ReadEvent \/ CloseFile \/ FilesEnd
      BY <1>6, <3>3 DEF HourEnds, OpenFile, ReadEvent, CloseFile, FilesEnd, loaderVars
    <3>4. CASE LastHourWritten \/ WriteStatus \/ ShowStatus \/ FilesAreRead
      BY <3>4 DEF LastHourWritten, WriteStatus, ShowStatus, FilesAreRead
    <3>. QED BY <3>1, <3>2, <3>3, <3>4 DEF LoaderNext
  <2>. QED BY <1>3, <1>6, <2>1 DEF LoaderStep
<1>7. ASSUME pc # "terminated", NEW t \in DOMAIN threads, CommitterStep(t)
      PROVE  SearchKept'
  <2>1. UNCHANGED <<pc, ui, findStr, findResult>>
    BY <1>1, <1>7, CommitterFrame DEF searchVars
  <2>. QED BY <1>3, <1>7, <2>1
<1>8. CASE pc # "terminated" /\ WindowStep
  <2>1. pc' = pc
    BY <1>1, <1>8, LiveWindow DEF Unnoticed
  <2>2. CASE BeginFails
    BY <1>4, <2>2 DEF BeginFails, vars, dbVars, txnVars
  <2>3. ASSUME NEW s \in Texts, FindBegin(s) \/ NestedFind(s)
        PROVE  SearchKept'
    BY <1>5, <2>3 DEF FindBegin, NestedFind
  <2>4. CASE FindSelect
    <3>1. CASE findStr \in Failing
      <4>1. ui' = "box" /\ UNCHANGED findStr
        BY <2>4, <3>1 DEF FindSelect
      <4>. QED BY <3>1, <4>1 DEF SearchKept
    <3>2. CASE findStr \notin Failing
      <4>1. ui' = "commit"
        BY <2>4, <3>2 DEF FindSelect
      <4>2. SeenWhole'
        BY <1>1, <1>2, <1>8, <2>1, <2>4, <3>2, SelectSeesWhole
      <4>. QED BY <4>1, <4>2 DEF SearchKept
    <3>. QED BY <3>1, <3>2
  <2>5. CASE FindCommit
    <3>1. ui = "commit" /\ ui' \in {"commit", "count"} /\ UNCHANGED <<findStr, findResult>>
      BY <2>5 DEF FindCommit
    <3>. QED BY <1>3, <1>8, <2>1, <3>1
  <2>6. CASE CountQuery
    BY <1>3, <1>8, <2>1, <2>6 DEF CountQuery
  <2>7. CASE CountStore
    BY <1>3, <1>8, <2>1, <2>7 DEF CountStore
  <2>8. CASE FindRollback
    <3>1. ui = "box" /\ ui' = "count" /\ UNCHANGED <<findStr, findResult>> /\ findStr \in Failing
      BY <2>8 DEF FindRollback, SearchKept
    <3>. QED BY <1>3, <1>8, <2>1, <3>1
  <2>. QED BY <1>8, <2>2, <2>3, <2>4, <2>5, <2>6, <2>7, <2>8 DEF WindowStep, FindNext
<1>9. CASE Answer
  BY <1>4, <1>9 DEF Answer, dbVars, txnVars, searchVars
<1>10. CASE UNCHANGED allVars
  BY <1>4, <1>10 DEF allVars, vars, dbVars, txnVars, searchVars
<1>. QED BY <1>6, <1>7, <1>8, <1>9, <1>10, StepsOfAll

(* The result of a search is what the search selects of the rows up to the *)
(* end of an hour, with the totals of its own lines, whatever the loader   *)
(* writes before, during and after it.                                     *)
THEOREM SearchSeesWholeHours == SearchSpec => []SearchOfWholeHours
<1>1. SearchInit => SearchKept
  <2>. SUFFICES ASSUME SearchInit PROVE SearchKept
    OBVIOUS
  <2>1. journal = << >> /\ ui = "idle" /\ findStr = NoText /\ findResult = << >>
    BY DEF SearchInit, Init
  <2>2. 0 \in 0 .. Len(journal)
    BY <2>1
  <2>3. WholeHours(0)
    <3>1. 1 .. 0 = {}
      OBVIOUS
    <3>. QED BY <3>1 DEF WholeHours
  <2>. QED BY <2>1, <2>2, <2>3 DEF SearchKept, SeenWhole
<1>2. SearchInv => NamesInv
  BY NamesOfRows DEF SearchInv, LiveInv, NamesInv
<1>3. SearchKept => SearchOfWholeHours
  BY DEF SearchKept, SeenWhole, SearchOfWholeHours
<1>. QED BY <1>1, <1>2, <1>3, SearchInvAlways, SearchKeptNext, PTL DEF SearchSpec

-----------------------------------------------------------------------------
(* The index as a search of the window's thread sees it: it is complete    *)
(* when the row that says so is committed.                                 *)
SeenPhase == IF status /\ ~statusOpen THEN "complete"
             ELSE IF dbFile = "absent" \/ newDb THEN "building" ELSE "partial"

LEMMA PhaseWhileAlive ==
  ASSUME BuiltHere
  PROVE  SeenPhase = IF status /\ ~statusOpen THEN "complete" ELSE "building"
BY DEF BuiltHere, SeenPhase

(* Both views of the journal have the same events before them.             *)
LEMMA SameHours ==
  /\ SearchedIndex!NextHours = Index!NextHours
  /\ \A h : SearchedIndex!InTimeOrder(SearchedIndex!EventsOf(h)) = Index!InTimeOrder(Index!EventsOf(h))
<1>1. \A h : SearchedIndex!EventsOf(h) = Index!EventsOf(h)
  BY DEF SearchedIndex!EventsOf, Index!EventsOf
<1>2. SearchedIndex!Hours = Index!Hours /\ SearchedIndex!Indexed = Index!Indexed
  BY DEF SearchedIndex!Hours, Index!Hours, SearchedIndex!Indexed, Index!Indexed
<1>3. \A S : SearchedIndex!InTimeOrder(S) = Index!InTimeOrder(S)
  <2>1. \A S : SearchedIndex!Cardinality(S) = Index!Cardinality(S)
    BY Zenon DEF SearchedIndex!Cardinality, Index!Cardinality
  <2>. QED BY <2>1 DEF SearchedIndex!InTimeOrder, Index!InTimeOrder
<1>. QED BY <1>1, <1>2, <1>3 DEF SearchedIndex!NextHours, Index!NextHours

(* A status row that becomes visible finds all events indexed.             *)
LEMMA StatusSeen ==
  ASSUME Live, Live', UNCHANGED <<journal, fileTable>>,
         status /\ ~statusOpen => status' /\ ~statusOpen'
  PROVE  SearchedIndex!Finish \/ UNCHANGED SearchedIndex!vars
<1>1. UNCHANGED [i \in DOMAIN journal |-> EventOf(journal[i])]
  BY DEF EventOf
<1>2. /\ SeenPhase = IF status /\ ~statusOpen THEN "complete" ELSE "building"
      /\ SeenPhase' = IF status' /\ ~statusOpen' THEN "complete" ELSE "building"
  BY PhaseWhileAlive DEF Live, BuiltHere, SeenPhase
<1>3. CASE SeenPhase' = SeenPhase
  BY <1>1, <1>3 DEF SearchedIndex!vars, SeenPhase
<1>4. CASE SeenPhase' # SeenPhase
  <2>1. SeenPhase = "building" /\ SeenPhase' = "complete" /\ status'
    BY <1>2, <1>4
  <2>2. AllListed'
    BY <2>1 DEF Live, CompleteInv, CompleteParts, StatusTrue, AllWritten
  <2>3. AllListed
    BY <2>2 DEF AllListed, Lists, ListedIn, EventIn
  <2>4. SearchedIndex!NextHours = {}
    BY <2>3, NoHourLeft, SameHours
  <2>. QED BY <1>1, <2>1, <2>4 DEF SearchedIndex!Finish, SeenPhase
<1>. QED BY <1>3, <1>4

LEMMA SearchedLoader ==
  ASSUME Live, SearchTypeOK, LoaderStep
  PROVE  SearchedIndex!Finish \/ UNCHANGED SearchedIndex!vars
<1>1. /\ LoaderNext /\ Live' /\ CompleteInv
      /\ statusOpen' = (statusOpen \/ (pc = "status" /\ txn))
  BY LiveLoader DEF LoaderStep, Live
<1>2. UNCHANGED [i \in DOMAIN journal |-> EventOf(journal[i])]
  BY <1>1, IndexLoader DEF Index!Finish, Index!vars
<1>3. pc = "status" => ~status
  BY CompleteFacts DEF Live, CompleteParts, StatusShown, StageParts, StatusLast
<1>4. CASE pc = "status"
  <2>1. UNCHANGED <<journal, fileTable>>
    <3>1. ~CommitFiles
      BY <1>4 DEF CommitFiles
    <3>. QED BY <1>1, <3>1, LoaderFrame
  <2>. QED BY <1>1, <1>3, <1>4, <2>1, StatusSeen
<1>5. CASE pc # "status"
  <2>1. UNCHANGED <<status, statusOpen>>
    <3>1. ~WriteStatus
      BY <1>5 DEF WriteStatus
    <3>. QED BY <1>1, <1>5, <3>1, LoaderFrame DEF SearchTypeOK
  <2>2. SeenPhase' = SeenPhase
    BY <1>1, <2>1 DEF Live, BuiltHere, SeenPhase
  <2>. QED BY <1>2, <2>2 DEF SearchedIndex!vars, SeenPhase
<1>. QED BY <1>4, <1>5

LEMMA SearchedCommitter ==
  ASSUME Live, NEW t \in DOMAIN threads, CommitterStep(t)
  PROVE  SearchedIndex!AddHour \/ UNCHANGED SearchedIndex!vars
<1>1. /\ CommitterNext(t) /\ CompleteInv
      /\ UNCHANGED <<statusOpen, status, dbFile, newDb>>
  BY CommitterFrame DEF Live, searchVars
<1>2. SeenPhase' = SeenPhase
  BY <1>1 DEF SeenPhase
<1>3. CASE UNCHANGED Index!vars
  BY <1>2, <1>3 DEF Index!vars, SearchedIndex!vars, SeenPhase
<1>4. CASE Index!AddHour
  <2>1. SeenPhase = "building"
    BY <1>4 DEF Index!AddHour, SeenPhase
  <2>2. PICK h \in Index!NextHours : \E s \in Index!InTimeOrder(Index!EventsOf(h)) :
          [i \in DOMAIN journal |-> EventOf(journal[i])]'
            = [i \in DOMAIN journal |-> EventOf(journal[i])] \o s
    BY <1>4 DEF Index!AddHour
  <2>. QED BY <1>2, <2>1, <2>2, SameHours DEF SearchedIndex!AddHour, SeenPhase
<1>. QED BY <1>1, <1>3, <1>4, IndexCommitter

LEMMA SearchedWindow ==
  ASSUME Live, SearchTypeOK, WindowStep
  PROVE  SearchedIndex!Finish \/ UNCHANGED SearchedIndex!vars
<1>1. Live' /\ Unnoticed
  BY LiveWindow
<1>2. UNCHANGED <<journal, fileTable>>
  BY <1>1 DEF Unnoticed
<1>3. status /\ ~statusOpen => status' /\ ~statusOpen'
  BY DEF WindowStep, BeginFails, FindBegin, NestedFind, FindNext, FindSelect, FindCommit,
         CountQuery, CountStore, FindRollback, vars, dbVars
<1>. QED BY <1>1, <1>2, <1>3, StatusSeen

(* Whatever is searched and whatever fails meanwhile, the index is built   *)
(* as JournalIndex says, an hour at a time in time order, and says that it *)
(* is complete when it is.                                                 *)
THEOREM BuiltDespiteSearches == SearchSpec => IndexByHours
<1>1. SearchInit => SearchedIndex!Init
  <2>. SUFFICES ASSUME SearchInit PROVE SearchedIndex!Init
    OBVIOUS
  <2>1. [i \in DOMAIN journal |-> EventOf(journal[i])] = << >> /\ ~status
    BY DEF SearchInit, Init
  <2>2. SeenPhase = "building"
    BY <2>1, LiveInit, PhaseWhileAlive DEF Live
  <2>. QED BY <2>1, <2>2 DEF SearchedIndex!Init, SeenPhase
<1>2. SearchInv /\ [SearchNext]_allVars => [SearchedIndex!Next]_(SearchedIndex!vars)
  <2>. SUFFICES ASSUME SearchInv, [SearchNext]_allVars
                PROVE  [SearchedIndex!Next]_(SearchedIndex!vars)
    OBVIOUS
  <2>1. pc # "terminated" => Live /\ SearchTypeOK
    BY DEF SearchInv, LiveInv
  <2>2. CASE pc # "terminated" /\ LoaderStep
    BY <2>1, <2>2, SearchedLoader DEF SearchedIndex!Next
  <2>3. CASE pc # "terminated" /\ \E t \in DOMAIN threads : CommitterStep(t)
    BY <2>1, <2>3, SearchedCommitter DEF SearchedIndex!Next
  <2>4. CASE pc # "terminated" /\ WindowStep
    BY <2>1, <2>4, SearchedWindow DEF SearchedIndex!Next
  <2>5. CASE Answer \/ UNCHANGED allVars
    <3>1. UNCHANGED <<journal, fileTable, status, dbFile, newDb, statusOpen>>
      BY <2>5 DEF Answer, allVars, vars, dbVars, loaderVars, searchVars
    <3>. QED BY <3>1 DEF SearchedIndex!vars, EventOf
  <2>. QED BY <2>2, <2>3, <2>4, <2>5, StepsOfAll
<1>. QED BY <1>1, <1>2, SearchInvAlways, PTL DEF SearchSpec, IndexByHours
=============================================================================
