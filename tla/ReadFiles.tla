------------------------------ MODULE ReadFiles ------------------------------
(***************************************************************************)
(* The first opening of a log directory: DirectoryWatcher::ReadDirectory   *)
(* and ReadFiles on the loading thread, one detached thread per hour of    *)
(* logs (ReadFilesCommitTrunsaction) that writes the hour's events in a    *)
(* transaction, all of them on the one SQLite connection db_, the global   *)
(* mutex that is locked by the loading thread and unlocked by the          *)
(* committing one, and the death of the process at any point followed by   *)
(* another opening of the same directory.                                  *)
(*                                                                         *)
(* The parser is abstracted to the sequence of events it takes from a      *)
(* file; the five dictionaries kept per event (events, p_process_names,    *)
(* user_names, session_ids, wait_connections) are handled alike and are    *)
(* represented by one, "event"; the user does not open another directory   *)
(* while this one loads. Searches during a load: see SearchDuringLoad.     *)
(***************************************************************************)
EXTENDS Integers, Sequences, FiniteSets, Functions

CONSTANTS LogFiles,     \* the .log files under the directory
          Hour,         \* Hour[f]: Reader::Time, the YYMMDDHH of the file's name
          HourSpan,     \* the time units of an hour (10^10 in the code)
          Indexable,    \* the files with a byte order mark and some text after it
          Events,       \* Events[f]: what the parser takes from the file, in order
          Process,      \* Process[f]: Reader::Process, from the file's path
          Names,        \* the names of processes and of events
          MaxKills      \* bound: how many times the process dies

Kinds == {"process", "event"}

ASSUME LoaderAssumption ==
  /\ IsFiniteSet(LogFiles)
  /\ HourSpan \in Nat \ {0}
  /\ Hour \in [LogFiles -> Nat \ {0}]
  /\ Indexable \subseteq LogFiles
  /\ Process \in [LogFiles -> Names]
  /\ Events \in [LogFiles ->
       Seq([offset : 0 .. HourSpan - 1, lines : Nat \ {0}, name : Names])]
  /\ MaxKills \in Nat

NoId == -1

VARIABLES
  dbFile,       \* data.sqlite3: "absent", "schemaless" (no table journal) or "ready"
  fileTable,    \* committed rows of table files; the id is the position less one
  journal,      \* committed rows of table journal; the id is the position
  saved,        \* saved[k]: committed rows <<id, name>> of the dictionary k
  status,       \* the row ALL_DATA_LOAD of table strings is there
  txn,          \* a transaction is open on db_
  pending,      \* rows of journal inserted by it
  pendingEnts,  \* rows of the dictionaries inserted by it
  mutex,        \* mutex_read_files_commit_trunsaction is locked
  newDb,        \* Db::new_db_
  files,        \* files_, in the order the loader reads them
  pc,           \* where the loading thread is
  cur,          \* the file it reads: an index in files_
  evt,          \* the event of that file it takes next
  time,         \* local time: the hour of the events in records
  records,      \* local journal_records
  countLines,   \* member count_lines_: the lines handed over to earlier threads
  countCur,     \* local count_lines_cur: the lines read so far
  dict,         \* dict[k]: the maps from a name to its id
  nextId,       \* nextId[k]: the next id to give
  newEnts,      \* newEnts[k]: ids given since the last hand-over
  threads,      \* the calls of ReadFilesCommitTrunsaction, in order
  filesIsRead,  \* files_is_read_
  kills         \* how many times the process died

dbVars     == <<dbFile, fileTable, journal, saved, status>>
txnVars    == <<txn, pending, pendingEnts>>
readVars   == <<cur, evt, time, records, countLines, countCur, dict, nextId, newEnts>>
loaderVars == <<newDb, files, pc, filesIsRead>>
vars == <<dbVars, txnVars, readVars, loaderVars, mutex, threads, kills>>

EventIds == UNION {{f} \X DOMAIN Events[f] : f \in LogFiles}

(* A row of journal_records: start (with length) is where the event lies   *)
(* in its file, here the number of the event in the file.                  *)
Rows == [file_id : Nat, start : Nat \ {0}, time : Nat, lines : Nat \ {0},
         agr : Nat, process_id : Nat, event_id : Nat]

Entities == [Kinds -> SUBSET (Nat \X Names)]

NoEntities == [k \in Kinds |-> {}]

InsideTransaction == {"save", "insert", "commit"}

Threads == [pc   : {"begin", "unlock", "done"} \cup InsideTransaction,
            rows : Seq(Rows), next : Nat \ {0}, agr : Nat, ents : Entities]

LoaderStates ==
  {"start", "createDb", "readDirectory", "commitFiles", "readFiles", "nextFile",
   "events", "await", "status", "read", "done", "terminated"}

TypeOK ==
  /\ dbFile \in {"absent", "schemaless", "ready"}
  /\ fileTable \in Seq(LogFiles)
  /\ journal \in Seq(Rows)
  /\ saved \in Entities
  /\ status \in BOOLEAN
  /\ txn \in BOOLEAN
  /\ pending \in Seq(Rows)
  /\ pendingEnts \in Entities
  /\ mutex \in BOOLEAN
  /\ newDb \in BOOLEAN
  /\ files \in Seq(LogFiles)
  /\ pc \in LoaderStates
  /\ cur \in Nat \ {0}
  /\ evt \in Nat \ {0}
  /\ time \in Nat
  /\ records \in Seq(Rows)
  /\ countLines \in Nat
  /\ countCur \in Nat
  /\ dict \in [Kinds -> [Names -> Nat \cup {NoId}]]
  /\ nextId \in [Kinds -> Nat]
  /\ newEnts \in Entities
  /\ threads \in Seq(Threads)
  /\ filesIsRead \in BOOLEAN
  /\ kills \in 0 .. MaxKills

-----------------------------------------------------------------------------
Init ==
  /\ dbFile = "absent" /\ fileTable = << >> /\ journal = << >>
  /\ saved = NoEntities /\ status = FALSE
  /\ txn = FALSE /\ pending = << >> /\ pendingEnts = NoEntities
  /\ mutex = FALSE
  /\ newDb = FALSE /\ files = << >> /\ filesIsRead = FALSE
  /\ pc = "start"
  /\ cur = 1 /\ evt = 1 /\ time = 0 /\ records = << >>
  /\ countLines = 0 /\ countCur = 0
  /\ dict = [k \in Kinds |-> [n \in Names |-> NoId]]
  /\ nextId = [k \in Kinds |-> 0]
  /\ newEnts = NoEntities
  /\ threads = << >>
  /\ kills = 0

-----------------------------------------------------------------------------
(* Db::Open and DirectoryWatcher::ReadDirectory                            *)

(* No file: new_db_ is decided before SQLite creates it.                   *)
OpenNew ==
  /\ pc = "start" /\ dbFile = "absent"
  /\ newDb' = TRUE
  /\ dbFile' = "schemaless"
  /\ pc' = "createDb"
  /\ UNCHANGED <<fileTable, journal, saved, status, txnVars, readVars, files,
                 filesIsRead, mutex, threads, kills>>

CreateDb ==
  /\ pc = "createDb"
  /\ dbFile' = "ready"
  /\ pc' = "readDirectory"
  /\ UNCHANGED <<fileTable, journal, saved, status, txnVars, readVars, newDb,
                 files, filesIsRead, mutex, threads, kills>>

(* Wrong: an index without the status row is built again.                  *)
OpenExistingAndResume ==
  /\ pc = "start" /\ dbFile # "absent"
  /\ newDb' = ~status
  /\ pc' = IF dbFile = "ready" THEN "readDirectory" ELSE "terminated"
  /\ UNCHANGED <<dbVars, txnVars, readVars, files, filesIsRead, mutex, threads, kills>>

(* A file is there: its tables are used as they are. Without them the      *)
(* preparation of the INSERT fails and the rethrow ends the process.       *)
OpenExisting ==
  /\ pc = "start" /\ dbFile # "absent"
  /\ newDb' = FALSE
  /\ pc' = IF dbFile = "ready" THEN "readDirectory" ELSE "terminated"
  /\ UNCHANGED <<dbVars, txnVars, readVars, files, filesIsRead, mutex, threads, kills>>

(* The files in the order of their hours; files of one hour in any order,  *)
(* because std::sort is not stable.                                        *)
HourSortedFiles ==
  {s \in [1 .. Cardinality(LogFiles) -> LogFiles] :
     /\ \A f \in LogFiles : \E i \in DOMAIN s : s[i] = f
     /\ \A i, j \in DOMAIN s : i < j => Hour[s[i]] <= Hour[s[j]]}

(* A new index: list the files, sort them, insert them (AddFiles).         *)
ListFiles ==
  /\ pc = "readDirectory" /\ newDb
  /\ txn' = TRUE
  /\ files' \in HourSortedFiles
  /\ pc' = "commitFiles"
  /\ UNCHANGED <<dbVars, pending, pendingEnts, readVars, newDb, filesIsRead,
                 mutex, threads, kills>>

CommitFiles ==
  /\ pc = "commitFiles"
  /\ txn' = FALSE
  /\ fileTable' = files
  /\ pc' = "readFiles"
  /\ UNCHANGED <<dbFile, journal, saved, status, pending, pendingEnts, readVars,
                 newDb, files, filesIsRead, mutex, threads, kills>>

(* An existing index: files_ comes from the table (CallbackLoadFiles).     *)
LoadFiles ==
  /\ pc = "readDirectory" /\ ~newDb
  /\ files' = fileTable
  /\ pc' = "readFiles"
  /\ UNCHANGED <<dbVars, txnVars, readVars, newDb, filesIsRead, mutex, threads, kills>>

-----------------------------------------------------------------------------
(* DirectoryWatcher::ReadFiles                                             *)

BeginReadFiles ==
  /\ pc = "readFiles" /\ newDb
  /\ cur' = 1 /\ evt' = 1 /\ time' = 0 /\ records' = << >>
  /\ countLines' = 0 /\ countCur' = 0
  /\ dict' = [k \in Kinds |-> [n \in Names |-> NoId]]
  /\ nextId' = [k \in Kinds |-> 0]
  /\ newEnts' = NoEntities
  /\ pc' = "nextFile"
  /\ UNCHANGED <<dbVars, txnVars, newDb, files, filesIsRead, mutex, threads, kills>>

(* Wrong: the hour is not sorted.                                          *)
RecordsAsRead(rs) == {rs}

(* The records in time order; those of one time stamp in any order.        *)
TimeSorted(rs) ==
  {[i \in DOMAIN rs |-> rs[p[i]]] : p \in
     {p \in Bijection(DOMAIN rs, DOMAIN rs) :
        \A i, j \in DOMAIN rs : i < j => rs[p[i]].time <= rs[p[j]].time}}

(* Wrong: the lines of this hour are counted too.                          *)
NewThreadWithLaterLines(rs) ==
  [pc |-> "begin", rows |-> rs, next |-> 1, agr |-> countCur, ents |-> newEnts]

(* What ReadFilesCommitTrunsaction is given: the records, the lines of the *)
(* earlier hours and the new dictionary entries.                           *)
NewThread(rs) ==
  [pc |-> "begin", rows |-> rs, next |-> 1, agr |-> countLines, ents |-> newEnts]

(* Wrong: the loader does not wait for the mutex.                          *)
HandOverWithoutLock ==
  /\ mutex' = TRUE
  /\ \E rs \in TimeSorted(records) : threads' = Append(threads, NewThread(rs))
  /\ records' = << >>
  /\ newEnts' = NoEntities

(* The loader sorts the hour's records, waits for the mutex and starts the *)
(* thread; records and new entries are moved to it.                        *)
HandOver ==
  /\ ~mutex
  /\ mutex' = TRUE
  /\ \E rs \in TimeSorted(records) : threads' = Append(threads, NewThread(rs))
  /\ records' = << >>
  /\ newEnts' = NoEntities

(* The next file is of a later hour: the hour is handed to a new thread.   *)
HourEnds ==
  /\ pc = "nextFile" /\ cur \in DOMAIN files
  /\ time # 0 /\ time # Hour[files[cur]]
  /\ HandOver
  /\ countLines' = countCur
  /\ time' = Hour[files[cur]]
  /\ UNCHANGED <<dbVars, txnVars, loaderVars, cur, evt, countCur, dict, nextId, kills>>

(* Wrong: the id is read before the name has one.                          *)
IdBeforeInsertion(k, n) == dict[k][n]

(* InsertEntity: the id of a name, a new one if the name is new.           *)
IdOf(k, n) == IF dict[k][n] = NoId THEN nextId[k] ELSE dict[k][n]

(* Wrong: the next id is not advanced.                                     *)
InsertEntityWithoutNewId(k, n) ==
  /\ dict' = [dict EXCEPT ![k][n] = IdOf(k, n)]
  /\ nextId' = nextId
  /\ newEnts' = IF dict[k][n] = NoId
                THEN [newEnts EXCEPT ![k] = @ \cup {<<nextId[k], n>>}]
                ELSE newEnts

InsertEntity(k, n) ==
  /\ dict' = [dict EXCEPT ![k][n] = IdOf(k, n)]
  /\ nextId' = IF dict[k][n] = NoId THEN [nextId EXCEPT ![k] = @ + 1] ELSE nextId
  /\ newEnts' = IF dict[k][n] = NoId
                THEN [newEnts EXCEPT ![k] = @ \cup {<<nextId[k], n>>}]
                ELSE newEnts

(* Wrong: a file that cannot be indexed is not passed over.                *)
OpenFileWithoutNext ==
  /\ pc = "nextFile" /\ cur \in DOMAIN files
  /\ time \in {0, Hour[files[cur]]}
  /\ time' = Hour[files[cur]]
  /\ IF files[cur] \in Indexable
     THEN /\ InsertEntity("process", Process[files[cur]])
          /\ evt' = 1
          /\ pc' = "events"
     ELSE UNCHANGED <<dict, nextId, newEnts, evt, pc>>
  /\ UNCHANGED <<dbVars, txnVars, newDb, files, filesIsRead, cur, records,
                 countLines, countCur, mutex, threads, kills>>

OpenFile ==
  /\ pc = "nextFile" /\ cur \in DOMAIN files
  /\ time \in {0, Hour[files[cur]]}
  /\ time' = Hour[files[cur]]
  /\ IF files[cur] \in Indexable
     THEN /\ InsertEntity("process", Process[files[cur]])
          /\ evt' = 1
          /\ pc' = "events"
          /\ UNCHANGED cur
     ELSE /\ cur' = cur + 1
          /\ UNCHANGED <<dict, nextId, newEnts, evt, pc>>
  /\ UNCHANGED <<dbVars, txnVars, newDb, files, filesIsRead, records, countLines,
                 countCur, mutex, threads, kills>>

(* One event of the file becomes a record.                                 *)
ReadEvent ==
  LET f == files[cur]
      e == Events[f][evt]
  IN
  /\ pc = "events" /\ evt \in DOMAIN Events[f]
  /\ InsertEntity("event", e.name)
  /\ records' = Append(records,
       [file_id |-> cur - 1, start |-> evt, time |-> Hour[f] * HourSpan + e.offset,
        lines |-> e.lines, agr |-> 0, process_id |-> dict["process"][Process[f]],
        event_id |-> IdOf("event", e.name)])
  /\ countCur' = countCur + e.lines
  /\ evt' = evt + 1
  /\ UNCHANGED <<dbVars, txnVars, loaderVars, cur, time, countLines, mutex, threads, kills>>

CloseFile ==
  /\ pc = "events" /\ evt \notin DOMAIN Events[files[cur]]
  /\ cur' = cur + 1
  /\ pc' = "nextFile"
  /\ UNCHANGED <<dbVars, txnVars, newDb, files, filesIsRead, evt, time, records,
                 countLines, countCur, dict, nextId, newEnts, mutex, threads, kills>>

(* Wrong: the last hour is not written.                                    *)
FilesEndWithoutLastHour ==
  /\ pc = "nextFile" /\ cur \notin DOMAIN files
  /\ pc' = "status"
  /\ UNCHANGED <<dbVars, txnVars, readVars, newDb, files, filesIsRead, mutex,
                 threads, kills>>

(* The last hour is written by the loading thread itself.                  *)
FilesEnd ==
  /\ pc = "nextFile" /\ cur \notin DOMAIN files
  /\ IF time # 0
     THEN HandOver /\ pc' = "await"
     ELSE pc' = "status" /\ UNCHANGED <<mutex, threads, records, newEnts>>
  /\ UNCHANGED <<dbVars, txnVars, newDb, files, filesIsRead, cur, evt, time,
                 countLines, countCur, dict, nextId, kills>>

LastHourWritten ==
  /\ pc = "await" /\ threads[Len(threads)].pc = "done"
  /\ pc' = "status"
  /\ UNCHANGED <<dbVars, txnVars, readVars, newDb, files, filesIsRead, mutex,
                 threads, kills>>

(* InsertString(ALL_DATA_LOAD, ...), outside any transaction of its own.   *)
WriteStatus ==
  /\ pc = "status"
  /\ status' = TRUE
  /\ pc' = "read"
  /\ UNCHANGED <<dbFile, fileTable, journal, saved, txnVars, readVars, newDb,
                 files, filesIsRead, mutex, threads, kills>>

(* An existing index is not read again: its status row is shown.           *)
ShowStatus ==
  /\ pc = "readFiles" /\ ~newDb
  /\ pc' = "read"
  /\ UNCHANGED <<dbVars, txnVars, readVars, newDb, files, filesIsRead, mutex,
                 threads, kills>>

FilesAreRead ==
  /\ pc = "read"
  /\ filesIsRead' = TRUE
  /\ pc' = "done"
  /\ UNCHANGED <<dbVars, txnVars, readVars, newDb, files, mutex, threads, kills>>

-----------------------------------------------------------------------------
(* ReadFilesCommitTrunsaction, thread t                                    *)

(* BEGIN fails inside a transaction and the exception ends the process.    *)
Begin(t) ==
  /\ threads[t].pc = "begin"
  /\ IF txn
     THEN pc' = "terminated" /\ UNCHANGED <<txn, threads>>
     ELSE /\ txn' = TRUE
          /\ threads' = [threads EXCEPT ![t].pc = "save"]
          /\ UNCHANGED pc
  /\ UNCHANGED <<dbVars, pending, pendingEnts, readVars, newDb, files,
                 filesIsRead, mutex, kills>>

SaveEntity(t) ==
  /\ threads[t].pc = "save"
  /\ pendingEnts' = [k \in Kinds |-> pendingEnts[k] \cup threads[t].ents[k]]
  /\ threads' = [threads EXCEPT ![t].pc = "insert"]
  /\ UNCHANGED <<dbVars, txn, pending, readVars, loaderVars, mutex, kills>>

(* Wrong: the running total is the member count_lines_ itself.             *)
InsertEventIntoMember(t) ==
  LET r == threads[t].rows[threads[t].next]
  IN
  /\ threads[t].pc = "insert" /\ threads[t].next \in DOMAIN threads[t].rows
  /\ countLines' = countLines + r.lines
  /\ pending' = Append(pending, [r EXCEPT !.agr = countLines'])
  /\ threads' = [threads EXCEPT ![t].next = @ + 1]
  /\ UNCHANGED <<dbVars, txn, pendingEnts, cur, evt, time, records, countCur, dict,
                 nextId, newEnts, loaderVars, mutex, kills>>

InsertEvent(t) ==
  LET r   == threads[t].rows[threads[t].next]
      agr == threads[t].agr + r.lines
  IN
  /\ threads[t].pc = "insert" /\ threads[t].next \in DOMAIN threads[t].rows
  /\ pending' = Append(pending, [r EXCEPT !.agr = agr])
  /\ threads' = [threads EXCEPT ![t].next = @ + 1, ![t].agr = agr]
  /\ UNCHANGED <<dbVars, txn, pendingEnts, readVars, loaderVars, mutex, kills>>

EventsEnd(t) ==
  /\ threads[t].pc = "insert" /\ threads[t].next \notin DOMAIN threads[t].rows
  /\ threads' = [threads EXCEPT ![t].pc = "commit"]
  /\ UNCHANGED <<dbVars, txnVars, readVars, loaderVars, mutex, kills>>

(* COMMIT without a transaction fails and ends the process. A row whose id *)
(* the table already has is not inserted.                                  *)
Commit(t) ==
  /\ threads[t].pc = "commit"
  /\ IF txn
     THEN /\ txn' = FALSE
          /\ journal' = journal \o pending
          /\ saved' = [k \in Kinds |-> saved[k] \cup
               {p \in pendingEnts[k] : \A q \in saved[k] : q[1] # p[1]}]
          /\ pending' = << >>
          /\ pendingEnts' = NoEntities
          /\ threads' = [threads EXCEPT ![t].pc = "unlock"]
          /\ UNCHANGED pc
     ELSE pc' = "terminated" /\ UNCHANGED <<journal, saved, txnVars, threads>>
  /\ UNCHANGED <<dbFile, fileTable, status, readVars, newDb, files, filesIsRead,
                 mutex, kills>>

Unlock(t) ==
  /\ threads[t].pc = "unlock"
  /\ mutex' = FALSE
  /\ threads' = [threads EXCEPT ![t].pc = "done"]
  /\ UNCHANGED <<dbVars, txnVars, readVars, loaderVars, kills>>

-----------------------------------------------------------------------------
(* The process dies: the window is closed while the threads run, the       *)
(* parser meets a malformed file, the program is killed. With journal_mode *)
(* OFF nothing undoes an open transaction: some of what it wrote stays;    *)
(* and of the tables, those created first (journal among them or not).     *)
Kill ==
  /\ pc # "start" /\ kills < MaxKills
  /\ kills' = kills + 1
  /\ \E n \in 0 .. Len(pending) : journal' = journal \o SubSeq(pending, 1, n)
  /\ \E s \in [Kinds -> SUBSET UNION {pendingEnts[k] : k \in Kinds}] :
       /\ \A k \in Kinds : s[k] \subseteq pendingEnts[k]
       /\ saved' = [k \in Kinds |-> saved[k] \cup s[k]]
  /\ IF pc = "commitFiles"
     THEN \E n \in 0 .. Len(files) : fileTable' = SubSeq(files, 1, n)
     ELSE UNCHANGED fileTable
  /\ IF pc = "createDb" THEN dbFile' \in {"schemaless", "ready"} ELSE UNCHANGED dbFile
  /\ UNCHANGED status
  /\ txn' = FALSE /\ pending' = << >> /\ pendingEnts' = NoEntities
  /\ mutex' = FALSE
  /\ newDb' = FALSE /\ files' = << >> /\ filesIsRead' = FALSE
  /\ pc' = "start"
  /\ cur' = 1 /\ evt' = 1 /\ time' = 0 /\ records' = << >>
  /\ countLines' = 0 /\ countCur' = 0
  /\ dict' = [k \in Kinds |-> [n \in Names |-> NoId]]
  /\ nextId' = [k \in Kinds |-> 0]
  /\ newEnts' = NoEntities
  /\ threads' = << >>

LoaderNext ==
  \/ OpenNew \/ CreateDb \/ OpenExisting \/ ListFiles \/ CommitFiles \/ LoadFiles
  \/ BeginReadFiles \/ HourEnds \/ OpenFile \/ ReadEvent \/ CloseFile \/ FilesEnd
  \/ LastHourWritten \/ WriteStatus \/ ShowStatus \/ FilesAreRead

CommitterNext(t) ==
  /\ pc # "terminated"
  /\ \/ Begin(t) \/ SaveEntity(t) \/ InsertEvent(t) \/ EventsEnd(t)
     \/ Commit(t) \/ Unlock(t)

(* The load is over, or the process has ended, and nothing is left to do.  *)
Ended ==
  /\ pc \in {"done", "terminated"}
  /\ UNCHANGED vars

Next ==
  \/ LoaderNext
  \/ \E t \in DOMAIN threads : CommitterNext(t)
  \/ Kill
  \/ Ended

(* The threads are scheduled by Windows: one that can run runs in the end. *)
Fairness ==
  /\ WF_vars(LoaderNext)
  /\ WF_vars(\E t \in DOMAIN threads : CommitterNext(t))

Spec == Init /\ [][Next]_vars /\ Fairness

-----------------------------------------------------------------------------
(* Properties                                                              *)

(* The event a row of the journal leads to: its file, through table files, *)
(* and its place there (CallbackLoadJournal).                              *)
EventOf(r) == <<fileTable[r.file_id + 1], r.start>>

HourOf(e) == Hour[e[1]]

TimeOf(e) == Hour[e[1]] * HourSpan + Events[e[1]][e[2]].offset

IndexedEvents == {e \in EventIds : e[1] \in Indexable}

(* One transaction at a time on the connection: among the committing       *)
(* threads at most one is between BEGIN and COMMIT, what the transaction   *)
(* holds is what that thread has written so far, and no BEGIN or COMMIT    *)
(* ever fails (the mutex is unlocked by another thread than locked it).    *)
OneWriter ==
  /\ \A t \in DOMAIN threads : threads[t].pc \in InsideTransaction =>
       /\ txn
       /\ \A u \in DOMAIN threads : threads[u].pc \in InsideTransaction => u = t
       /\ Len(pending) = threads[t].next - 1
       /\ \A i \in DOMAIN pending : pending[i].start = threads[t].rows[i].start
  /\ pc = "terminated" => dbFile = "schemaless"

(* The journal is in time order whatever files, servers and threads its    *)
(* rows come from: the viewer and the analyses read it by id.              *)
SortedByTime ==
  \A i, j \in DOMAIN journal : i < j => journal[i].time <= journal[j].time

(* count_lines_agr of a row is the lines of all the rows up to it, across  *)
(* the hours and the threads: the viewer pages by it.                      *)
LineChain ==
  \A i \in DOMAIN journal :
    journal[i].agr = journal[i].lines + (IF i = 1 THEN 0 ELSE journal[i - 1].agr)

(* A row leads to its event through the file table; and while the process  *)
(* that builds the index lives, or once it is complete, the names it       *)
(* refers to are there under one id each: the viewer joins processes with  *)
(* an INNER JOIN and drops a row that has none.                            *)
RowsResolve ==
  /\ \A i \in DOMAIN journal :
       LET r == journal[i] IN
       /\ r.file_id + 1 \in DOMAIN fileTable
       /\ EventOf(r) \in IndexedEvents
       /\ r.time = TimeOf(EventOf(r))
       /\ newDb \/ status =>
            /\ <<r.process_id, Process[EventOf(r)[1]]>> \in saved["process"]
            /\ <<r.event_id, Events[EventOf(r)[1]][r.start].name>> \in saved["event"]
  /\ \A k \in Kinds : \A p, q \in saved[k] : p[1] = q[1] => p = q

(* When the load of a new index ends, and whenever the status row says     *)
(* that all data are loaded, every event is in the journal, once.          *)
CompleteWhenDone ==
  status \/ (filesIsRead /\ newDb) =>
    /\ {EventOf(journal[i]) : i \in DOMAIN journal} = IndexedEvents
    /\ Len(journal) = Cardinality(IndexedEvents)

(* The committed journal is built as JournalIndex says: hour after hour,   *)
(* complete at the end, and left as it is after an interruption.           *)
Index == INSTANCE JournalIndex WITH
  AllEvents <- IndexedEvents,
  index <- [i \in DOMAIN journal |-> EventOf(journal[i])],
  phase <- IF status THEN "complete"
           ELSE IF dbFile = "absent" \/ newDb THEN "building" ELSE "partial"

ImplementsJournalIndex == Index!Spec

(* The load ends: no thread waits for the mutex or for another for ever.   *)
LoadEnds == <>[](pc \in {"done", "terminated"})
=============================================================================
