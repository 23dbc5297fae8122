--------------------------- MODULE ReadFilesProofs ---------------------------
(***************************************************************************)
(* Theorems of ReadFiles, for any directory of log files and any number of *)
(* deaths of the process: the state is well typed, the committing threads  *)
(* use the one connection in turn, and what they leave in the journal is   *)
(* in time order and totals the lines without a gap.                       *)
(***************************************************************************)
EXTENDS ReadFiles, FiniteSetTheorems, SequenceTheorems, TLAPS

(* Sorting an hour's records loses and adds none.                          *)
LEMMA TimeSortedType ==
  ASSUME NEW rs \in Seq(Rows), NEW s \in TimeSorted(rs)
  PROVE  s \in Seq(Rows) /\ Len(s) = Len(rs)
<1>1. PICK p \in Bijection(DOMAIN rs, DOMAIN rs) : s = [i \in DOMAIN rs |-> rs[p[i]]]
  BY DEF TimeSorted
<1>2. p \in [DOMAIN rs -> DOMAIN rs]
  BY DEF Bijection, Injection
<1>3. DOMAIN rs = 1 .. Len(rs) /\ Len(rs) \in Nat
  BY LenProperties
<1>4. \A i \in 1 .. Len(rs) : rs[p[i]] \in Rows
  BY <1>2, <1>3, ElementOfSeq
<1>. QED BY <1>1, <1>3, <1>4, IsASeq, LenProperties

(* The files are listed as a sequence.                                     *)
LEMMA HourSortedType ==
  ASSUME NEW s \in HourSortedFiles
  PROVE  s \in Seq(LogFiles)
<1>1. Cardinality(LogFiles) \in Nat
  BY LoaderAssumption, FS_CardinalityType
<1>2. s \in [1 .. Cardinality(LogFiles) -> LogFiles]
  BY DEF HourSortedFiles
<1>. QED BY <1>1, <1>2, SeqDef

(* A new entity gets the next id, a known one keeps its own.               *)
LEMMA InsertEntityType ==
  ASSUME TypeOK, NEW k \in Kinds, NEW n \in Names, InsertEntity(k, n)
  PROVE  /\ dict' \in [Kinds -> [Names -> Nat \cup {NoId}]]
         /\ nextId' \in [Kinds -> Nat]
         /\ newEnts' \in Entities
         /\ IdOf(k, n) \in Nat
         /\ dict'[k][n] = IdOf(k, n)
         /\ \A l \in Kinds, m \in Names : dict[l][m] # NoId => dict'[l][m] # NoId
<1>1. /\ dict \in [Kinds -> [Names -> Nat \cup {NoId}]]
      /\ nextId \in [Kinds -> Nat]
      /\ newEnts \in [Kinds -> SUBSET (Nat \X Names)]
  BY DEF TypeOK, Entities
<1>2. IdOf(k, n) \in Nat
  BY <1>1 DEF IdOf, NoId
<1>3. dict' = [dict EXCEPT ![k][n] = IdOf(k, n)]
  BY DEF InsertEntity
<1>4. dict' \in [Kinds -> [Names -> Nat \cup {NoId}]] /\ dict'[k][n] = IdOf(k, n)
  BY <1>1, <1>2, <1>3
<1>5. nextId' \in [Kinds -> Nat]
  BY <1>1 DEF InsertEntity
<1>6. <<nextId[k], n>> \in Nat \X Names
  BY <1>1
<1>7. newEnts' \in [Kinds -> SUBSET (Nat \X Names)]
  BY <1>1, <1>6 DEF InsertEntity
<1>8. IdOf(k, n) # NoId
  BY <1>2 DEF NoId
<1>9. \A l \in Kinds, m \in Names : dict[l][m] # NoId => dict'[l][m] # NoId
  BY <1>1, <1>3, <1>8
<1>. QED BY <1>2, <1>4, <1>5, <1>7, <1>9 DEF Entities

(* The hand-over starts a thread at its first row.                         *)
LEMMA HandOverType ==
  ASSUME TypeOK, HandOver
  PROVE  /\ mutex' = TRUE
         /\ threads' \in Seq(Threads)
         /\ records' = << >>
         /\ newEnts' = NoEntities
         /\ \E new \in Threads : /\ threads' = Append(threads, new)
                                 /\ new.pc = "begin" /\ new.next = 1
<1>1. PICK rs \in TimeSorted(records) : threads' = Append(threads, NewThread(rs))
  BY DEF HandOver
<1>2. rs \in Seq(Rows)
  BY <1>1, TimeSortedType DEF TypeOK
<1>3. NewThread(rs) \in Threads
  BY <1>2 DEF NewThread, Threads, TypeOK
<1>4. NewThread(rs).pc = "begin" /\ NewThread(rs).next = 1
  BY DEF NewThread
<1>5. threads' \in Seq(Threads)
  BY <1>1, <1>3, AppendProperties DEF TypeOK
<1>. QED BY <1>1, <1>3, <1>4, <1>5 DEF HandOver

(* A thread that goes on to a state of its own leaves the others alone.    *)
LEMMA ThreadStep ==
  ASSUME threads \in Seq(Threads), NEW t \in DOMAIN threads,
         NEW q \in {"begin", "unlock", "done"} \cup InsideTransaction
  PROVE  /\ [threads EXCEPT ![t].pc = q] \in Seq(Threads)
         /\ DOMAIN [threads EXCEPT ![t].pc = q] = DOMAIN threads
         /\ [threads EXCEPT ![t].pc = q][t] = [threads[t] EXCEPT !.pc = q]
         /\ \A u \in DOMAIN threads : u # t => [threads EXCEPT ![t].pc = q][u] = threads[u]
<1>1. threads[t] \in Threads
  BY ElementOfSeq, LenProperties
<1>2. [threads[t] EXCEPT !.pc = q] \in Threads
  BY <1>1 DEF Threads
<1>. QED BY <1>2, ExceptSeq, LenProperties

-----------------------------------------------------------------------------
(* While the loader reads a file, the file's process has an id: ReadEvent  *)
(* writes it into every record. Types alone do not survive a step.         *)
ProcessHasId ==
  pc = "events" =>
    /\ cur \in DOMAIN files
    /\ dict["process"][Process[files[cur]]] # NoId

TypeInv == TypeOK /\ ProcessHasId

(* The state before the program starts is well typed.                      *)
LEMMA TypeInit == Init => TypeInv
<1>. SUFFICES ASSUME Init PROVE TypeInv
  OBVIOUS
<1>1. NoEntities \in Entities
  BY DEF NoEntities, Entities
<1>2. dict \in [Kinds -> [Names -> Nat \cup {NoId}]] /\ nextId \in [Kinds -> Nat]
  BY DEF Init
<1>3. kills \in 0 .. MaxKills
  BY LoaderAssumption DEF Init
<1>4. /\ << >> \in Seq(LogFiles) /\ << >> \in Seq(Rows) /\ << >> \in Seq(Threads)
  BY EmptySeq
<1>5. /\ status \in BOOLEAN /\ txn \in BOOLEAN /\ mutex \in BOOLEAN
      /\ newDb \in BOOLEAN /\ filesIsRead \in BOOLEAN
  BY Zenon DEF Init
<1>6. /\ fileTable \in Seq(LogFiles) /\ files \in Seq(LogFiles)
      /\ journal \in Seq(Rows) /\ pending \in Seq(Rows) /\ records \in Seq(Rows)
      /\ threads \in Seq(Threads)
  BY <1>4 DEF Init
<1>7. /\ saved \in Entities /\ pendingEnts \in Entities /\ newEnts \in Entities
  BY <1>1 DEF Init
<1>8. /\ cur \in Nat \ {0} /\ evt \in Nat \ {0} /\ time \in Nat
      /\ countLines \in Nat /\ countCur \in Nat
  BY DEF Init
<1>9. dbFile \in {"absent", "schemaless", "ready"} /\ pc \in LoaderStates
  BY DEF Init, LoaderStates
<1>10. TypeOK
  BY <1>2, <1>3, <1>5, <1>6, <1>7, <1>8, <1>9 DEF TypeOK
<1>. QED BY <1>10 DEF TypeInv, ProcessHasId, Init

(* What the hand-over writes is well typed.                                *)
LEMMA HandOverKeepsTypes ==
  ASSUME TypeOK, HandOver
  PROVE  /\ mutex' \in BOOLEAN /\ threads' \in Seq(Threads)
         /\ records' \in Seq(Rows) /\ newEnts' \in Entities
<1>1. << >> \in Seq(Rows)
  BY EmptySeq
<1>2. NoEntities \in Entities
  BY DEF NoEntities, Entities
<1>3. mutex' = TRUE /\ threads' \in Seq(Threads) /\ records' = << >> /\ newEnts' = NoEntities
  BY HandOverType
<1>. QED BY <1>1, <1>2, <1>3

(* A record of the loader is a row.                                        *)
LEMMA RecordType ==
  ASSUME NEW file \in Nat \ {0}, NEW start \in Nat \ {0}, NEW hour \in Nat,
         NEW offset \in 0 .. HourSpan - 1, NEW lines \in Nat \ {0},
         NEW process \in Nat, NEW name \in Nat
  PROVE  [file_id |-> file - 1, start |-> start, time |-> hour * HourSpan + offset,
          lines |-> lines, agr |-> 0, process_id |-> process, event_id |-> name] \in Rows
<1>1. HourSpan \in Nat /\ offset \in Nat
  BY LoaderAssumption
<1>2. hour * HourSpan \in Nat
  BY <1>1
<1>3. hour * HourSpan + offset \in Nat
  BY <1>1, <1>2
<1>4. file - 1 \in Nat
  OBVIOUS
<1>5. ASSUME NEW t \in Nat, NEW i \in Nat
      PROVE  [file_id |-> i, start |-> start, time |-> t, lines |-> lines, agr |-> 0,
              process_id |-> process, event_id |-> name] \in Rows
  BY DEF Rows
<1>. QED BY <1>3, <1>4, <1>5

(* Every step of the loading thread keeps the types.                       *)
LEMMA TypeLoader == TypeInv /\ LoaderNext => TypeInv'
<1>. SUFFICES ASSUME TypeInv, LoaderNext PROVE TypeInv'
  OBVIOUS
<1>. USE DEF TypeInv, TypeOK, ProcessHasId, LoaderStates, dbVars, txnVars, readVars, loaderVars
<1>1. CASE OpenNew
  BY <1>1 DEF OpenNew
<1>2. CASE CreateDb
  BY <1>2 DEF CreateDb
<1>3. CASE OpenExisting
  BY <1>3 DEF OpenExisting
<1>4. CASE ListFiles
  BY <1>4, HourSortedType DEF ListFiles
<1>5. CASE CommitFiles
  BY <1>5 DEF CommitFiles
<1>6. CASE LoadFiles
  BY <1>6 DEF LoadFiles
<1>7. CASE BeginReadFiles
  <2>1. NoEntities \in Entities
    BY DEF NoEntities, Entities
  <2>2. << >> \in Seq(Rows)
    BY EmptySeq
  <2>3. dict' \in [Kinds -> [Names -> Nat \cup {NoId}]] /\ nextId' \in [Kinds -> Nat]
    BY <1>7 DEF BeginReadFiles
  <2>. QED BY <1>7, <2>1, <2>2, <2>3 DEF BeginReadFiles
<1>8. CASE HourEnds
  <2>1. /\ mutex' \in BOOLEAN /\ threads' \in Seq(Threads)
        /\ records' \in Seq(Rows) /\ newEnts' \in Entities
    BY <1>8, HandOverKeepsTypes DEF HourEnds
  <2>2. time' \in Nat
    BY <1>8, LoaderAssumption, ElementOfSeq, LenProperties DEF HourEnds
  <2>. QED BY <1>8, <2>1, <2>2 DEF HourEnds
<1>9. CASE OpenFile
  <2>. DEFINE f == files[cur]
  <2>1. f \in LogFiles /\ Process[f] \in Names /\ Hour[f] \in Nat
    BY <1>9, LoaderAssumption, ElementOfSeq, LenProperties DEF OpenFile
  <2>2. CASE f \in Indexable
    <3>1. InsertEntity("process", Process[f]) /\ UNCHANGED <<files, cur>>
      BY <1>9, <2>2 DEF OpenFile
    <3>2. "process" \in Kinds
      BY DEF Kinds
    <3>3. /\ dict' \in [Kinds -> [Names -> Nat \cup {NoId}]] /\ nextId' \in [Kinds -> Nat]
          /\ newEnts' \in Entities
          /\ dict'["process"][Process[f]] \in Nat
      BY <2>1, <3>1, <3>2, InsertEntityType
    <3>4. ProcessHasId'
      BY <1>9, <3>1, <3>3 DEF OpenFile, NoId
    <3>. QED BY <1>9, <2>1, <2>2, <3>3, <3>4 DEF OpenFile
  <2>3. CASE f \notin Indexable
    BY <1>9, <2>1, <2>3 DEF OpenFile
  <2>. QED BY <2>2, <2>3
<1>10. CASE ReadEvent
  <2>. DEFINE f == files[cur]
              e == Events[f][evt]
              r == [file_id |-> cur - 1, start |-> evt, time |-> Hour[f] * HourSpan + e.offset,
                    lines |-> e.lines, agr |-> 0, process_id |-> dict["process"][Process[f]],
                    event_id |-> IdOf("event", e.name)]
  <2>1. f \in LogFiles /\ Process[f] \in Names /\ Hour[f] \in Nat /\ HourSpan \in Nat
    BY <1>10, LoaderAssumption, ElementOfSeq, LenProperties DEF ReadEvent
  <2>2. /\ e \in [offset : 0 .. HourSpan - 1, lines : Nat \ {0}, name : Names]
        /\ e.offset \in 0 .. HourSpan - 1 /\ e.lines \in Nat \ {0} /\ e.name \in Names
    <3>1. Events[f] \in Seq([offset : 0 .. HourSpan - 1, lines : Nat \ {0}, name : Names])
      BY <2>1, LoaderAssumption
    <3>2. evt \in 1 .. Len(Events[f])
      BY <1>10, <3>1, LenProperties DEF ReadEvent
    <3>3. e \in [offset : 0 .. HourSpan - 1, lines : Nat \ {0}, name : Names]
      BY <3>1, <3>2, ElementOfSeq
    <3>. QED BY <3>3
  <2>3. "event" \in Kinds /\ "process" \in Kinds
    BY DEF Kinds
  <2>4. InsertEntity("event", e.name)
    BY <1>10 DEF ReadEvent
  <2>5. /\ dict' \in [Kinds -> [Names -> Nat \cup {NoId}]] /\ nextId' \in [Kinds -> Nat]
        /\ newEnts' \in Entities
        /\ IdOf("event", e.name) \in Nat
        /\ dict["process"][Process[f]] # NoId => dict'["process"][Process[f]] # NoId
    BY <2>1, <2>2, <2>3, <2>4, InsertEntityType
  <2>6. dict["process"][Process[f]] # NoId
    BY <1>10 DEF ReadEvent
  <2>7. dict["process"][Process[f]] \in Nat
    BY <2>1, <2>3, <2>6
  <2>10. r \in Rows
    BY <2>1, <2>2, <2>5, <2>7, RecordType
  <2>11. records' = Append(records, r)
    BY <1>10 DEF ReadEvent
  <2>12. records' \in Seq(Rows)
    BY <2>10, <2>11, AppendProperties
  <2>13. ProcessHasId'
    BY <1>10, <2>5, <2>6 DEF ReadEvent
  <2>14. countCur' \in Nat /\ evt' \in Nat \ {0}
    <3>1. countCur' = countCur + e.lines /\ evt' = evt + 1
      BY <1>10 DEF ReadEvent
    <3>2. countCur \in Nat /\ evt \in Nat /\ e.lines \in Nat
      BY <2>2
    <3>. HIDE DEF e
    <3>. QED BY <3>1, <3>2
  <2>15. UNCHANGED <<dbVars, txnVars, loaderVars, cur, time, countLines, mutex, threads, kills>>
    BY <1>10 DEF ReadEvent
  <2>. HIDE DEF r, e
  <2>. QED BY <2>5, <2>12, <2>13, <2>14, <2>15
<1>11. CASE CloseFile
  BY <1>11, SMTT(30) DEF CloseFile
<1>12. CASE FilesEnd
  <2>1. /\ mutex' \in BOOLEAN /\ threads' \in Seq(Threads)
        /\ records' \in Seq(Rows) /\ newEnts' \in Entities
    BY <1>12, HandOverKeepsTypes DEF FilesEnd
  <2>. QED BY <1>12, <2>1 DEF FilesEnd
<1>13. CASE LastHourWritten
  BY <1>13 DEF LastHourWritten
<1>14. CASE WriteStatus
  BY <1>14 DEF WriteStatus
<1>15. CASE ShowStatus
  BY <1>15 DEF ShowStatus
<1>16. CASE FilesAreRead
  BY <1>16 DEF FilesAreRead
<1>. QED BY <1>1, <1>2, <1>3, <1>4, <1>5, <1>6, <1>7, <1>8, <1>9, <1>10, <1>11, <1>12,
            <1>13, <1>14, <1>15, <1>16 DEF LoaderNext

(* Every step of a committing thread keeps the types.                      *)
LEMMA TypeCommitter ==
  ASSUME TypeInv, NEW t \in DOMAIN threads, CommitterNext(t)
  PROVE  TypeInv'
<1>. USE DEF TypeInv, TypeOK, ProcessHasId, LoaderStates, dbVars, txnVars, readVars, loaderVars
<1>1. threads[t] \in Threads
  BY ElementOfSeq, LenProperties
<1>2. ASSUME NEW q \in {"begin", "unlock", "done"} \cup InsideTransaction
      PROVE  [threads EXCEPT ![t].pc = q] \in Seq(Threads)
  BY ThreadStep
<1>3. CASE Begin(t)
  <2>1. CASE txn
    BY <1>3, <2>1 DEF Begin
  <2>2. CASE ~txn
    <3>1. threads' \in Seq(Threads)
      BY <1>2, <1>3, <2>2 DEF Begin, InsideTransaction
    <3>. QED BY <1>3, <2>2, <3>1 DEF Begin
  <2>. QED BY <2>1, <2>2
<1>4. CASE SaveEntity(t)
  <2>1. threads' \in Seq(Threads)
    BY <1>2, <1>4 DEF SaveEntity, InsideTransaction
  <2>2. pendingEnts' \in Entities
    BY <1>1, <1>4 DEF SaveEntity, Threads, Entities
  <2>. QED BY <1>4, <2>1, <2>2 DEF SaveEntity
<1>5. CASE InsertEvent(t)
  <2>. DEFINE r == threads[t].rows[threads[t].next]
              a == threads[t].agr + r.lines
              new == [threads[t] EXCEPT !.next = threads[t].next + 1, !.agr = a]
  <2>1. threads[t].rows \in Seq(Rows) /\ threads[t].next \in DOMAIN threads[t].rows
    BY <1>1, <1>5 DEF InsertEvent, Threads
  <2>2. r \in Rows
    BY <2>1, ElementOfSeq, LenProperties
  <2>3. a \in Nat /\ threads[t].next + 1 \in Nat \ {0}
    <3>1. threads[t].agr \in Nat /\ threads[t].next \in Nat /\ r.lines \in Nat
      BY <1>1, <2>2 DEF Threads, Rows
    <3>2. ASSUME NEW x \in Nat, NEW y \in Nat PROVE x + y \in Nat /\ x + 1 \in Nat \ {0}
      OBVIOUS
    <3>. QED BY <3>1, <3>2
  <2>4. [r EXCEPT !.agr = a] \in Rows
    BY <2>2, <2>3 DEF Rows
  <2>5. pending' = Append(pending, [r EXCEPT !.agr = a])
    BY <1>5 DEF InsertEvent
  <2>6. pending' \in Seq(Rows)
    BY <2>4, <2>5, AppendProperties
  <2>7. new \in Threads
    BY <1>1, <2>3 DEF Threads
  <2>8. threads' = [threads EXCEPT ![t] = new]
    BY <1>5 DEF InsertEvent
  <2>9. threads' \in Seq(Threads)
    BY <2>7, <2>8, ExceptSeq
  <2>. QED BY <1>5, <2>6, <2>9 DEF InsertEvent
<1>6. CASE EventsEnd(t)
  <2>1. threads' \in Seq(Threads)
    BY <1>2, <1>6 DEF EventsEnd, InsideTransaction
  <2>. QED BY <1>6, <2>1 DEF EventsEnd
<1>7. CASE Commit(t)
  <2>1. CASE txn
    <3>1. threads' \in Seq(Threads)
      BY <1>2, <1>7, <2>1 DEF Commit
    <3>2. journal' \in Seq(Rows)
      <4>1. journal' = journal \o pending
        BY <1>7, <2>1 DEF Commit
      <4>2. journal \o pending \in Seq(Rows)
        BY ConcatProperties
      <4>. QED BY <4>1, <4>2
    <3>3. saved' \in Entities
      BY <1>7, <2>1 DEF Commit, Entities
    <3>4. pending' \in Seq(Rows)
      BY <1>7, <2>1, EmptySeq DEF Commit
    <3>5. pendingEnts' \in Entities
      BY <1>7, <2>1 DEF Commit, NoEntities, Entities
    <3>. QED BY <1>7, <2>1, <3>1, <3>2, <3>3, <3>4, <3>5, ZenonT(40) DEF Commit
  <2>2. CASE ~txn
    BY <1>7, <2>2 DEF Commit
  <2>. QED BY <2>1, <2>2
<1>8. CASE Unlock(t)
  <2>1. threads' \in Seq(Threads)
    BY <1>2, <1>8 DEF Unlock
  <2>. QED BY <1>8, <2>1, ZenonT(40) DEF Unlock
<1>. QED BY <1>3, <1>4, <1>5, <1>6, <1>7, <1>8 DEF CommitterNext

(* The death of the process leaves a well-typed index.                     *)
LEMMA TypeKill == TypeInv /\ Kill => TypeInv'
<1>. SUFFICES ASSUME TypeInv, Kill PROVE TypeInv'
  OBVIOUS
<1>. USE DEF TypeInv, TypeOK
<1>1. journal' \in Seq(Rows)
  <2>1. PICK n \in 0 .. Len(pending) : journal' = journal \o SubSeq(pending, 1, n)
    BY DEF Kill
  <2>2. SubSeq(pending, 1, n) \in Seq(Rows)
    BY SubSeqProperties, LenProperties
  <2>. QED BY <2>1, <2>2, ConcatProperties
<1>2. saved' \in Entities
  <2>1. PICK s \in [Kinds -> SUBSET UNION {pendingEnts[k] : k \in Kinds}] :
          /\ \A k \in Kinds : s[k] \subseteq pendingEnts[k]
          /\ saved' = [k \in Kinds |-> saved[k] \cup s[k]]
    BY DEF Kill
  <2>. QED BY <2>1 DEF Entities
<1>3. fileTable' \in Seq(LogFiles)
  <2>1. ASSUME NEW n \in 0 .. Len(files) PROVE SubSeq(files, 1, n) \in Seq(LogFiles)
    BY SubSeqProperties, LenProperties
  <2>. QED BY <2>1 DEF Kill
<1>4. pendingEnts' \in Entities /\ newEnts' \in Entities
  BY DEF Kill, NoEntities, Entities
<1>5. /\ pending' \in Seq(Rows) /\ records' \in Seq(Rows) /\ files' \in Seq(LogFiles)
      /\ threads' \in Seq(Threads)
  BY EmptySeq DEF Kill
<1>6. dict' \in [Kinds -> [Names -> Nat \cup {NoId}]] /\ nextId' \in [Kinds -> Nat]
  BY DEF Kill
<1>7. kills' \in 0 .. MaxKills
  BY LoaderAssumption DEF Kill
<1>8. /\ cur' \in Nat \ {0} /\ evt' \in Nat \ {0} /\ time' \in Nat
      /\ countLines' \in Nat /\ countCur' \in Nat
  BY DEF Kill
<1>9. txn' \in BOOLEAN /\ mutex' \in BOOLEAN /\ newDb' \in BOOLEAN /\ filesIsRead' \in BOOLEAN
  BY Zenon DEF Kill
<1>10. /\ dbFile' \in {"absent", "schemaless", "ready"}
       /\ status' = status /\ pc' = "start"
  BY DEF Kill
<1>. QED BY <1>1, <1>2, <1>3, <1>4, <1>5, <1>6, <1>7, <1>8, <1>9, <1>10
         DEF ProcessHasId, LoaderStates

(* The type invariant is kept by every step.                               *)
LEMMA TypeNext == TypeInv /\ [Next]_vars => TypeInv'
<1>1. TypeInv /\ Ended => TypeInv'
  BY DEF Ended, TypeInv, TypeOK, ProcessHasId, vars, dbVars, txnVars, readVars, loaderVars
<1>2. TypeInv /\ UNCHANGED vars => TypeInv'
  BY DEF TypeInv, TypeOK, ProcessHasId, vars, dbVars, txnVars, readVars, loaderVars
<1>. QED BY <1>1, <1>2, TypeLoader, TypeCommitter, TypeKill DEF Next

(* The loader, its threads and the index they write are well typed.        *)
THEOREM TypeCorrect == Spec => []TypeOK
<1>1. TypeInv => TypeOK
  BY DEF TypeInv
<1>. QED BY <1>1, TypeInit, TypeNext, PTL DEF Spec

-----------------------------------------------------------------------------
(* Why the threads never meet in a transaction. The mutex is locked by the *)
(* loader before a thread starts and unlocked by the thread when it is     *)
(* done, so a thread that is not done is the only one; a transaction is    *)
(* open only for the list of files, before there is any thread, or for a   *)
(* thread; and its rows are those the thread has passed.                   *)
BeforeReading == {"start", "createDb", "readDirectory", "commitFiles", "readFiles", "terminated"}

NoThreadYet == pc \in BeforeReading => threads = << >>

OneAtWork ==
  \A t \in DOMAIN threads : threads[t].pc # "done" =>
    mutex /\ \A u \in DOMAIN threads : threads[u].pc # "done" => u = t

Writing(t) == threads[t].pc \in InsideTransaction

(* The loader or a thread of it is inside a transaction.                   *)
LoadOwns == pc = "commitFiles" \/ \E t \in DOMAIN threads : Writing(t)

TxnHeld == LoadOwns => txn

PendingIsWritten ==
  /\ \A t \in DOMAIN threads : threads[t].pc = "begin" => threads[t].next = 1
  /\ \A t \in DOMAIN threads : Writing(t) =>
       /\ Len(pending) = threads[t].next - 1
       /\ \A i \in DOMAIN pending : pending[i].start = threads[t].rows[i].start
       /\ threads[t].pc = "commit" => threads[t].next \notin DOMAIN threads[t].rows
  /\ (\A t \in DOMAIN threads : ~Writing(t)) => pending = << >>

NeverFails == pc = "terminated" => dbFile = "schemaless"

WriterParts == NoThreadYet /\ OneAtWork /\ TxnHeld /\ PendingIsWritten /\ NeverFails

WriterInv == TypeInv /\ WriterParts

(* Nobody else uses the connection; with searches this is not so, and what *)
(* rests on WriterInv alone holds with them too.                           *)
TurnInv == WriterInv /\ (txn => LoadOwns)

(* It holds before the program starts.                                     *)
LEMMA WriterInit == Init => TurnInv
BY TypeInit DEF Init, TurnInv, WriterInv, WriterParts, NoThreadYet, OneAtWork, TxnHeld, LoadOwns,
                PendingIsWritten, NeverFails, Writing

(* Handing an hour over: the mutex was free, so every earlier thread is    *)
(* done and nothing is pending.                                            *)
LEMMA WriterHandOver ==
  ASSUME WriterInv, HandOver, UNCHANGED <<txnVars, dbVars>>,
         pc \notin BeforeReading, pc' \notin BeforeReading
  PROVE  WriterParts'
<1>. USE DEF WriterInv, WriterParts
<1>1. threads \in Seq(Threads) /\ ~mutex /\ mutex' = TRUE
  BY DEF TypeInv, TypeOK, HandOver
<1>2. PICK new \in Threads : threads' = Append(threads, new) /\ new.pc = "begin" /\ new.next = 1
  BY HandOverType DEF TypeInv
<1>. DEFINE n == Len(threads) + 1
<1>3. /\ DOMAIN threads' = DOMAIN threads \cup {n}
      /\ \A u \in DOMAIN threads : u # n /\ threads'[u] = threads[u]
      /\ threads'[n] = new
  BY <1>1, <1>2, AppendProperties, LenProperties
<1>4. \A u \in DOMAIN threads : threads[u].pc = "done"
  BY <1>1 DEF OneAtWork
<1>5. \A u \in DOMAIN threads' : ~Writing(u)' /\ (threads'[u].pc # "done" => u = n)
  BY <1>2, <1>3, <1>4 DEF Writing, InsideTransaction
<1>6. pending = << >> /\ pending' = pending /\ txn' = txn /\ dbFile' = dbFile
  BY <1>4 DEF PendingIsWritten, Writing, InsideTransaction, txnVars, dbVars
<1>8. NoThreadYet' /\ NeverFails'
  BY DEF WriterParts, NoThreadYet, NeverFails, BeforeReading
<1>9. OneAtWork'
  BY <1>1, <1>5 DEF OneAtWork
<1>10. TxnHeld'
  BY <1>5 DEF TxnHeld, LoadOwns, BeforeReading
<1>11. PendingIsWritten'
  BY <1>2, <1>3, <1>4, <1>5, <1>6 DEF PendingIsWritten
<1>. QED BY <1>8, <1>9, <1>10, <1>11

(* The loading thread disturbs no transaction of a committing one.         *)
LEMMA WriterLoader ==
  ASSUME WriterInv, LoaderNext
  PROVE  WriterParts'
<1>. DEFINE Goal == WriterParts'
<1>. USE DEF BeforeReading, dbVars, txnVars, readVars, loaderVars
<1>1. ASSUME UNCHANGED <<threads, mutex, pending, txn>>,
             pc # "commitFiles", pc' # "commitFiles",
             pc' \in BeforeReading => pc \in BeforeReading,
             pc' = "terminated" => dbFile' = "schemaless"
      PROVE  Goal
  BY <1>1 DEF WriterInv, WriterParts, NoThreadYet, OneAtWork, TxnHeld, LoadOwns, PendingIsWritten, NeverFails, Writing
<1>2. CASE OpenNew
  BY <1>1, <1>2 DEF OpenNew
<1>3. CASE CreateDb
  BY <1>1, <1>3 DEF CreateDb
<1>4. CASE OpenExisting
  BY <1>1, <1>4 DEF OpenExisting, WriterInv, TypeInv, TypeOK
<1>5. CASE ListFiles
  <2>1. /\ threads = << >> /\ threads' = << >> /\ pending = << >> /\ pending' = << >>
        /\ txn' = TRUE /\ pc' = "commitFiles"
    BY <1>5 DEF ListFiles, WriterInv, WriterParts, NoThreadYet, PendingIsWritten
  <2>. QED BY <2>1 DEF WriterParts, NoThreadYet, OneAtWork, TxnHeld, LoadOwns, PendingIsWritten, NeverFails, Writing
<1>6. CASE CommitFiles
  <2>1. /\ threads = << >> /\ threads' = << >> /\ pending = << >> /\ pending' = << >>
        /\ txn' = FALSE /\ pc' = "readFiles"
    BY <1>6 DEF CommitFiles, WriterInv, WriterParts, NoThreadYet, PendingIsWritten
  <2>. QED BY <2>1 DEF WriterParts, NoThreadYet, OneAtWork, TxnHeld, LoadOwns, PendingIsWritten, NeverFails, Writing
<1>7. CASE LoadFiles
  BY <1>1, <1>7 DEF LoadFiles
<1>8. CASE BeginReadFiles
  BY <1>1, <1>8 DEF BeginReadFiles
<1>9. CASE HourEnds
  BY <1>9, WriterHandOver DEF HourEnds
<1>10. CASE OpenFile
  BY <1>1, <1>10 DEF OpenFile
<1>11. CASE ReadEvent
  BY <1>1, <1>11 DEF ReadEvent
<1>12. CASE CloseFile
  BY <1>1, <1>12 DEF CloseFile
<1>13. CASE FilesEnd
  <2>1. CASE time # 0
    BY <1>13, <2>1, WriterHandOver DEF FilesEnd
  <2>2. CASE time = 0
    BY <1>1, <1>13, <2>2 DEF FilesEnd
  <2>. QED BY <2>1, <2>2
<1>14. CASE LastHourWritten
  BY <1>1, <1>14 DEF LastHourWritten
<1>15. CASE WriteStatus
  BY <1>1, <1>15 DEF WriteStatus
<1>16. CASE ShowStatus
  BY <1>1, <1>16 DEF ShowStatus
<1>17. CASE FilesAreRead
  BY <1>1, <1>17 DEF FilesAreRead
<1>. QED BY <1>2, <1>3, <1>4, <1>5, <1>6, <1>7, <1>8, <1>9, <1>10, <1>11, <1>12, <1>13,
            <1>14, <1>15, <1>16, <1>17 DEF LoaderNext

(* A step of thread t that is not done: it is the only one at work, so the *)
(* others neither write nor wait, before and after the step.               *)
LEMMA OnlyOneSteps ==
  ASSUME WriterInv, NEW t \in DOMAIN threads, threads[t].pc # "done",
         DOMAIN threads' = DOMAIN threads,
         \A u \in DOMAIN threads : u # t => threads'[u] = threads[u]
  PROVE  /\ mutex
         /\ pc \notin BeforeReading
         /\ \A u \in DOMAIN threads' : u # t => threads'[u].pc = "done"
         /\ \A u \in DOMAIN threads : u # t => threads[u].pc = "done"
<1>1. mutex /\ \A u \in DOMAIN threads : threads[u].pc # "done" => u = t
  BY DEF WriterInv, WriterParts, OneAtWork
<1>2. pc \notin BeforeReading
  BY DEF WriterInv, WriterParts, NoThreadYet
<1>. QED BY <1>1, <1>2

(* A committing thread keeps the transaction its own.                      *)
LEMMA WriterCommitter ==
  ASSUME WriterInv, NEW t \in DOMAIN threads, CommitterNext(t),
         threads[t].pc = "begin" => ~txn
  PROVE  WriterParts'
<1>. DEFINE Goal == WriterParts'
            Others == \A u \in DOMAIN threads : u # t => threads'[u] = threads[u]
<1>. USE DEF dbVars, txnVars, readVars, loaderVars
<1>1. threads \in Seq(Threads) /\ pending \in Seq(Rows)
  BY DEF WriterInv, TypeInv, TypeOK
<1>2. threads[t] \in Threads
  BY <1>1, ElementOfSeq, LenProperties
<1>3. ASSUME NEW q \in {"begin", "unlock", "done"} \cup InsideTransaction,
             threads' = [threads EXCEPT ![t].pc = q]
      PROVE  /\ DOMAIN threads' = DOMAIN threads /\ Others
             /\ threads'[t].pc = q /\ threads'[t].next = threads[t].next
             /\ threads'[t].rows = threads[t].rows
  <2>1. threads'[t] = [threads[t] EXCEPT !.pc = q]
    BY <1>1, <1>3, ThreadStep
  <2>. QED BY <1>1, <1>2, <1>3, <2>1, ThreadStep DEF Threads
<1>4. ASSUME threads[t].pc # "done", DOMAIN threads' = DOMAIN threads, Others,
             mutex' = mutex, pc' = pc,
             threads'[t].pc \in InsideTransaction,
             txn' = TRUE,
             Len(pending') = threads'[t].next - 1,
             \A i \in DOMAIN pending' : pending'[i].start = threads'[t].rows[i].start,
             threads'[t].pc = "commit" => threads'[t].next \notin DOMAIN threads'[t].rows
      PROVE  Goal
  BY <1>4, OnlyOneSteps
     DEF WriterParts, NoThreadYet, OneAtWork, TxnHeld, LoadOwns, PendingIsWritten, NeverFails, Writing,
         InsideTransaction, BeforeReading
<1>5. CASE Begin(t)
  <2>1. threads[t].pc = "begin" /\ threads[t].next = 1
    BY <1>5 DEF Begin, WriterInv, WriterParts, PendingIsWritten
  <2>2. ~txn
    BY <2>1
  <2>3. pending = << >>
    BY <2>1 DEF WriterInv, WriterParts, PendingIsWritten, OneAtWork, Writing, InsideTransaction
  <2>4. /\ threads' = [threads EXCEPT ![t].pc = "save"] /\ txn' = TRUE
        /\ UNCHANGED <<mutex, pc, pending>>
    BY <1>5, <2>2 DEF Begin
  <2>5. /\ DOMAIN threads' = DOMAIN threads /\ Others
        /\ threads'[t].pc = "save" /\ threads'[t].next = 1
    BY <1>3, <2>1, <2>4 DEF InsideTransaction
  <2>. QED BY <1>4, <2>1, <2>3, <2>4, <2>5 DEF InsideTransaction
<1>6. ASSUME threads[t].pc \in InsideTransaction
      PROVE  /\ txn = TRUE /\ Len(pending) = threads[t].next - 1
             /\ \A i \in DOMAIN pending : pending[i].start = threads[t].rows[i].start
  BY <1>6 DEF WriterInv, WriterParts, TxnHeld, LoadOwns, PendingIsWritten, Writing, TypeInv, TypeOK
<1>7. ASSUME threads[t].pc \in InsideTransaction, NEW q \in InsideTransaction,
             threads' = [threads EXCEPT ![t].pc = q],
             q = "commit" => threads[t].next \notin DOMAIN threads[t].rows,
             UNCHANGED <<mutex, pc, pending, txn>>
      PROVE  Goal
  <2>1. /\ DOMAIN threads' = DOMAIN threads /\ Others
        /\ threads'[t].pc = q /\ threads'[t].next = threads[t].next
        /\ threads'[t].rows = threads[t].rows
    BY <1>3, <1>7
  <2>. QED BY <1>4, <1>6, <1>7, <2>1 DEF InsideTransaction
<1>8. CASE SaveEntity(t)
  BY <1>7, <1>8 DEF SaveEntity, InsideTransaction
<1>9. CASE EventsEnd(t)
  BY <1>7, <1>9 DEF EventsEnd, InsideTransaction
<1>10. CASE InsertEvent(t)
  <2>. DEFINE k == threads[t].next
              r == threads[t].rows[k]
              a == threads[t].agr + r.lines
              new == [threads[t] EXCEPT !.next = k + 1, !.agr = a]
              row == [r EXCEPT !.agr = a]
  <2>1. /\ threads[t].pc = "insert" /\ k \in DOMAIN threads[t].rows
        /\ threads' = [threads EXCEPT ![t] = new] /\ pending' = Append(pending, row)
        /\ UNCHANGED <<mutex, pc, txn>>
    BY <1>10 DEF InsertEvent
  <2>2. /\ DOMAIN threads' = DOMAIN threads /\ Others /\ threads'[t] = new
    BY <1>1, <2>1
  <2>3. new.pc = "insert" /\ new.next = k + 1 /\ new.rows = threads[t].rows
    BY <1>2, <2>1 DEF Threads
  <2>4. k \in Nat \ {0} /\ Len(pending) = k - 1
    BY <1>2, <1>6, <2>1 DEF Threads, InsideTransaction
  <2>5. r \in Rows
    BY <1>2, <2>1, ElementOfSeq, LenProperties DEF Threads
  <2>6. row.start = r.start
    BY <2>5 DEF Rows
  <2>7. /\ Len(pending') = k
        /\ DOMAIN pending' = DOMAIN pending \cup {k}
        /\ \A i \in DOMAIN pending : pending'[i] = pending[i]
        /\ pending'[k] = row
    <3>1. pending' = Append(pending, row)
      BY <2>1
    <3>. HIDE DEF row
    <3>2. /\ Len(Append(pending, row)) = Len(pending) + 1
          /\ DOMAIN Append(pending, row) = 1 .. Len(pending) + 1
          /\ \A i \in 1 .. Len(pending) : Append(pending, row)[i] = pending[i]
          /\ Append(pending, row)[Len(pending) + 1] = row
          /\ DOMAIN pending = 1 .. Len(pending) /\ Len(pending) \in Nat
      BY <1>1
    <3>. QED BY <2>4, <3>1, <3>2
  <2>8. \A i \in DOMAIN pending : pending[i].start = threads[t].rows[i].start
    BY <1>6, <2>1 DEF InsideTransaction
  <2>9. \A i \in DOMAIN pending' : pending'[i].start = threads'[t].rows[i].start
    BY <2>2, <2>3, <2>6, <2>7, <2>8
  <2>10. threads'[t].pc \in InsideTransaction /\ Len(pending') = threads'[t].next - 1
    BY <2>2, <2>3, <2>4, <2>7 DEF InsideTransaction
  <2>11. txn' = TRUE
    BY <1>6, <2>1 DEF InsideTransaction
  <2>12. threads'[t].pc # "commit"
    BY <2>2, <2>3
  <2>. QED BY <1>4, <2>1, <2>2, <2>9, <2>10, <2>11, <2>12
<1>11. CASE Commit(t)
  <2>1. threads[t].pc = "commit" /\ txn
    BY <1>6, <1>11 DEF Commit, InsideTransaction
  <2>2. /\ threads' = [threads EXCEPT ![t].pc = "unlock"] /\ ~txn' /\ pending' = << >>
        /\ UNCHANGED <<mutex, pc>>
    BY <1>11, <2>1 DEF Commit
  <2>3. DOMAIN threads' = DOMAIN threads /\ Others /\ threads'[t].pc = "unlock"
    BY <1>3, <2>2
  <2>. QED BY <2>1, <2>2, <2>3, OnlyOneSteps
           DEF WriterParts, NoThreadYet, OneAtWork, TxnHeld, LoadOwns, PendingIsWritten, NeverFails, Writing,
               InsideTransaction, BeforeReading
<1>12. CASE Unlock(t)
  <2>1. /\ threads[t].pc = "unlock"
        /\ threads' = [threads EXCEPT ![t].pc = "done"]
        /\ UNCHANGED <<pc, txn, pending>>
    BY <1>12 DEF Unlock
  <2>2. DOMAIN threads' = DOMAIN threads /\ Others /\ threads'[t].pc = "done"
    BY <1>3, <2>1
  <2>3. pending = << >>
    BY <2>1, <2>2, OnlyOneSteps
       DEF WriterInv, WriterParts, TxnHeld, LoadOwns, PendingIsWritten, Writing, InsideTransaction, BeforeReading
  <2>. QED BY <2>1, <2>2, <2>3, OnlyOneSteps
           DEF WriterParts, NoThreadYet, OneAtWork, TxnHeld, LoadOwns, PendingIsWritten, NeverFails, Writing,
               InsideTransaction, BeforeReading
<1>. QED BY <1>5, <1>8, <1>9, <1>10, <1>11, <1>12 DEF CommitterNext

(* A transaction is begun by who is then inside it, and ended by who was.  *)
LEMMA TxnOfLoader ==
  ASSUME WriterInv, LoaderNext
  PROVE  \/ txn' = txn /\ (LoadOwns' <=> LoadOwns)
         \/ pc = "readDirectory" /\ LoadOwns'
         \/ LoadOwns /\ ~LoadOwns' /\ ~txn'
<1>. USE DEF dbVars, txnVars, readVars, loaderVars
<1>1. ASSUME UNCHANGED <<threads, txn>>, pc # "commitFiles", pc' # "commitFiles"
      PROVE  txn' = txn /\ (LoadOwns' <=> LoadOwns)
  BY <1>1 DEF LoadOwns, Writing
<1>2. ASSUME HandOver
      PROVE  (\E t \in DOMAIN threads' : Writing(t)') <=> \E t \in DOMAIN threads : Writing(t)
  <2>1. threads \in Seq(Threads)
    BY DEF WriterInv, TypeInv, TypeOK
  <2>2. PICK new \in Threads : threads' = Append(threads, new) /\ new.pc = "begin"
    BY <1>2, HandOverType DEF WriterInv, TypeInv
  <2>3. /\ DOMAIN threads' = DOMAIN threads \cup {Len(threads) + 1}
        /\ \A u \in DOMAIN threads : u # Len(threads) + 1 /\ threads'[u] = threads[u]
        /\ threads'[Len(threads) + 1] = new
    BY <2>1, <2>2, AppendProperties, LenProperties
  <2>. QED BY <2>2, <2>3 DEF Writing, InsideTransaction
<1>3. CASE ListFiles
  BY <1>3 DEF ListFiles, LoadOwns
<1>4. CASE CommitFiles
  BY <1>4 DEF CommitFiles, LoadOwns, WriterInv, WriterParts, NoThreadYet, BeforeReading
<1>5. CASE HourEnds
  BY <1>2, <1>5 DEF HourEnds, LoadOwns
<1>6. CASE FilesEnd
  <2>1. CASE time # 0
    BY <1>2, <1>6, <2>1 DEF FilesEnd, LoadOwns
  <2>2. CASE time = 0
    BY <1>1, <1>6, <2>2 DEF FilesEnd
  <2>. QED BY <2>1, <2>2
<1>7. CASE OpenNew \/ CreateDb \/ OpenExisting \/ LoadFiles \/ BeginReadFiles
  BY <1>1, <1>7 DEF OpenNew, CreateDb, OpenExisting, LoadFiles, BeginReadFiles
<1>8. CASE OpenFile \/ ReadEvent \/ CloseFile
  BY <1>1, <1>8 DEF OpenFile, ReadEvent, CloseFile
<1>9. CASE LastHourWritten \/ WriteStatus \/ ShowStatus \/ FilesAreRead
  BY <1>1, <1>9 DEF LastHourWritten, WriteStatus, ShowStatus, FilesAreRead
<1>. QED BY <1>3, <1>4, <1>5, <1>6, <1>7, <1>8, <1>9 DEF LoaderNext

LEMMA TxnOfCommitter ==
  ASSUME WriterInv, NEW t \in DOMAIN threads, CommitterNext(t)
  PROVE  \/ UNCHANGED txn /\ (LoadOwns' <=> LoadOwns)
         \/ threads[t].pc = "begin" /\ LoadOwns'
         \/ LoadOwns /\ ~LoadOwns' /\ ~txn'
<1>. USE DEF dbVars, txnVars, readVars, loaderVars
<1>1. threads \in Seq(Threads) /\ pc # "commitFiles"
  BY DEF WriterInv, WriterParts, TypeInv, TypeOK, NoThreadYet, BeforeReading
<1>2. threads[t].pc # "done"
  BY DEF CommitterNext, Begin, SaveEntity, InsertEvent, EventsEnd, Commit, Unlock
<1>3. \A u \in DOMAIN threads : u # t => ~Writing(u)
  BY <1>2 DEF WriterInv, WriterParts, OneAtWork, Writing, InsideTransaction
<1>4. ASSUME NEW r, threads' = [threads EXCEPT ![t] = r], pc' = pc
      PROVE  (LoadOwns <=> Writing(t)) /\ (LoadOwns' <=> r.pc \in InsideTransaction)
  <2>1. /\ DOMAIN threads' = DOMAIN threads /\ threads'[t] = r
        /\ \A u \in DOMAIN threads : u # t => threads'[u] = threads[u]
    BY <1>1, <1>4, LenProperties
  <2>. QED BY <1>1, <1>3, <1>4, <2>1 DEF LoadOwns, Writing
<1>5. threads[t] \in Threads
  BY <1>1, ElementOfSeq, LenProperties
<1>6. ASSUME NEW q \in {"unlock", "done"} \cup InsideTransaction,
             threads' = [threads EXCEPT ![t].pc = q], pc' = pc
      PROVE  (LoadOwns <=> Writing(t)) /\ (LoadOwns' <=> q \in InsideTransaction)
  <2>. DEFINE r == [threads[t] EXCEPT !.pc = q]
  <2>1. threads' = [threads EXCEPT ![t] = r] /\ r.pc = q
    BY <1>5, <1>6 DEF Threads
  <2>. HIDE DEF r
  <2>. QED BY <1>4, <1>6, <2>1
<1>7. CASE Begin(t)
  <2>1. CASE txn
    BY <1>1, <1>7, <2>1 DEF Begin, LoadOwns, Writing
  <2>2. CASE ~txn
    BY <1>6, <1>7, <2>2 DEF Begin, InsideTransaction
  <2>. QED BY <2>1, <2>2
<1>8. CASE SaveEntity(t)
  BY <1>6, <1>8 DEF SaveEntity, Writing, InsideTransaction
<1>9. CASE EventsEnd(t)
  BY <1>6, <1>9 DEF EventsEnd, Writing, InsideTransaction
<1>10. CASE Unlock(t)
  BY <1>6, <1>10 DEF Unlock, Writing, InsideTransaction
<1>11. CASE Commit(t)
  <2>1. LoadOwns /\ txn
    BY <1>11 DEF Commit, LoadOwns, Writing, InsideTransaction, WriterInv, WriterParts, TxnHeld
  <2>2. threads' = [threads EXCEPT ![t].pc = "unlock"] /\ pc' = pc /\ ~txn'
    BY <1>11, <2>1 DEF Commit
  <2>3. ~LoadOwns'
    BY <1>6, <2>2 DEF InsideTransaction
  <2>. QED BY <2>1, <2>2, <2>3
<1>12. CASE InsertEvent(t)
  <2>. DEFINE a == threads[t].agr + threads[t].rows[threads[t].next].lines
              r == [threads[t] EXCEPT !.next = @ + 1, !.agr = a]
  <2>1. threads' = [threads EXCEPT ![t] = r] /\ UNCHANGED <<pc, txn>> /\ Writing(t)
    BY <1>12 DEF InsertEvent, Writing, InsideTransaction
  <2>2. r.pc \in InsideTransaction
    BY <1>5, <2>1 DEF Threads, Writing
  <2>. HIDE DEF r
  <2>. QED BY <1>4, <2>1, <2>2
<1>. QED BY <1>7, <1>8, <1>9, <1>10, <1>11, <1>12 DEF CommitterNext

(* The invariant is kept by every step.                                    *)
LEMMA WriterNext == TurnInv /\ [Next]_vars => TurnInv'
<1>. SUFFICES ASSUME TurnInv, [Next]_vars PROVE TurnInv'
  OBVIOUS
<1>1. WriterInv /\ TypeInv'
  BY TypeNext DEF TurnInv, WriterInv
<1>2. CASE LoaderNext
  <2>1. WriterParts'
    BY <1>1, <1>2, WriterLoader
  <2>. QED BY <1>1, <1>2, <2>1, TxnOfLoader DEF TurnInv, WriterInv
<1>3. ASSUME NEW t \in DOMAIN threads, CommitterNext(t)
      PROVE  TurnInv'
  <2>1. threads[t].pc = "begin" => ~txn
    BY <1>1 DEF TurnInv, WriterInv, WriterParts, LoadOwns, OneAtWork, NoThreadYet, Writing,
                InsideTransaction, BeforeReading
  <2>2. WriterParts'
    BY <1>1, <1>3, <2>1, WriterCommitter
  <2>. QED BY <1>1, <1>3, <2>2, TxnOfCommitter DEF TurnInv, WriterInv
<1>4. CASE Kill
  <2>1. threads' = << >> /\ txn' = FALSE /\ pending' = << >> /\ pc' = "start"
    BY <1>4 DEF Kill
  <2>. QED BY <1>1, <2>1 DEF TurnInv, WriterInv, WriterParts, NoThreadYet, OneAtWork, TxnHeld,
                             LoadOwns, PendingIsWritten, NeverFails, Writing, BeforeReading
<1>5. CASE Ended \/ UNCHANGED vars
  BY <1>1, <1>5 DEF Ended, vars, dbVars, txnVars, loaderVars, TurnInv, WriterInv, WriterParts,
                    NoThreadYet, OneAtWork, TxnHeld, LoadOwns, PendingIsWritten, NeverFails, Writing
<1>. QED BY <1>2, <1>3, <1>4, <1>5 DEF Next

(* The committing threads use the connection in turn: at most one is       *)
(* between BEGIN and COMMIT, the open transaction holds what that thread   *)
(* has written, and no BEGIN or COMMIT fails, though the mutex is unlocked *)
(* by another thread than the one that locked it.                          *)
THEOREM WritersTakeTurns == Spec => []OneWriter
<1>1. TurnInv => OneWriter
  BY DEF TurnInv, WriterInv, WriterParts, OneAtWork, TxnHeld, LoadOwns, PendingIsWritten,
         NeverFails, Writing, OneWriter, InsideTransaction
<1>. QED BY <1>1, WriterInit, WriterNext, PTL DEF Spec

LEMMA WritersAlways == Spec => []WriterInv
<1>1. TurnInv => WriterInv
  BY DEF TurnInv
<1>. QED BY <1>1, WriterInit, WriterNext, PTL DEF Spec

-----------------------------------------------------------------------------
(* The rows of the journal are in time order.                              *)

(* Rows in time order, rows before an hour, rows of an hour.               *)
Sorted(rs) == \A i, j \in DOMAIN rs : i < j => rs[i].time <= rs[j].time

HourStart(h) == h * HourSpan

BeforeHour(rs, h) == \A i \in DOMAIN rs : rs[i].time < HourStart(h)

InHour(rs, h) ==
  \A i \in DOMAIN rs : HourStart(h) <= rs[i].time /\ rs[i].time < HourStart(h) + HourSpan

NoneAfter(rs, ss) == \A i \in DOMAIN rs, j \in DOMAIN ss : rs[i].time <= ss[j].time

(* An hour ends when the next one begins, or before.                       *)
LEMMA HoursApart ==
  ASSUME NEW g \in Nat, NEW h \in Nat
  PROVE  /\ HourStart(g) \in Nat
         /\ g <= h => HourStart(g) <= HourStart(h)
         /\ g < h => HourStart(g) + HourSpan <= HourStart(h)
<1>1. HourSpan \in Nat
  BY LoaderAssumption
<1>2. \A d \in Nat : d * HourSpan \in Nat
  BY <1>1
<1>3. ASSUME g <= h
      PROVE  HourStart(g) <= HourStart(h) /\ (g < h => HourStart(g) + HourSpan <= HourStart(h))
  <2>1. PICK d \in Nat : h = g + d
    <3>1. h - g \in Nat /\ h = g + (h - g)
      BY <1>3
    <3>. QED BY <3>1
  <2>2. (g + d) * HourSpan = g * HourSpan + d * HourSpan
    BY <1>1
  <2>3. CASE d = 0
    BY <2>1, <2>3, <1>2 DEF HourStart
  <2>4. CASE d # 0
    <3>1. PICK c \in Nat : d = c + 1
      <4>1. d - 1 \in Nat /\ d = (d - 1) + 1
        BY <2>4
      <4>. QED BY <4>1
    <3>2. (c + 1) * HourSpan = c * HourSpan + HourSpan
      BY <1>1
    <3>3. HourStart(h) = HourStart(g) + (c * HourSpan + HourSpan)
      BY <2>1, <2>2, <3>1, <3>2 DEF HourStart
    <3>4. HourStart(g) \in Nat /\ c * HourSpan \in Nat
      BY <1>2 DEF HourStart
    <3>. QED BY <1>1, <3>3, <3>4
  <2>. QED BY <2>3, <2>4
<1>. QED BY <1>2, <1>3 DEF HourStart

(* The members of a sequence of rows.                                      *)
LEMMA RowsOfSeq ==
  ASSUME NEW rs \in Seq(Rows), NEW i \in DOMAIN rs
  PROVE  rs[i] \in Rows /\ rs[i].time \in Nat
<1>1. i \in 1 .. Len(rs)
  BY LenProperties
<1>2. rs[i] \in Rows
  BY <1>1, ElementOfSeq
<1>. QED BY <1>2 DEF Rows

(* The threads of a well-typed state.                                      *)
LEMMA ThreadsOfSeq ==
  ASSUME WriterInv, NEW t \in DOMAIN threads
  PROVE  threads[t] \in Threads /\ threads[t].rows \in Seq(Rows)
<1>1. threads \in Seq(Threads)
  BY DEF WriterInv, TypeInv, TypeOK
<1>2. t \in 1 .. Len(threads)
  BY <1>1, LenProperties
<1>3. threads[t] \in Threads
  BY <1>1, <1>2, ElementOfSeq
<1>. QED BY <1>3 DEF Threads

(* What std::sort makes of an hour's records.                              *)
LEMMA TimeSortedRows ==
  ASSUME NEW rs \in Seq(Rows), NEW s \in TimeSorted(rs)
  PROVE  /\ Sorted(s)
         /\ \A i \in DOMAIN s : \E j \in DOMAIN rs : s[i] = rs[j]
<1>1. PICK p \in Bijection(DOMAIN rs, DOMAIN rs) :
        /\ \A i, j \in DOMAIN rs : i < j => rs[p[i]].time <= rs[p[j]].time
        /\ s = [i \in DOMAIN rs |-> rs[p[i]]]
  BY DEF TimeSorted
<1>2. p \in [DOMAIN rs -> DOMAIN rs]
  BY DEF Bijection, Injection
<1>. QED BY <1>1, <1>2 DEF Sorted

(* Sorted rows after sorted rows none of which is later.                   *)
LEMMA SortedConcat ==
  ASSUME NEW a \in Seq(Rows), NEW b \in Seq(Rows), Sorted(a), Sorted(b), NoneAfter(a, b)
  PROVE  Sorted(a \o b)
<1>1. /\ Len(a) \in Nat /\ DOMAIN a = 1 .. Len(a)
      /\ Len(b) \in Nat /\ DOMAIN b = 1 .. Len(b)
      /\ DOMAIN (a \o b) = 1 .. Len(a) + Len(b)
      /\ \A i \in 1 .. Len(a) + Len(b) :
           (a \o b)[i] = IF i <= Len(a) THEN a[i] ELSE b[i - Len(a)]
  BY ConcatProperties, LenProperties
<1>2. SUFFICES ASSUME NEW i \in 1 .. Len(a) + Len(b), NEW j \in 1 .. Len(a) + Len(b), i < j
               PROVE  (a \o b)[i].time <= (a \o b)[j].time
  BY <1>1 DEF Sorted
<1>3. CASE j <= Len(a)
  BY <1>1, <1>2, <1>3 DEF Sorted
<1>4. CASE i <= Len(a) /\ j > Len(a)
  <2>1. j - Len(a) \in DOMAIN b /\ i \in DOMAIN a
    BY <1>1, <1>4
  <2>. QED BY <1>1, <1>4, <2>1 DEF NoneAfter
<1>5. CASE i > Len(a)
  <2>1. /\ i - Len(a) \in DOMAIN b /\ j - Len(a) \in DOMAIN b
        /\ i - Len(a) < j - Len(a) /\ j > Len(a)
    BY <1>1, <1>2, <1>5
  <2>. QED BY <1>1, <1>5, <2>1 DEF Sorted
<1>. QED BY <1>1, <1>3, <1>4, <1>5

(* A row of the two is a row of one of them.                               *)
LEMMA ConcatRows ==
  ASSUME NEW a \in Seq(Rows), NEW b \in Seq(Rows), NEW i \in DOMAIN (a \o b)
  PROVE  (\E j \in DOMAIN a : (a \o b)[i] = a[j]) \/ (\E j \in DOMAIN b : (a \o b)[i] = b[j])
<1>1. /\ Len(a) \in Nat /\ DOMAIN a = 1 .. Len(a)
      /\ Len(b) \in Nat /\ DOMAIN b = 1 .. Len(b)
      /\ DOMAIN (a \o b) = 1 .. Len(a) + Len(b)
      /\ \A k \in 1 .. Len(a) + Len(b) :
           (a \o b)[k] = IF k <= Len(a) THEN a[k] ELSE b[k - Len(a)]
  BY ConcatProperties, LenProperties
<1>2. CASE i <= Len(a)
  BY <1>1, <1>2
<1>3. CASE i > Len(a)
  <2>1. i - Len(a) \in DOMAIN b
    BY <1>1, <1>3
  <2>. QED BY <1>1, <1>3, <2>1
<1>. QED BY <1>1, <1>2, <1>3

(* What is kept of the pending rows when the process dies.                 *)
LEMMA PrefixRows ==
  ASSUME NEW a \in Seq(Rows), NEW n \in 0 .. Len(a)
  PROVE  /\ SubSeq(a, 1, n) \in Seq(Rows)
         /\ DOMAIN SubSeq(a, 1, n) \subseteq DOMAIN a
         /\ \A i \in DOMAIN SubSeq(a, 1, n) : SubSeq(a, 1, n)[i] = a[i]
<1>1. Len(a) \in Nat /\ DOMAIN a = 1 .. Len(a) /\ \A i \in 1 .. n : a[i] \in Rows
  BY LenProperties, ElementOfSeq
<1>2. /\ SubSeq(a, 1, n) \in Seq(Rows)
      /\ Len(SubSeq(a, 1, n)) = IF 1 <= n THEN n - 1 + 1 ELSE 0
      /\ \A i \in 1 .. n - 1 + 1 : SubSeq(a, 1, n)[i] = a[1 + i - 1]
  BY <1>1, SubSeqProperties
<1>3. DOMAIN SubSeq(a, 1, n) = 1 .. n
  BY <1>1, <1>2, LenProperties
<1>. QED BY <1>1, <1>2, <1>3

-----------------------------------------------------------------------------
(* Why the journal is in time order though every hour is written by a      *)
(* thread of its own.  The loader reads the hours in order, hands an hour  *)
(* over when the thread before it is done, and the thread writes the rows  *)
(* it was given in their order; so the journal, what is pending, what the  *)
(* thread still has and what the loader has read follow one another.       *)
Reading == pc \in {"nextFile", "events"}

EmptyAtFirst ==
  /\ dbFile = "absent" => journal = << >> /\ pc = "start"
  /\ newDb /\ pc \in {"createDb", "readDirectory", "commitFiles", "readFiles"} =>
       journal = << >>

FilesInOrder ==
  newDb /\ (Reading \/ pc \in {"commitFiles", "readFiles"}) =>
    \A i, j \in DOMAIN files : i < j => Hour[files[i]] <= Hour[files[j]]

HoursAhead ==
  Reading =>
    /\ newDb
    /\ \A i \in DOMAIN files : cur <= i => time <= Hour[files[i]]
    /\ pc = "events" => time = Hour[files[cur]]

RecordsOfHour == Reading => InHour(records, time) /\ (time = 0 => records = << >>)

(* A thread has its rows to write until it has committed them.             *)
HasRows(t) == threads[t].pc = "begin" \/ Writing(t)

WrittenBefore ==
  Reading => /\ BeforeHour(journal, time)
             /\ \A t \in DOMAIN threads : HasRows(t) => BeforeHour(threads[t].rows, time)

RowsFollowJournal ==
  \A t \in DOMAIN threads : HasRows(t) =>
    Sorted(threads[t].rows) /\ NoneAfter(journal, threads[t].rows)

PendingAreRows ==
  \A t \in DOMAIN threads : Writing(t) =>
    \A i \in DOMAIN pending :
      i \in DOMAIN threads[t].rows /\ pending[i].time = threads[t].rows[i].time

OrderParts == /\ SortedByTime /\ EmptyAtFirst /\ FilesInOrder /\ HoursAhead /\ RecordsOfHour
              /\ WrittenBefore /\ RowsFollowJournal /\ PendingAreRows

OrderInv == WriterInv /\ OrderParts

(* Before the program starts there are no rows.                            *)
LEMMA OrderInit == Init => OrderInv
BY WriterInit
   DEF Init, TurnInv, OrderInv, OrderParts, SortedByTime, EmptyAtFirst, FilesInOrder, HoursAhead,
       RecordsOfHour, WrittenBefore, RowsFollowJournal, PendingAreRows, Reading

(* Steps that touch neither the journal nor what is on the way to it.      *)
LEMMA OrderOfRowsKept ==
  ASSUME OrderParts, UNCHANGED <<journal, pending, threads>>
  PROVE  SortedByTime' /\ RowsFollowJournal' /\ PendingAreRows'
BY DEF OrderParts, SortedByTime, RowsFollowJournal, PendingAreRows, HasRows, Writing

(* An hour handed over is sorted and later than all that is written; what  *)
(* was read before it is earlier than the hour the loader goes on with.    *)
LEMMA OrderHandOver ==
  ASSUME OrderInv, HandOver, UNCHANGED <<journal, pending>>, Reading, time # 0
  PROVE  /\ SortedByTime' /\ RowsFollowJournal' /\ PendingAreRows'
         /\ records' = << >>
         /\ \A h \in Nat : time < h =>
              /\ BeforeHour(journal', h)
              /\ \A t \in DOMAIN threads' : HasRows(t)' => BeforeHour(threads'[t].rows, h)
<1>. USE DEF OrderInv
<1>1. /\ threads \in Seq(Threads) /\ records \in Seq(Rows) /\ journal \in Seq(Rows)
      /\ time \in Nat /\ ~mutex
  BY DEF WriterInv, TypeInv, TypeOK, HandOver
<1>2. PICK rs \in TimeSorted(records) : threads' = Append(threads, NewThread(rs))
  BY DEF HandOver
<1>. DEFINE n == Len(threads) + 1
            new == NewThread(rs)
<1>3. rs \in Seq(Rows) /\ Sorted(rs) /\ \A i \in DOMAIN rs : \E j \in DOMAIN records : rs[i] = records[j]
  BY <1>1, <1>2, TimeSortedType, TimeSortedRows
<1>4. new \in Threads /\ new.rows = rs /\ new.pc = "begin"
  BY <1>3 DEF NewThread, Threads, WriterInv, TypeInv, TypeOK
<1>5. /\ DOMAIN threads' = DOMAIN threads \cup {n}
      /\ \A u \in DOMAIN threads : u # n /\ threads'[u] = threads[u]
      /\ threads'[n] = new
  <2>. HIDE DEF new
  <2>. QED BY <1>1, <1>2, <1>4, AppendProperties, LenProperties DEF new
<1>6. \A u \in DOMAIN threads : threads[u].pc = "done"
  BY <1>1 DEF WriterInv, WriterParts, OneAtWork
<1>7. \A u \in DOMAIN threads' : (HasRows(u)' => u = n) /\ ~Writing(u)'
  BY <1>4, <1>5, <1>6 DEF HasRows, Writing, InsideTransaction
<1>8. InHour(records, time) /\ BeforeHour(journal, time)
  BY DEF OrderParts, RecordsOfHour, WrittenBefore
<1>9. \A i \in DOMAIN rs : HourStart(time) <= rs[i].time /\ rs[i].time < HourStart(time) + HourSpan
  BY <1>3, <1>8 DEF InHour
<1>10. \A i \in DOMAIN journal : journal[i].time \in Nat
  BY <1>1, RowsOfSeq
<1>11. \A i \in DOMAIN rs : rs[i].time \in Nat
  BY <1>3, RowsOfSeq
<1>12. HourStart(time) \in Nat /\ HourSpan \in Nat
  BY <1>1, HoursApart, LoaderAssumption
<1>13. NoneAfter(journal, rs)
  BY <1>8, <1>9, <1>10, <1>11, <1>12 DEF NoneAfter, BeforeHour
<1>14. SortedByTime' /\ RowsFollowJournal' /\ PendingAreRows'
  <2>1. SortedByTime'
    BY DEF OrderParts, SortedByTime
  <2>2. RowsFollowJournal' /\ PendingAreRows'
    BY <1>3, <1>4, <1>5, <1>7, <1>13 DEF RowsFollowJournal, PendingAreRows
  <2>. QED BY <2>1, <2>2
<1>15. ASSUME NEW h \in Nat, time < h
       PROVE  BeforeHour(journal', h) /\ BeforeHour(rs, h)
  <2>1. HourStart(time) + HourSpan <= HourStart(h) /\ HourStart(h) \in Nat
    BY <1>1, <1>15, HoursApart
  <2>. QED BY <1>8, <1>9, <1>10, <1>11, <1>12, <2>1 DEF BeforeHour
<1>16. records' = << >>
  BY DEF HandOver
<1>. QED BY <1>4, <1>5, <1>7, <1>14, <1>15, <1>16

(* The files are listed in the order of their hours.                       *)
LEMMA HourSortedOrder ==
  ASSUME NEW s \in HourSortedFiles
  PROVE  \A i, j \in DOMAIN s : i < j => Hour[s[i]] <= Hour[s[j]]
BY DEF HourSortedFiles

(* A record made of an event lies in the hour of its file.                 *)
LEMMA AppendInHour ==
  ASSUME NEW rs \in Seq(Rows), NEW r \in Rows, NEW h, InHour(rs, h),
         HourStart(h) <= r.time, r.time < HourStart(h) + HourSpan
  PROVE  InHour(Append(rs, r), h)
BY AppendProperties, LenProperties DEF InHour

(* The loading thread goes through the hours in order.                     *)
LEMMA OrderLoader ==
  ASSUME OrderInv, LoaderNext, WriterInv'
  PROVE  OrderParts'
<1>. DEFINE HoursParts == EmptyAtFirst /\ FilesInOrder /\ HoursAhead /\ RecordsOfHour /\ WrittenBefore
<1>. USE DEF dbVars, txnVars, readVars, loaderVars, OrderInv, Reading
<1>0. /\ HoursParts
      /\ files \in Seq(LogFiles) /\ time \in Nat /\ cur \in Nat \ {0}
      /\ \A i \in DOMAIN files : i \in Nat /\ Hour[files[i]] \in Nat \ {0}
  <2>1. HoursParts
    BY DEF OrderParts
  <2>2. files \in Seq(LogFiles) /\ time \in Nat /\ cur \in Nat \ {0}
    BY DEF WriterInv, TypeInv, TypeOK
  <2>. QED BY <2>1, <2>2, LoaderAssumption, ElementOfSeq, LenProperties
<1>. HIDE DEF HoursParts
<1>1. ASSUME UNCHANGED <<journal, pending, threads>>, HoursParts'
      PROVE  OrderParts'
  BY <1>1, OrderOfRowsKept DEF OrderParts, HoursParts
<1>. USE DEF HoursParts, EmptyAtFirst, FilesInOrder, HoursAhead, RecordsOfHour, WrittenBefore
<1>2. CASE OpenNew
  BY <1>0, <1>1, <1>2 DEF OpenNew
<1>3. CASE CreateDb
  BY <1>0, <1>1, <1>3 DEF CreateDb
<1>4. CASE OpenExisting
  BY <1>0, <1>1, <1>4 DEF OpenExisting
<1>5. CASE ListFiles
  BY <1>0, <1>1, <1>5, HourSortedOrder DEF ListFiles
<1>6. CASE CommitFiles
  BY <1>0, <1>1, <1>6 DEF CommitFiles
<1>7. CASE LoadFiles
  BY <1>0, <1>1, <1>7 DEF LoadFiles
<1>8. CASE BeginReadFiles
  <2>1. journal = << >> /\ threads = << >>
    BY <1>0, <1>8 DEF BeginReadFiles, WriterInv, WriterParts, NoThreadYet, BeforeReading
  <2>. QED BY <1>0, <1>1, <1>8, <2>1 DEF BeginReadFiles, InHour, BeforeHour
<1>9. CASE HourEnds
  <2>1. /\ pc = "nextFile" /\ pc' = "nextFile" /\ cur \in DOMAIN files /\ cur' = cur
        /\ time # 0 /\ time # Hour[files[cur]] /\ HandOver /\ time' = Hour[files[cur]]
        /\ UNCHANGED <<journal, pending, files, newDb, dbFile>>
    BY <1>9 DEF HourEnds
  <2>2. time < time' /\ time' \in Nat \ {0}
    BY <1>0, <2>1
  <2>3. /\ SortedByTime' /\ RowsFollowJournal' /\ PendingAreRows'
        /\ records' = << >> /\ WrittenBefore'
    BY <2>1, <2>2, OrderHandOver
  <2>4. EmptyAtFirst' /\ FilesInOrder'
    BY <1>0, <2>1
  <2>5. HoursAhead' /\ RecordsOfHour'
    BY <1>0, <2>1, <2>2, <2>3 DEF InHour
  <2>. QED BY <2>3, <2>4, <2>5 DEF OrderParts
<1>10. CASE OpenFile
  <2>1. /\ pc = "nextFile" /\ cur \in DOMAIN files /\ time \in {0, Hour[files[cur]]}
        /\ time' = Hour[files[cur]] /\ pc' \in {"nextFile", "events"}
        /\ cur' = cur \/ (cur' = cur + 1 /\ pc' = "nextFile")
        /\ UNCHANGED <<journal, pending, threads, files, newDb, dbFile, records>>
    BY <1>10 DEF OpenFile
  <2>2. time <= time' /\ time' \in Nat \ {0} /\ newDb
    BY <1>0, <2>1
  <2>3. EmptyAtFirst' /\ FilesInOrder'
    BY <1>0, <2>1
  <2>4. HoursAhead'
    <3>1. \A i \in DOMAIN files : cur <= i => Hour[files[cur]] <= Hour[files[i]]
      BY <1>0, <2>1
    <3>2. \A i \in DOMAIN files : cur' <= i => cur <= i
      BY <1>0, <2>1
    <3>. QED BY <2>1, <2>2, <3>1, <3>2
  <2>5. RecordsOfHour'
    BY <1>0, <2>1, <2>2 DEF InHour
  <2>6. WrittenBefore'
    <3>1. HourStart(time) <= HourStart(time') /\ HourStart(time) \in Nat /\ HourStart(time') \in Nat
      BY <1>0, <2>2, HoursApart
    <3>2. ASSUME NEW rs \in Seq(Rows), BeforeHour(rs, time) PROVE BeforeHour(rs, time')
      <4>1. \A i \in DOMAIN rs : rs[i].time \in Nat
        BY <3>2, RowsOfSeq
      <4>. QED BY <3>1, <3>2, <4>1 DEF BeforeHour
    <3>3. journal \in Seq(Rows) /\ \A t \in DOMAIN threads : threads[t].rows \in Seq(Rows)
      BY ThreadsOfSeq DEF WriterInv, TypeInv, TypeOK
    <3>4. UNCHANGED <<journal, threads>> /\ pc = "nextFile"
      BY <2>1
    <3>. QED BY <1>0, <3>2, <3>3, <3>4 DEF HasRows, Writing
  <2>. QED BY <1>1, <2>1, <2>3, <2>4, <2>5, <2>6
<1>11. CASE ReadEvent
  <2>. DEFINE f == files[cur]
              e == Events[f][evt]
              r == [file_id |-> cur - 1, start |-> evt, time |-> Hour[f] * HourSpan + e.offset,
                    lines |-> e.lines, agr |-> 0, process_id |-> dict["process"][Process[f]],
                    event_id |-> IdOf("event", e.name)]
  <2>1. /\ pc = "events" /\ pc' = pc /\ records' = Append(records, r) /\ evt \in DOMAIN Events[f]
        /\ UNCHANGED <<journal, pending, threads, files, newDb, dbFile, cur, time>>
    BY <1>11 DEF ReadEvent
  <2>2. cur \in DOMAIN files /\ records \in Seq(Rows) /\ records' \in Seq(Rows)
    BY <2>1 DEF WriterInv, TypeInv, TypeOK, ProcessHasId
  <2>3. time = Hour[f] /\ time # 0
    BY <1>0, <2>1, <2>2
  <2>4. e.offset \in 0 .. HourSpan - 1 /\ HourSpan \in Nat
    <3>1. f \in LogFiles
      BY <1>0, <2>2, ElementOfSeq, LenProperties
    <3>2. Events[f] \in Seq([offset : 0 .. HourSpan - 1, lines : Nat \ {0}, name : Names])
      BY <3>1, LoaderAssumption
    <3>3. evt \in 1 .. Len(Events[f])
      BY <2>1, <3>2, LenProperties
    <3>4. e \in [offset : 0 .. HourSpan - 1, lines : Nat \ {0}, name : Names]
      BY <3>2, <3>3, ElementOfSeq
    <3>. QED BY <3>4, LoaderAssumption
  <2>5. r.time = HourStart(time) + e.offset
    BY <2>3 DEF HourStart
  <2>. HIDE DEF r, e
  <2>6. /\ DOMAIN records' = DOMAIN records \cup {Len(records) + 1}
        /\ \A i \in DOMAIN records : records'[i] = records[i]
        /\ records'[Len(records) + 1] = r
    <3>1. /\ Len(Append(records, r)) = Len(records) + 1
          /\ \A i \in 1 .. Len(records) : Append(records, r)[i] = records[i]
          /\ Append(records, r)[Len(records) + 1] = r
          /\ DOMAIN records = 1 .. Len(records) /\ Len(records) \in Nat
      BY <2>2, LenProperties
    <3>2. DOMAIN records' = 1 .. Len(records')
      BY <2>2, LenProperties
    <3>. QED BY <2>1, <3>1, <3>2
  <2>7. HourStart(time) \in Nat
    BY <1>0, HoursApart
  <2>8. HourStart(time) <= r.time /\ r.time < HourStart(time) + HourSpan
    BY <2>4, <2>5, <2>7
  <2>9. InHour(records', time)
    BY <1>0, <2>1, <2>6, <2>8 DEF InHour
  <2>10. RecordsOfHour'
    BY <2>1, <2>3, <2>9
  <2>11. EmptyAtFirst' /\ FilesInOrder' /\ HoursAhead' /\ WrittenBefore'
    BY <1>0, <2>1 DEF HasRows, Writing
  <2>. QED BY <1>1, <2>1, <2>10, <2>11
<1>12. CASE CloseFile
  <2>1. /\ pc = "events" /\ pc' = "nextFile" /\ cur' = cur + 1
        /\ UNCHANGED <<journal, pending, threads, files, newDb, dbFile, time, records>>
    BY <1>12 DEF CloseFile
  <2>2. \A i \in DOMAIN files : cur' <= i => cur <= i
    BY <1>0, <2>1
  <2>3. EmptyAtFirst' /\ FilesInOrder' /\ HoursAhead'
    BY <1>0, <2>1, <2>2
  <2>4. RecordsOfHour' /\ WrittenBefore'
    BY <1>0, <2>1 DEF HasRows, Writing
  <2>. QED BY <1>1, <2>1, <2>3, <2>4
<1>13. CASE FilesEnd
  <2>1. CASE time # 0
    <3>1. HandOver /\ Reading /\ pc' = "await" /\ UNCHANGED <<journal, pending, newDb, dbFile>>
      BY <1>13, <2>1 DEF FilesEnd
    <3>2. SortedByTime' /\ RowsFollowJournal' /\ PendingAreRows'
      BY <2>1, <3>1, OrderHandOver
    <3>3. HoursParts'
      BY <1>0, <3>1
    <3>. QED BY <3>2, <3>3 DEF OrderParts
  <2>2. CASE time = 0
    BY <1>0, <1>1, <1>13, <2>2 DEF FilesEnd
  <2>. QED BY <2>1, <2>2
<1>14. CASE LastHourWritten
  BY <1>0, <1>1, <1>14 DEF LastHourWritten
<1>15. CASE WriteStatus
  BY <1>0, <1>1, <1>15 DEF WriteStatus
<1>16. CASE ShowStatus
  BY <1>0, <1>1, <1>16 DEF ShowStatus
<1>17. CASE FilesAreRead
  BY <1>0, <1>1, <1>17 DEF FilesAreRead
<1>. QED BY <1>2, <1>3, <1>4, <1>5, <1>6, <1>7, <1>8, <1>9, <1>10, <1>11, <1>12, <1>13,
            <1>14, <1>15, <1>16, <1>17 DEF LoaderNext

(* A thread whose BEGIN fails ends the process, which the invariant forbids.*)
LEMMA BegunOutside ==
  ASSUME NEW t \in DOMAIN threads, Begin(t), WriterInv'
  PROVE  ~txn
BY DEF Begin, WriterInv, WriterParts, NoThreadYet, BeforeReading

(* A committing thread puts its rows behind the journal in their order.    *)
LEMMA OrderCommitter ==
  ASSUME OrderInv, NEW t \in DOMAIN threads, CommitterNext(t), WriterInv'
  PROVE  OrderParts'
<1>. USE DEF dbVars, txnVars, readVars, loaderVars, OrderInv
<1>1. /\ threads[t] \in Threads /\ threads[t].rows \in Seq(Rows)
      /\ journal \in Seq(Rows) /\ pending \in Seq(Rows) /\ threads \in Seq(Threads)
  BY ThreadsOfSeq DEF WriterInv, TypeInv, TypeOK
<1>2. \A u \in DOMAIN threads : HasRows(u) => u = t
  <2>1. threads[t].pc # "done"
    BY DEF CommitterNext, Begin, SaveEntity, InsertEvent, EventsEnd, Commit, Unlock
  <2>. QED BY <2>1 DEF WriterInv, WriterParts, OneAtWork, HasRows, Writing, InsideTransaction
<1>3. ASSUME UNCHANGED <<newDb, dbFile, files, cur, time, records>>,
             pc' = pc \/ pc' = "terminated",
             UNCHANGED journal
      PROVE  /\ SortedByTime' /\ EmptyAtFirst' /\ FilesInOrder' /\ HoursAhead'
             /\ RecordsOfHour'
  <2>1. dbFile # "absent"
    BY DEF OrderParts, EmptyAtFirst, WriterInv, WriterParts, NoThreadYet, BeforeReading
  <2>. QED BY <1>3, <2>1
       DEF OrderParts, SortedByTime, EmptyAtFirst, FilesInOrder, HoursAhead, RecordsOfHour,
           Reading
<1>4. ASSUME NEW q \in {"begin", "unlock", "done"} \cup InsideTransaction,
             threads' = [threads EXCEPT ![t].pc = q]
      PROVE  /\ DOMAIN threads' = DOMAIN threads
             /\ \A u \in DOMAIN threads : u # t => threads'[u] = threads[u]
             /\ threads'[t].pc = q /\ threads'[t].rows = threads[t].rows
  <2>1. threads'[t] = [threads[t] EXCEPT !.pc = q]
    BY <1>1, <1>4, ThreadStep
  <2>. QED BY <1>1, <1>4, <2>1, ThreadStep DEF Threads
<1>5. ASSUME UNCHANGED <<newDb, dbFile, files, cur, time, records, journal>>,
             pc' = pc \/ pc' = "terminated",
             DOMAIN threads' = DOMAIN threads,
             \A u \in DOMAIN threads : u # t => threads'[u] = threads[u],
             threads'[t].rows = threads[t].rows, HasRows(t)' => HasRows(t),
             Writing(t)' => \A i \in DOMAIN pending' :
               i \in DOMAIN threads[t].rows /\ pending'[i].time = threads[t].rows[i].time
      PROVE  OrderParts'
  <2>1. \A u \in DOMAIN threads' : HasRows(u)' => u = t /\ HasRows(t)
    BY <1>2, <1>5 DEF HasRows, Writing
  <2>2. RowsFollowJournal'
    BY <1>5, <2>1 DEF OrderParts, RowsFollowJournal
  <2>3. WrittenBefore'
    BY <1>5, <2>1 DEF OrderParts, WrittenBefore, Reading
  <2>4. PendingAreRows'
    BY <1>5, <2>1 DEF PendingAreRows, HasRows
  <2>. QED BY <1>3, <1>5, <2>2, <2>3, <2>4 DEF OrderParts
<1>6. ASSUME Writing(t)
      PROVE  \A i \in DOMAIN pending :
               i \in DOMAIN threads[t].rows /\ pending[i].time = threads[t].rows[i].time
  BY <1>6 DEF OrderParts, PendingAreRows
<1>7. CASE Begin(t)
  <2>1. ~txn /\ pending = << >>
    <3>1. \A u \in DOMAIN threads : ~Writing(u)
      BY <1>2, <1>7 DEF Begin, HasRows, Writing, InsideTransaction
    <3>. QED BY <1>7, <3>1, BegunOutside DEF WriterInv, WriterParts, PendingIsWritten
  <2>2. /\ threads' = [threads EXCEPT ![t].pc = "save"] /\ pending' = << >>
        /\ UNCHANGED <<newDb, dbFile, files, cur, time, records, journal, pc>>
    BY <1>7, <2>1 DEF Begin
  <2>3. HasRows(t)
    BY <1>7 DEF Begin, HasRows
  <2>4. /\ DOMAIN threads' = DOMAIN threads /\ threads'[t].rows = threads[t].rows
        /\ \A u \in DOMAIN threads : u # t => threads'[u] = threads[u]
    BY <1>4, <2>2 DEF InsideTransaction
  <2>5. DOMAIN pending' = {}
    BY <2>2
  <2>. QED BY <1>5, <2>2, <2>3, <2>4, <2>5
<1>8. CASE SaveEntity(t)
  <2>1. Writing(t) /\ HasRows(t)
    BY <1>8 DEF SaveEntity, Writing, HasRows, InsideTransaction
  <2>. QED BY <1>4, <1>5, <1>6, <1>8, <2>1 DEF SaveEntity, InsideTransaction
<1>9. CASE EventsEnd(t)
  <2>1. Writing(t) /\ HasRows(t)
    BY <1>9 DEF EventsEnd, Writing, HasRows, InsideTransaction
  <2>. QED BY <1>4, <1>5, <1>6, <1>9, <2>1 DEF EventsEnd, InsideTransaction
<1>10. CASE InsertEvent(t)
  <2>. DEFINE k == threads[t].next
              r == threads[t].rows[k]
              a == threads[t].agr + r.lines
              new == [threads[t] EXCEPT !.next = k + 1, !.agr = a]
              row == [r EXCEPT !.agr = a]
  <2>1. /\ threads[t].pc = "insert" /\ k \in DOMAIN threads[t].rows
        /\ threads' = [threads EXCEPT ![t] = new] /\ pending' = Append(pending, row)
        /\ UNCHANGED <<newDb, dbFile, files, cur, time, records, journal, pc>>
    BY <1>10 DEF InsertEvent
  <2>2. Writing(t) /\ HasRows(t)
    BY <2>1 DEF Writing, HasRows, InsideTransaction
  <2>3. /\ DOMAIN threads' = DOMAIN threads /\ threads'[t] = new
        /\ \A u \in DOMAIN threads : u # t => threads'[u] = threads[u]
    BY <1>1, <2>1, LenProperties
  <2>4. new.rows = threads[t].rows
    BY <1>1 DEF Threads
  <2>5. r \in Rows /\ row.time = r.time
    <3>1. r \in Rows
      BY <1>1, <2>1, RowsOfSeq
    <3>. QED BY <3>1 DEF Rows
  <2>6. k \in Nat \ {0} /\ Len(pending) = k - 1
    BY <1>1, <2>2 DEF Threads, WriterInv, WriterParts, PendingIsWritten
  <2>7. /\ DOMAIN pending' = DOMAIN pending \cup {k}
        /\ \A i \in DOMAIN pending : pending'[i] = pending[i]
        /\ pending'[k] = row
    <3>. HIDE DEF row
    <3>1. /\ Len(Append(pending, row)) = Len(pending) + 1
          /\ DOMAIN Append(pending, row) = 1 .. Len(pending) + 1
          /\ \A i \in 1 .. Len(pending) : Append(pending, row)[i] = pending[i]
          /\ Append(pending, row)[Len(pending) + 1] = row
          /\ DOMAIN pending = 1 .. Len(pending) /\ Len(pending) \in Nat
      BY <1>1
    <3>. QED BY <2>1, <2>6, <3>1
  <2>. HIDE DEF row, new
  <2>8. \A i \in DOMAIN pending' :
          i \in DOMAIN threads[t].rows /\ pending'[i].time = threads[t].rows[i].time
    BY <1>6, <2>1, <2>2, <2>5, <2>7
  <2>9. threads'[t].rows = threads[t].rows
    BY <2>3, <2>4
  <2>. QED BY <1>5, <2>1, <2>2, <2>3, <2>8, <2>9
<1>11. CASE Commit(t)
  <2>1. Writing(t) /\ HasRows(t) /\ txn
    BY <1>11 DEF Commit, HasRows, Writing, InsideTransaction, WriterInv, WriterParts, TxnHeld, LoadOwns
  <2>2. /\ threads' = [threads EXCEPT ![t].pc = "unlock"] /\ pending' = << >>
        /\ journal' = journal \o pending
        /\ UNCHANGED <<newDb, dbFile, files, cur, time, records, pc>>
    BY <1>11, <2>1 DEF Commit
  <2>3. \A u \in DOMAIN threads' : ~HasRows(u)'
    BY <1>2, <1>4, <2>2 DEF HasRows, Writing, InsideTransaction
  <2>4. Sorted(threads[t].rows) /\ NoneAfter(journal, threads[t].rows)
    BY <2>1 DEF OrderParts, RowsFollowJournal
  <2>5. Sorted(pending) /\ NoneAfter(journal, pending)
    BY <1>6, <2>1, <2>4 DEF Sorted, NoneAfter
  <2>6. SortedByTime'
    BY <1>1, <2>2, <2>5, SortedConcat DEF OrderParts, SortedByTime, Sorted
  <2>7. RowsFollowJournal' /\ PendingAreRows'
    BY <2>3 DEF RowsFollowJournal, PendingAreRows, HasRows
  <2>8. WrittenBefore'
    <3>1. SUFFICES ASSUME Reading PROVE BeforeHour(journal', time)
      BY <2>2, <2>3 DEF WrittenBefore, Reading
    <3>2. BeforeHour(journal, time) /\ BeforeHour(threads[t].rows, time)
      BY <2>1, <3>1 DEF OrderParts, WrittenBefore
    <3>3. BeforeHour(pending, time)
      BY <1>6, <2>1, <3>2 DEF BeforeHour
    <3>. QED BY <1>1, <2>2, <3>2, <3>3, ConcatRows DEF BeforeHour
  <2>9. EmptyAtFirst'
    <3>1. pc \notin BeforeReading
      BY <2>1 DEF WriterInv, WriterParts, NoThreadYet
    <3>2. dbFile # "absent"
      BY <3>1 DEF OrderParts, EmptyAtFirst, BeforeReading
    <3>. QED BY <2>2, <3>1, <3>2 DEF EmptyAtFirst, BeforeReading
  <2>10. FilesInOrder' /\ HoursAhead' /\ RecordsOfHour'
    BY <2>2 DEF OrderParts, FilesInOrder, HoursAhead, RecordsOfHour, Reading
  <2>. QED BY <2>6, <2>7, <2>8, <2>9, <2>10 DEF OrderParts
<1>12. CASE Unlock(t)
  <2>1. /\ threads' = [threads EXCEPT ![t].pc = "done"]
        /\ UNCHANGED <<newDb, dbFile, files, cur, time, records, journal, pc>>
    BY <1>12 DEF Unlock
  <2>2. /\ DOMAIN threads' = DOMAIN threads /\ threads'[t].rows = threads[t].rows
        /\ \A u \in DOMAIN threads : u # t => threads'[u] = threads[u]
        /\ threads'[t].pc = "done"
    BY <1>4, <2>1
  <2>3. ~HasRows(t)' /\ ~Writing(t)'
    BY <2>2 DEF HasRows, Writing, InsideTransaction
  <2>. QED BY <1>5, <2>1, <2>2, <2>3
<1>. QED BY <1>7, <1>8, <1>9, <1>10, <1>11, <1>12 DEF CommitterNext

(* What a dying process leaves of its transaction is the first rows of it, *)
(* and no later process adds to an index that is there.                    *)
LEMMA OrderKill ==
  ASSUME OrderInv, Kill
  PROVE  OrderParts'
<1>. USE DEF OrderInv
<1>1. journal \in Seq(Rows) /\ pending \in Seq(Rows)
  BY DEF WriterInv, TypeInv, TypeOK
<1>2. PICK n \in 0 .. Len(pending) : journal' = journal \o SubSeq(pending, 1, n)
  BY DEF Kill
<1>3. Sorted(pending) /\ NoneAfter(journal, pending)
  <2>1. CASE \A t \in DOMAIN threads : ~Writing(t)
    <3>1. pending = << >>
      BY <2>1 DEF WriterInv, WriterParts, PendingIsWritten
    <3>. QED BY <3>1 DEF Sorted, NoneAfter
  <2>2. ASSUME NEW t \in DOMAIN threads, Writing(t)
        PROVE  Sorted(pending) /\ NoneAfter(journal, pending)
    BY <2>2 DEF OrderParts, PendingAreRows, RowsFollowJournal, HasRows, Sorted, NoneAfter
  <2>. QED BY <2>1, <2>2
<1>4. /\ SubSeq(pending, 1, n) \in Seq(Rows)
      /\ Sorted(SubSeq(pending, 1, n)) /\ NoneAfter(journal, SubSeq(pending, 1, n))
  BY <1>1, <1>2, <1>3, PrefixRows DEF Sorted, NoneAfter
<1>5. SortedByTime'
  BY <1>1, <1>2, <1>4, SortedConcat DEF OrderParts, SortedByTime, Sorted
<1>6. threads' = << >> /\ pc' = "start" /\ newDb' = FALSE
  BY DEF Kill
<1>7. dbFile' # "absent"
  BY DEF Kill, OrderParts, EmptyAtFirst
<1>. QED BY <1>5, <1>6, <1>7
         DEF OrderParts, EmptyAtFirst, FilesInOrder, HoursAhead, RecordsOfHour, WrittenBefore,
             RowsFollowJournal, PendingAreRows, Reading

(* The invariant is kept by every step.                                    *)
LEMMA OrderNext == OrderInv /\ WriterInv' /\ [Next]_vars => OrderInv'
<1>. SUFFICES ASSUME OrderInv, WriterInv', [Next]_vars PROVE OrderInv'
  OBVIOUS
<1>1. WriterInv'
  OBVIOUS
<1>2. CASE LoaderNext
  BY <1>1, <1>2, OrderLoader DEF OrderInv
<1>3. CASE \E t \in DOMAIN threads : CommitterNext(t)
  BY <1>1, <1>3, OrderCommitter DEF OrderInv
<1>4. CASE Kill
  BY <1>1, <1>4, OrderKill DEF OrderInv
<1>5. CASE Ended \/ UNCHANGED vars
  BY <1>1, <1>5
     DEF Ended, vars, dbVars, txnVars, readVars, loaderVars, OrderInv, OrderParts, SortedByTime,
         EmptyAtFirst, FilesInOrder, HoursAhead, RecordsOfHour, WrittenBefore,
         RowsFollowJournal, PendingAreRows, Reading, HasRows, Writing
<1>. QED BY <1>2, <1>3, <1>4, <1>5 DEF Next

(* The journal is in time order, whatever files and servers its rows come  *)
(* from, though each hour is written by a thread of its own, and whenever  *)
(* the process dies: the viewer and the analyses read it by id.            *)
THEOREM JournalInTimeOrder == Spec => []SortedByTime
<1>1. OrderInv => SortedByTime
  BY DEF OrderInv, OrderParts
<1>. QED BY <1>1, WritersAlways, OrderInit, OrderNext, PTL DEF Spec

-----------------------------------------------------------------------------
(* The lines of the rows from the n-th on, as a set that can be counted:   *)
(* a pair for each line of each row.                                       *)
Cells(rs, n) == UNION {{i} \X (1 .. rs[i].lines) : i \in n .. Len(rs)}

LinesFrom(rs, n) == Cardinality(Cells(rs, n))

(* An interval from 1 has as many members as it is long.                   *)
LEMMA IntervalFinite ==
  ASSUME NEW n \in Nat
  PROVE  IsFiniteSet(1 .. n) /\ Cardinality(1 .. n) = n
<1>1. n \in Int /\ 1 \in Int /\ (1 > n => n = 0) /\ n - 1 + 1 = n
  OBVIOUS
<1>2. IsFiniteSet(1 .. n) /\ Cardinality(1 .. n) = IF 1 > n THEN 0 ELSE n - 1 + 1
  BY <1>1, FS_Interval
<1>. QED BY <1>1, <1>2

(* Two finite sets with nothing in common.                                 *)
LEMMA DisjointUnion ==
  ASSUME NEW A, NEW B, IsFiniteSet(A), IsFiniteSet(B), A \cap B = {}
  PROVE  /\ IsFiniteSet(A \cup B)
         /\ Cardinality(A \cup B) = Cardinality(A) + Cardinality(B)
<1>1. Cardinality(A) \in Nat /\ Cardinality(B) \in Nat
  BY FS_CardinalityType
<1>2. Cardinality(A \cap B) = 0
  BY FS_EmptySet
<1>3. /\ IsFiniteSet(A \cup B)
      /\ Cardinality(A \cup B) = Cardinality(A) + Cardinality(B) - Cardinality(A \cap B)
  BY FS_Union
<1>. QED BY <1>1, <1>2, <1>3

(* The lines of the rows are finitely many; which pairs stand for them.    *)
LEMMA CellsAre ==
  ASSUME NEW rs \in Seq(Rows), NEW n \in Nat \ {0}
  PROVE  /\ IsFiniteSet(Cells(rs, n))
         /\ LinesFrom(rs, n) \in Nat
         /\ \A c : c \in Cells(rs, n) <=>
              /\ c = <<c[1], c[2]>>
              /\ c[1] \in n .. Len(rs) /\ c[2] \in 1 .. rs[c[1]].lines
<1>1. Len(rs) \in Nat /\ \A i \in n .. Len(rs) : rs[i].lines \in Nat
  <2>1. Len(rs) \in Nat
    BY LenProperties
  <2>2. \A i \in n .. Len(rs) : rs[i] \in Rows
    BY <2>1, ElementOfSeq
  <2>. QED BY <2>1, <2>2 DEF Rows
<1>. DEFINE D == n .. Len(rs)
            line == [i \in D |-> {i} \X (1 .. rs[i].lines)]
            P == {line[i] : i \in D}
<1>2. IsFiniteSet(D)
  BY <1>1, FS_Interval
<1>3. IsFiniteSet(P)
  <2>1. line \in Surjection(D, P)
    BY DEF Surjection
  <2>. HIDE DEF P, D, line
  <2>. QED BY <1>2, <2>1, FS_Surjection
<1>4. \A x \in P : IsFiniteSet(x)
  <2>1. \A i \in D : IsFiniteSet({i})
    BY FS_Singleton
  <2>2. \A i \in D : IsFiniteSet(1 .. rs[i].lines)
    BY <1>1, IntervalFinite
  <2>3. \A i \in D : IsFiniteSet({i} \X (1 .. rs[i].lines))
    BY <2>1, <2>2, FS_Product
  <2>. QED BY <2>3
<1>5. Cells(rs, n) = UNION P
  BY DEF Cells
<1>6. IsFiniteSet(Cells(rs, n))
  <2>. HIDE DEF P
  <2>. QED BY <1>3, <1>4, <1>5, FS_UNION
<1>. QED BY <1>6, FS_CardinalityType DEF Cells, LinesFrom

(* The lines of a row.                                                     *)
LEMMA LinesOfRow ==
  ASSUME NEW i, NEW l \in Nat
  PROVE  IsFiniteSet({i} \X (1 .. l)) /\ Cardinality({i} \X (1 .. l)) = l
<1>1. IsFiniteSet({i}) /\ Cardinality({i}) = 1
  BY FS_Singleton
<1>. DEFINE a == {i}
            b == 1 .. l
<1>2. IsFiniteSet(a) /\ Cardinality(a) = 1 /\ IsFiniteSet(b) /\ Cardinality(b) = l
  BY <1>1, IntervalFinite
<1>. HIDE DEF a, b
<1>3. IsFiniteSet(a \X b) /\ Cardinality(a \X b) = Cardinality(a) * Cardinality(b)
  BY <1>2, FS_Product
<1>4. Cardinality(a \X b) = l
  BY <1>2, <1>3
<1>. QED BY <1>3, <1>4 DEF a, b

(* Past the last row there are none.                                       *)
LEMMA NoLinesLeft ==
  ASSUME NEW rs, NEW n, n .. Len(rs) = {}
  PROVE  LinesFrom(rs, n) = 0
<1>1. Cells(rs, n) = {}
  BY DEF Cells
<1>. QED BY <1>1, FS_EmptySet DEF LinesFrom

(* The lines from a row on are its own and those from the next row on.     *)
LEMMA LinesOfFirst ==
  ASSUME NEW rs \in Seq(Rows), NEW n \in 1 .. Len(rs)
  PROVE  LinesFrom(rs, n) = rs[n].lines + LinesFrom(rs, n + 1)
<1>1. Len(rs) \in Nat /\ n \in Nat \ {0} /\ n + 1 \in Nat \ {0} /\ rs[n].lines \in Nat
  <2>1. Len(rs) \in Nat
    BY LenProperties
  <2>2. rs[n] \in Rows
    BY ElementOfSeq
  <2>3. \A r \in Rows : r.lines \in Nat
    BY DEF Rows
  <2>. QED BY <2>1, <2>2, <2>3
<1>. DEFINE A == {n} \X (1 .. rs[n].lines)
            B == Cells(rs, n + 1)
<1>2. IsFiniteSet(A) /\ Cardinality(A) = rs[n].lines
  BY <1>1, LinesOfRow
<1>3. IsFiniteSet(B) /\ Cardinality(B) \in Nat
  BY <1>1, CellsAre, FS_CardinalityType
<1>4. A \cap B = {} /\ A \cup B = Cells(rs, n)
  <2>1. \A i : i \in n .. Len(rs) <=> (i = n \/ i \in n + 1 .. Len(rs))
    BY <1>1
  <2>2. n \notin n + 1 .. Len(rs)
    BY <1>1
  <2>. QED BY <2>1, <2>2 DEF Cells
<1>5. Cardinality(A \cup B) = Cardinality(A) + Cardinality(B)
  <2>. HIDE DEF A, B
  <2>. QED BY <1>2, <1>3, <1>4, DisjointUnion
<1>. QED BY <1>2, <1>4, <1>5 DEF LinesFrom

(* A row appended adds its lines.                                          *)
LEMMA LinesOfAppended ==
  ASSUME NEW rs \in Seq(Rows), NEW r \in Rows
  PROVE  LinesFrom(Append(rs, r), 1) = LinesFrom(rs, 1) + r.lines
<1>. DEFINE n == Len(rs)
            A == {n + 1} \X (1 .. r.lines)
            B == Cells(rs, 1)
            ss == Append(rs, r)
<1>1. n \in Nat /\ r.lines \in Nat
  BY LenProperties DEF Rows
<1>2. IsFiniteSet(A) /\ Cardinality(A) = r.lines
  BY <1>1, LinesOfRow
<1>3. IsFiniteSet(B) /\ Cardinality(B) \in Nat
  BY <1>1, CellsAre, FS_CardinalityType
<1>4. Len(ss) = n + 1 /\ ss[n + 1] = r /\ \A i \in 1 .. n : ss[i] = rs[i]
  BY <1>1, AppendProperties
<1>5. B \cap A = {} /\ B \cup A = Cells(ss, 1)
  <2>1. \A i : i \in 1 .. Len(ss) <=> (i = n + 1 \/ i \in 1 .. n)
    BY <1>1, <1>4
  <2>2. n + 1 \notin 1 .. n
    BY <1>1
  <2>. HIDE DEF ss, n
  <2>3. B = UNION {{i} \X (1 .. rs[i].lines) : i \in 1 .. n}
    BY DEF Cells, n
  <2>4. Cells(ss, 1) = UNION {{i} \X (1 .. ss[i].lines) : i \in 1 .. Len(ss)}
    BY DEF Cells
  <2>. QED BY <1>4, <2>1, <2>2, <2>3, <2>4
<1>6. Cardinality(B \cup A) = Cardinality(B) + Cardinality(A)
  <2>. HIDE DEF A, B
  <2>. QED BY <1>2, <1>3, <1>5, DisjointUnion
<1>. QED BY <1>2, <1>5, <1>6 DEF LinesFrom

(* Sorting keeps the number of lines, because it moves the lines of a row  *)
(* to another place and none is lost.                                      *)
LEMMA LinesOfSorted ==
  ASSUME NEW rs \in Seq(Rows), NEW ss \in TimeSorted(rs)
  PROVE  LinesFrom(ss, 1) = LinesFrom(rs, 1)
<1>1. PICK p \in Bijection(DOMAIN rs, DOMAIN rs) : ss = [i \in DOMAIN rs |-> rs[p[i]]]
  BY DEF TimeSorted
<1>2. /\ Len(rs) \in Nat /\ DOMAIN rs = 1 .. Len(rs) /\ ss \in Seq(Rows)
      /\ Len(ss) = Len(rs) /\ 1 \in Nat \ {0}
  BY LenProperties, TimeSortedType
<1>3. /\ p \in [DOMAIN rs -> DOMAIN rs]
      /\ \A i, j \in DOMAIN rs : p[i] = p[j] => i = j
      /\ \A j \in DOMAIN rs : \E i \in DOMAIN rs : p[i] = j
  BY DEF Bijection, Injection, IsInjective, Surjection
<1>. DEFINE f == [c \in Cells(ss, 1) |-> <<p[c[1]], c[2]>>]
<1>4. \A c : c \in Cells(rs, 1) <=>
        c = <<c[1], c[2]>> /\ c[1] \in 1 .. Len(rs) /\ c[2] \in 1 .. rs[c[1]].lines
  BY <1>2, CellsAre
<1>5. \A c : c \in Cells(ss, 1) <=>
        c = <<c[1], c[2]>> /\ c[1] \in 1 .. Len(rs) /\ c[2] \in 1 .. rs[p[c[1]]].lines
  <2>1. \A c : c \in Cells(ss, 1) <=>
          c = <<c[1], c[2]>> /\ c[1] \in 1 .. Len(ss) /\ c[2] \in 1 .. ss[c[1]].lines
    BY <1>2, CellsAre
  <2>. QED BY <1>1, <1>2, <2>1
<1>6. f \in [Cells(ss, 1) -> Cells(rs, 1)]
  <2>1. ASSUME NEW c \in Cells(ss, 1)
        PROVE  <<p[c[1]], c[2]>> \in Cells(rs, 1)
    <3>1. c[1] \in DOMAIN rs /\ c[2] \in 1 .. rs[p[c[1]]].lines
      BY <1>2, <1>5
    <3>. DEFINE i == p[c[1]]
                j == c[2]
                d == <<i, j>>
    <3>2. i \in 1 .. Len(rs) /\ j \in 1 .. rs[i].lines
      BY <1>2, <1>3, <3>1
    <3>. HIDE DEF i, j
    <3>3. d[1] = i /\ d[2] = j /\ d = <<d[1], d[2]>>
      OBVIOUS
    <3>. HIDE DEF d
    <3>4. d \in Cells(rs, 1)
      BY <1>4, <3>2, <3>3
    <3>. QED BY <3>4 DEF d, i, j
  <2>. QED BY <2>1
<1>7. \A c, d \in Cells(ss, 1) : f[c] = f[d] => c = d
  <2>1. ASSUME NEW c \in Cells(ss, 1), NEW d \in Cells(ss, 1), f[c] = f[d]
        PROVE  c = d
    <3>1. p[c[1]] = p[d[1]] /\ c[2] = d[2]
      <4>1. f[c] = <<p[c[1]], c[2]>> /\ f[d] = <<p[d[1]], d[2]>>
        OBVIOUS
      <4>. HIDE DEF f
      <4>2. <<p[c[1]], c[2]>> = <<p[d[1]], d[2]>>
        BY <2>1, <4>1
      <4>. QED BY <4>2
    <3>2. c[1] \in DOMAIN rs /\ d[1] \in DOMAIN rs
      BY <1>2, <1>5
    <3>3. c[1] = d[1]
      <4>1. \A i, j \in DOMAIN rs : p[i] = p[j] => i = j
        BY <1>3
      <4>. HIDE DEF f
      <4>. QED BY <3>1, <3>2, <4>1, Zenon
    <3>4. c = <<c[1], c[2]>> /\ d = <<d[1], d[2]>>
      BY <1>5
    <3>5. <<c[1], c[2]>> = <<d[1], d[2]>>
      BY <3>1, <3>3, Zenon
    <3>. HIDE DEF f
    <3>. QED BY <3>4, <3>5, Zenon
  <2>. QED BY <2>1
<1>8. \A d \in Cells(rs, 1) : \E c \in Cells(ss, 1) : f[c] = d
  <2>1. ASSUME NEW d \in Cells(rs, 1)
        PROVE  \E c \in Cells(ss, 1) : f[c] = d
    <3>1. d = <<d[1], d[2]>> /\ d[1] \in 1 .. Len(rs) /\ d[2] \in 1 .. rs[d[1]].lines
      BY <1>4
    <3>2. PICK i \in DOMAIN rs : p[i] = d[1]
      BY <1>2, <1>3, <3>1
    <3>3. <<i, d[2]>> \in Cells(ss, 1)
      BY <1>2, <1>5, <3>1, <3>2
    <3>4. f[<<i, d[2]>>] = <<p[i], d[2]>>
      BY <3>3
    <3>. QED BY <3>1, <3>2, <3>3, <3>4
  <2>. QED BY <2>1
<1>9. f \in Bijection(Cells(ss, 1), Cells(rs, 1))
  BY <1>6, <1>7, <1>8 DEF Bijection, Injection, IsInjective, Surjection
<1>10. IsFiniteSet(Cells(ss, 1))
  BY <1>2, CellsAre
<1>11. ExistsBijection(Cells(ss, 1), Cells(rs, 1))
  BY <1>9 DEF ExistsBijection
<1>. QED BY <1>10, <1>11, FS_Bijection DEF LinesFrom

-----------------------------------------------------------------------------
(* Why the totals have no gap.  The loader counts the lines it reads; a    *)
(* thread begins at the lines of the hours before its own, which are those *)
(* of the journal when it begins, and adds its rows; when it is done, the  *)
(* journal's last total is what the loader passes to the next thread.      *)
Chained(rs) ==
  \A i \in DOMAIN rs : rs[i].agr = rs[i].lines + (IF i = 1 THEN 0 ELSE rs[i - 1].agr)

TotalAtEnd(rs) == IF rs = << >> THEN 0 ELSE rs[Len(rs)].agr

WrittenIsChained == Chained(journal \o pending)

ThreadGoesOn ==
  \A t \in DOMAIN threads : HasRows(t) =>
    /\ threads[t].agr = TotalAtEnd(journal \o pending)
    /\ Reading => threads[t].agr + LinesFrom(threads[t].rows, threads[t].next) = countLines

TotalHandedOver ==
  Reading /\ (\A t \in DOMAIN threads : ~HasRows(t)) =>
    countLines = TotalAtEnd(journal \o pending)

LinesRead == Reading => countCur = countLines + LinesFrom(records, 1)

ChainParts == WrittenIsChained /\ ThreadGoesOn /\ TotalHandedOver /\ LinesRead

ChainInv == OrderInv /\ ChainParts

(* Nothing is written at first.                                            *)
LEMMA ChainInit == Init => ChainInv
<1>. SUFFICES ASSUME Init PROVE ChainInv
  OBVIOUS
<1>1. journal \o pending = << >>
  BY EmptySeq, ConcatEmptySeq DEF Init
<1>. QED BY <1>1, OrderInit DEF Init, ChainInv, ChainParts, WrittenIsChained, ThreadGoesOn,
                              TotalHandedOver, LinesRead, Chained, Reading

(* A row with the next total goes on with the chain.                       *)
LEMMA ChainAppend ==
  ASSUME NEW rs \in Seq(Rows), NEW r \in Rows, Chained(rs), r.agr = TotalAtEnd(rs) + r.lines
  PROVE  Chained(Append(rs, r)) /\ TotalAtEnd(Append(rs, r)) = r.agr
<1>. DEFINE n == Len(rs)
            ss == Append(rs, r)
<1>1. /\ n \in Nat /\ DOMAIN rs = 1 .. n /\ DOMAIN ss = 1 .. n + 1 /\ Len(ss) = n + 1
      /\ ss[n + 1] = r /\ (\A i \in 1 .. n : ss[i] = rs[i]) /\ ss # << >>
      /\ r.lines \in Nat /\ (rs = << >> <=> n = 0)
  <2>1. /\ n \in Nat /\ DOMAIN rs = 1 .. n /\ r.lines \in Nat /\ (rs = << >> <=> n = 0)
    BY LenProperties, EmptySeq DEF Rows
  <2>2. /\ ss \in Seq(Rows) /\ Len(ss) = n + 1 /\ ss[n + 1] = r /\ \A i \in 1 .. n : ss[i] = rs[i]
    BY <2>1, AppendProperties
  <2>. HIDE DEF ss, n
  <2>3. DOMAIN ss = 1 .. n + 1 /\ ss # << >>
    BY <2>1, <2>2, LenProperties, EmptySeq
  <2>. QED BY <2>1, <2>2, <2>3
<1>. HIDE DEF ss, n
<1>2. ASSUME NEW i \in 1 .. n + 1
      PROVE  ss[i].agr = ss[i].lines + (IF i = 1 THEN 0 ELSE ss[i - 1].agr)
  <2>1. CASE i \in 1 .. n
    <3>1. i # 1 => i - 1 \in 1 .. n
      BY <1>1, <2>1
    <3>. QED BY <1>1, <2>1, <3>1 DEF Chained
  <2>2. CASE i = n + 1
    <3>1. CASE n = 0
      <4>1. rs = << >> /\ ss[i] = r /\ i = 1
        BY <1>1, <2>2, <3>1
      <4>. QED BY <1>1, <4>1 DEF TotalAtEnd
    <3>2. CASE n # 0
      <4>1. rs # << >> /\ ss[i] = r /\ i # 1 /\ i - 1 = n /\ ss[n] = rs[n]
        BY <1>1, <2>2, <3>2
      <4>2. rs[n].agr \in Nat
        <5>1. n \in 1 .. Len(rs)
          BY <1>1, <3>2 DEF n
        <5>2. rs[n] \in Rows
          BY <5>1, ElementOfSeq
        <5>. QED BY <5>2 DEF Rows
      <4>. QED BY <1>1, <4>1, <4>2 DEF TotalAtEnd, n
    <3>. QED BY <3>1, <3>2
  <2>. QED BY <1>1, <2>1, <2>2
<1>3. Chained(ss)
  BY <1>1, <1>2 DEF Chained
<1>4. TotalAtEnd(ss) = r.agr
  BY <1>1 DEF TotalAtEnd
<1>. QED BY <1>3, <1>4 DEF ss

(* What is appended to the pending rows is appended to all written rows.   *)
LEMMA ConcatAppend ==
  ASSUME NEW a \in Seq(Rows), NEW b \in Seq(Rows), NEW r \in Rows
  PROVE  a \o Append(b, r) = Append(a \o b, r)
<1>1. << r >> \in Seq(Rows) /\ a \o b \in Seq(Rows)
  BY ConcatProperties
<1>2. Append(b, r) = b \o << r >> /\ Append(a \o b, r) = (a \o b) \o << r >>
  BY <1>1, AppendIsConcat
<1>. QED BY <1>1, <1>2, ConcatAssociative

(* The first rows of a chain are one.                                      *)
LEMMA ChainPrefix ==
  ASSUME NEW a \in Seq(Rows), NEW b \in Seq(Rows), NEW n \in 0 .. Len(b), Chained(a \o b)
  PROVE  Chained(a \o SubSeq(b, 1, n))
<1>. DEFINE c == SubSeq(b, 1, n)
            whole == a \o b
            part == a \o c
<1>1. /\ c \in Seq(Rows) /\ DOMAIN c \subseteq DOMAIN b /\ \A i \in DOMAIN c : c[i] = b[i]
  BY PrefixRows
<1>. HIDE DEF c
<1>2. /\ Len(a) \in Nat /\ Len(b) \in Nat /\ Len(c) \in Nat
      /\ DOMAIN b = 1 .. Len(b) /\ DOMAIN c = 1 .. Len(c)
      /\ DOMAIN whole = 1 .. Len(a) + Len(b) /\ DOMAIN part = 1 .. Len(a) + Len(c)
      /\ \A i \in 1 .. Len(a) + Len(b) : whole[i] = IF i <= Len(a) THEN a[i] ELSE b[i - Len(a)]
      /\ \A i \in 1 .. Len(a) + Len(c) : part[i] = IF i <= Len(a) THEN a[i] ELSE c[i - Len(a)]
  BY <1>1, ConcatProperties, LenProperties
<1>. HIDE DEF whole, part
<1>3. ASSUME NEW i \in DOMAIN part
      PROVE  i \in DOMAIN whole /\ part[i] = whole[i]
  <2>1. CASE i <= Len(a)
    BY <1>2, <2>1
  <2>2. CASE i > Len(a)
    <3>1. i - Len(a) \in DOMAIN c
      BY <1>2, <2>2
    <3>2. i - Len(a) \in DOMAIN b /\ c[i - Len(a)] = b[i - Len(a)]
      BY <1>1, <3>1
    <3>. QED BY <1>2, <2>2, <3>2
  <2>. QED BY <1>2, <2>1, <2>2
<1>4. \A i \in DOMAIN part : i # 1 => i - 1 \in DOMAIN part
  BY <1>2
<1>5. Chained(part)
  BY <1>3, <1>4 DEF Chained, whole
<1>. QED BY <1>5 DEF part, c
-----------------------------------------------------------------------------
(* The loader reads an hour and hands its lines over.                      *)
LEMMA ChainKept ==
  ASSUME ChainParts, UNCHANGED <<journal, pending, threads>>
  PROVE  /\ WrittenIsChained'
         /\ (Reading' => Reading) /\ countLines' = countLines => ThreadGoesOn' /\ TotalHandedOver'
BY DEF ChainParts, WrittenIsChained, ThreadGoesOn, TotalHandedOver, HasRows, Writing

(* A new thread gets the lines of the hours before its own.                *)
LEMMA ChainHandOver ==
  ASSUME ChainInv, HandOver, UNCHANGED <<journal, pending>>, Reading,
         Reading' => countLines' = countCur /\ countCur' = countCur
  PROVE  ChainParts'
<1>. USE DEF ChainInv, OrderInv
<1>1. /\ threads \in Seq(Threads) /\ records \in Seq(Rows) /\ ~mutex
      /\ countLines \in Nat /\ countCur \in Nat
  BY DEF WriterInv, TypeInv, TypeOK, HandOver
<1>2. PICK rs \in TimeSorted(records) : threads' = Append(threads, NewThread(rs))
  BY DEF HandOver
<1>. DEFINE n == Len(threads) + 1
            new == NewThread(rs)
<1>3. rs \in Seq(Rows) /\ LinesFrom(rs, 1) = LinesFrom(records, 1)
  BY <1>1, <1>2, TimeSortedType, LinesOfSorted
<1>4. /\ new \in Threads /\ new.rows = rs /\ new.pc = "begin" /\ new.next = 1
      /\ new.agr = countLines
  BY <1>3 DEF NewThread, Threads, WriterInv, TypeInv, TypeOK
<1>5. /\ DOMAIN threads' = DOMAIN threads \cup {n}
      /\ \A u \in DOMAIN threads : u # n /\ threads'[u] = threads[u]
      /\ threads'[n] = new
  <2>. HIDE DEF new
  <2>. QED BY <1>1, <1>2, <1>4, AppendProperties, LenProperties DEF new
<1>6. \A u \in DOMAIN threads : threads[u].pc = "done"
  BY <1>1 DEF WriterInv, WriterParts, OneAtWork
<1>7. \A u \in DOMAIN threads' : (HasRows(u)' => u = n)
  BY <1>5, <1>6 DEF HasRows, Writing, InsideTransaction
<1>8. countLines = TotalAtEnd(journal \o pending)
  BY <1>6 DEF ChainParts, TotalHandedOver, HasRows, Writing, InsideTransaction
<1>9. countCur = countLines + LinesFrom(rs, 1)
  BY <1>3 DEF ChainParts, LinesRead
<1>10. WrittenIsChained'
  BY DEF ChainParts, WrittenIsChained
<1>11. ThreadGoesOn'
  <2>. HIDE DEF new
  <2>. QED BY <1>4, <1>5, <1>7, <1>8, <1>9 DEF ThreadGoesOn
<1>12. TotalHandedOver'
  <2>. HIDE DEF new, n
  <2>1. \E u \in DOMAIN threads' : HasRows(u)'
    BY <1>4, <1>5 DEF HasRows
  <2>. QED BY <2>1 DEF TotalHandedOver
<1>13. LinesRead'
  <2>1. records' = << >>
    BY DEF HandOver
  <2>2. LinesFrom(records', 1) = 0
    <3>1. 1 .. Len(records') = {}
      BY <2>1
    <3>. QED BY <3>1, NoLinesLeft
  <2>. QED BY <1>1, <2>2 DEF LinesRead
<1>. QED BY <1>10, <1>11, <1>12, <1>13 DEF ChainParts

(* No step of the loader breaks the chain.                                 *)
LEMMA ChainLoader ==
  ASSUME ChainInv, LoaderNext, OrderInv'
  PROVE  ChainParts'
<1>. USE DEF dbVars, txnVars, readVars, loaderVars, ChainInv
<1>1. ASSUME UNCHANGED <<journal, pending, threads>>,
             Reading' => Reading /\ UNCHANGED <<countLines, countCur, records>>
      PROVE  ChainParts'
  <2>1. WrittenIsChained' /\ (Reading' => ThreadGoesOn' /\ TotalHandedOver')
    BY <1>1, ChainKept
  <2>2. ~Reading' => ThreadGoesOn' /\ TotalHandedOver'
    BY <1>1 DEF ChainParts, ThreadGoesOn, TotalHandedOver, HasRows, Writing
  <2>3. LinesRead'
    BY <1>1 DEF ChainParts, LinesRead
  <2>. QED BY <2>1, <2>2, <2>3 DEF ChainParts
<1>2. CASE OpenNew
  BY <1>1, <1>2 DEF OpenNew, Reading
<1>3. CASE CreateDb
  BY <1>1, <1>3 DEF CreateDb, Reading
<1>4. CASE OpenExisting
  BY <1>1, <1>4 DEF OpenExisting, Reading
<1>5. CASE ListFiles
  BY <1>1, <1>5 DEF ListFiles, Reading
<1>6. CASE CommitFiles
  BY <1>1, <1>6 DEF CommitFiles, Reading
<1>7. CASE LoadFiles
  BY <1>1, <1>7 DEF LoadFiles, Reading
<1>8. CASE BeginReadFiles
  <2>1. journal = << >> /\ threads = << >>
    BY <1>8 DEF BeginReadFiles, OrderInv, OrderParts, EmptyAtFirst, WriterInv, WriterParts, NoThreadYet,
                BeforeReading
  <2>2. pending = << >>
    BY <2>1 DEF OrderInv, WriterInv, WriterParts, PendingIsWritten
  <2>3. /\ journal' = << >> /\ threads' = << >> /\ pending' = << >> /\ records' = << >>
        /\ countLines' = 0 /\ countCur' = 0
    BY <1>8, <2>1, <2>2 DEF BeginReadFiles
  <2>4. journal' \o pending' = << >>
    BY <2>3, EmptySeq, ConcatEmptySeq
  <2>5. LinesFrom(records', 1) = 0
    <3>1. 1 .. Len(records') = {}
      BY <2>3
    <3>. QED BY <3>1, NoLinesLeft
  <2>. QED BY <2>3, <2>4, <2>5 DEF ChainParts, WrittenIsChained, ThreadGoesOn, TotalHandedOver,
                                   LinesRead, Chained, TotalAtEnd
<1>9. CASE HourEnds
  BY <1>9, ChainHandOver DEF HourEnds, Reading
<1>10. CASE OpenFile
  BY <1>1, <1>10 DEF OpenFile, Reading
<1>11. CASE ReadEvent
  <2>1. Reading /\ Reading' /\ UNCHANGED <<journal, pending, threads, countLines>>
    BY <1>11 DEF ReadEvent, Reading
  <2>2. PICK r : records' = Append(records, r) /\ countCur' = countCur + r.lines /\ r \in Rows
    <3>. DEFINE e == Events[files[cur]][evt]
                r == [file_id |-> cur - 1, start |-> evt,
                      time |-> Hour[files[cur]] * HourSpan + e.offset,
                      lines |-> e.lines, agr |-> 0,
                      process_id |-> dict["process"][Process[files[cur]]],
                      event_id |-> IdOf("event", e.name)]
    <3>1. records' = Append(records, r) /\ countCur' = countCur + r.lines
      BY <1>11 DEF ReadEvent
    <3>2. r \in Rows
      <4>. HIDE DEF r
      <4>1. records \in Seq(Rows \cup {r}) /\ records' \in Seq(Rows)
        <5>1. records \in Seq(Rows) /\ records' \in Seq(Rows)
          BY DEF OrderInv, WriterInv, TypeInv, TypeOK
        <5>. QED BY <5>1, SeqMonotonic
      <4>2. /\ Len(records') = Len(records) + 1 /\ records'[Len(records) + 1] = r
            /\ Len(records) \in Nat
        BY <3>1, <4>1, AppendProperties, LenProperties
      <4>3. Len(records) + 1 \in 1 .. Len(records')
        BY <4>2
      <4>. QED BY <4>1, <4>2, <4>3, ElementOfSeq
    <3>. HIDE DEF r
    <3>. QED BY <3>1, <3>2
  <2>3. LinesFrom(records', 1) = LinesFrom(records, 1) + r.lines
    BY <2>2, LinesOfAppended DEF OrderInv, WriterInv, TypeInv, TypeOK
  <2>4. countCur = countLines + LinesFrom(records, 1)
    BY <2>1 DEF ChainParts, LinesRead
  <2>5. r.lines \in Nat /\ countLines \in Nat /\ LinesFrom(records, 1) \in Nat
    <3>1. r.lines \in Nat
      BY <2>2 DEF Rows
    <3>2. countLines \in Nat /\ records \in Seq(Rows)
      BY DEF OrderInv, WriterInv, TypeInv, TypeOK
    <3>. QED BY <3>1, <3>2, CellsAre
  <2>6. LinesRead'
    BY <2>1, <2>2, <2>3, <2>4, <2>5 DEF LinesRead
  <2>. QED BY <2>1, <2>6, ChainKept DEF ChainParts
<1>12. CASE CloseFile
  BY <1>1, <1>12 DEF CloseFile, Reading
<1>13. CASE FilesEnd
  <2>1. CASE time # 0
    BY <1>13, <2>1, ChainHandOver DEF FilesEnd, Reading
  <2>2. CASE time = 0
    BY <1>1, <1>13, <2>2 DEF FilesEnd, Reading
  <2>. QED BY <2>1, <2>2
<1>14. CASE LastHourWritten
  BY <1>1, <1>14 DEF LastHourWritten, Reading
<1>15. CASE WriteStatus
  BY <1>1, <1>15 DEF WriteStatus, Reading
<1>16. CASE ShowStatus
  BY <1>1, <1>16 DEF ShowStatus, Reading
<1>17. CASE FilesAreRead
  BY <1>1, <1>17 DEF FilesAreRead, Reading
<1>. QED BY <1>2, <1>3, <1>4, <1>5, <1>6, <1>7, <1>8, <1>9, <1>10, <1>11, <1>12, <1>13,
            <1>14, <1>15, <1>16, <1>17 DEF LoaderNext
-----------------------------------------------------------------------------
(* A thread adds its rows, and the process may die while it does.          *)
LEMMA ChainCommitter ==
  ASSUME ChainInv, NEW t \in DOMAIN threads, CommitterNext(t), OrderInv'
  PROVE  ChainParts'
<1>. USE DEF dbVars, txnVars, readVars, loaderVars, ChainInv
<1>1. /\ threads[t] \in Threads /\ threads[t].rows \in Seq(Rows)
      /\ journal \in Seq(Rows) /\ pending \in Seq(Rows) /\ threads \in Seq(Threads)
      /\ journal \o pending \in Seq(Rows) /\ countLines \in Nat
  <2>1. /\ journal \in Seq(Rows) /\ pending \in Seq(Rows) /\ threads \in Seq(Threads)
        /\ countLines \in Nat
    BY DEF OrderInv, WriterInv, TypeInv, TypeOK
  <2>. QED BY <2>1, ThreadsOfSeq, ConcatProperties DEF OrderInv
<1>2. \A u \in DOMAIN threads : HasRows(u) => u = t
  <2>1. threads[t].pc # "done"
    BY DEF CommitterNext, Begin, SaveEntity, InsertEvent, EventsEnd, Commit, Unlock
  <2>. QED BY <2>1 DEF OrderInv, WriterInv, WriterParts, OneAtWork, HasRows, Writing, InsideTransaction
<1>3. ASSUME NEW q \in {"begin", "unlock", "done"} \cup InsideTransaction,
             threads' = [threads EXCEPT ![t].pc = q]
      PROVE  /\ DOMAIN threads' = DOMAIN threads
             /\ \A u \in DOMAIN threads : u # t => threads'[u] = threads[u]
             /\ threads'[t].pc = q /\ threads'[t].rows = threads[t].rows
             /\ threads'[t].next = threads[t].next /\ threads'[t].agr = threads[t].agr
  <2>1. threads'[t] = [threads[t] EXCEPT !.pc = q]
    BY <1>1, <1>3, ThreadStep
  <2>. QED BY <1>1, <1>3, <2>1, ThreadStep DEF Threads
<1>4. ASSUME NEW q \in {"begin", "unlock", "done"} \cup InsideTransaction,
             threads' = [threads EXCEPT ![t].pc = q],
             HasRows(t) <=> q \in {"begin"} \cup InsideTransaction,
             journal' \o pending' = journal \o pending,
             UNCHANGED <<pc, countLines, countCur, records>>
      PROVE  ChainParts'
  <2>1. /\ DOMAIN threads' = DOMAIN threads
        /\ \A u \in DOMAIN threads : u # t => threads'[u] = threads[u]
        /\ threads'[t].pc = q /\ threads'[t].rows = threads[t].rows
        /\ threads'[t].next = threads[t].next /\ threads'[t].agr = threads[t].agr
    BY <1>3, <1>4
  <2>2. \A u \in DOMAIN threads : HasRows(u)' <=> HasRows(u)
    BY <1>4, <2>1 DEF HasRows, Writing, InsideTransaction
  <2>3. WrittenIsChained'
    BY <1>4 DEF ChainParts, WrittenIsChained
  <2>4. ThreadGoesOn'
    BY <1>2, <1>4, <2>1, <2>2 DEF ChainParts, ThreadGoesOn, Reading
  <2>5. TotalHandedOver'
    BY <1>4, <2>1, <2>2 DEF ChainParts, TotalHandedOver, Reading
  <2>6. LinesRead'
    BY <1>4 DEF ChainParts, LinesRead, Reading
  <2>. QED BY <2>3, <2>4, <2>5, <2>6 DEF ChainParts
<1>5. CASE Begin(t)
  <2>1. ~txn
    BY <1>5, BegunOutside DEF OrderInv
  <2>. QED BY <1>4, <1>5, <2>1 DEF Begin, HasRows, InsideTransaction
<1>6. CASE SaveEntity(t)
  BY <1>4, <1>6 DEF SaveEntity, HasRows, Writing, InsideTransaction
<1>7. CASE EventsEnd(t)
  BY <1>4, <1>7 DEF EventsEnd, HasRows, Writing, InsideTransaction
<1>8. CASE Unlock(t)
  BY <1>4, <1>8 DEF Unlock, HasRows, Writing, InsideTransaction
<1>9. CASE Commit(t)
  <2>1. Writing(t) /\ HasRows(t) /\ txn
    BY <1>9 DEF Commit, HasRows, Writing, InsideTransaction, OrderInv, WriterInv, WriterParts, TxnHeld, LoadOwns
  <2>2. /\ threads' = [threads EXCEPT ![t].pc = "unlock"] /\ pending' = << >>
        /\ journal' = journal \o pending
        /\ UNCHANGED <<pc, countLines, countCur, records>>
    BY <1>9, <2>1 DEF Commit
  <2>3. journal' \o pending' = journal \o pending
    BY <1>1, <2>2, ConcatEmptySeq
  <2>4. \A u \in DOMAIN threads' : ~HasRows(u)'
    BY <1>2, <1>3, <2>2 DEF HasRows, Writing, InsideTransaction
  <2>5. ASSUME Reading
        PROVE  countLines = TotalAtEnd(journal \o pending)
    <3>1. threads[t].next .. Len(threads[t].rows) = {}
      <4>1. threads[t].next \notin DOMAIN threads[t].rows /\ threads[t].next \in Nat \ {0}
        BY <1>1, <1>9, <2>1 DEF Commit, OrderInv, WriterInv, WriterParts, PendingIsWritten, Threads
      <4>. QED BY <1>1, <4>1, LenProperties
    <3>2. LinesFrom(threads[t].rows, threads[t].next) = 0
      BY <3>1, NoLinesLeft
    <3>3. threads[t].agr \in Nat
      BY <1>1 DEF Threads
    <3>. QED BY <2>1, <2>5, <3>2, <3>3 DEF ChainParts, ThreadGoesOn
  <2>6. WrittenIsChained' /\ LinesRead'
    BY <2>2, <2>3 DEF ChainParts, WrittenIsChained, LinesRead, Reading
  <2>7. ThreadGoesOn'
    BY <2>4 DEF ThreadGoesOn
  <2>8. TotalHandedOver'
    BY <2>2, <2>3, <2>5 DEF TotalHandedOver, Reading
  <2>. QED BY <2>6, <2>7, <2>8 DEF ChainParts
<1>10. CASE InsertEvent(t)
  <2>. DEFINE k == threads[t].next
              r == threads[t].rows[k]
              a == threads[t].agr + r.lines
              new == [threads[t] EXCEPT !.next = k + 1, !.agr = a]
              row == [r EXCEPT !.agr = a]
              whole == journal \o pending
  <2>1. /\ threads[t].pc = "insert" /\ k \in DOMAIN threads[t].rows
        /\ threads' = [threads EXCEPT ![t] = new] /\ pending' = Append(pending, row)
        /\ UNCHANGED <<pc, countLines, countCur, records, journal>>
    BY <1>10 DEF InsertEvent
  <2>2. HasRows(t)
    BY <2>1 DEF Writing, HasRows, InsideTransaction
  <2>3. /\ DOMAIN threads' = DOMAIN threads /\ threads'[t] = new
        /\ \A u \in DOMAIN threads : u # t => threads'[u] = threads[u]
    BY <1>1, <2>1, LenProperties
  <2>4. /\ new.rows = threads[t].rows /\ new.next = k + 1 /\ new.agr = a /\ new.pc = "insert"
        /\ k \in Nat /\ threads[t].agr \in Nat
    BY <1>1, <2>1 DEF Threads
  <2>5. r \in Rows /\ r.lines \in Nat /\ a \in Nat
    <3>1. r \in Rows
      BY <1>1, <2>1, RowsOfSeq
    <3>. QED BY <2>4, <3>1 DEF Rows
  <2>6. row \in Rows /\ row.agr = a /\ row.lines = r.lines
    <3>. HIDE DEF a, r
    <3>. QED BY <2>5 DEF Rows
  <2>. HIDE DEF row, new, whole
  <2>7. journal' \o pending' = Append(whole, row)
    <3>1. pending' \in Seq(Rows) /\ whole \in Seq(Rows)
      BY <1>1, <2>1, <2>6, AppendProperties DEF whole
    <3>. QED BY <1>1, <2>1, <2>6, ConcatAppend DEF whole
  <2>8. Chained(whole) /\ threads[t].agr = TotalAtEnd(whole)
    BY <2>2 DEF ChainParts, WrittenIsChained, ThreadGoesOn, whole
  <2>9. Chained(Append(whole, row)) /\ TotalAtEnd(Append(whole, row)) = a
    BY <1>1, <2>6, <2>8, ChainAppend DEF whole
  <2>10. k \in 1 .. Len(threads[t].rows)
    BY <1>1, <2>1, LenProperties
  <2>11. LinesFrom(threads[t].rows, k) = r.lines + LinesFrom(threads[t].rows, k + 1)
    BY <1>1, <2>10, LinesOfFirst
  <2>12. LinesFrom(threads[t].rows, k + 1) \in Nat
    <3>1. k + 1 \in Nat \ {0} /\ threads[t].rows \in Seq(Rows)
      BY <1>1, <2>4
    <3>. HIDE DEF k
    <3>. QED BY <3>1, CellsAre
  <2>13. Reading => a + LinesFrom(threads[t].rows, k + 1) = countLines
    <3>1. Reading => threads[t].agr + LinesFrom(threads[t].rows, k) = countLines
      BY <2>2 DEF ChainParts, ThreadGoesOn
    <3>. HIDE DEF k, r
    <3>. QED BY <2>4, <2>5, <2>11, <2>12, <3>1
  <2>. HIDE DEF a, k, r
  <2>14. \A u \in DOMAIN threads' : HasRows(u)' => u = t
    BY <1>2, <2>3 DEF HasRows, Writing
  <2>15. \E u \in DOMAIN threads' : HasRows(u)'
    BY <2>3, <2>4 DEF HasRows, Writing, InsideTransaction
  <2>16. ThreadGoesOn'
    BY <2>1, <2>3, <2>4, <2>7, <2>9, <2>13, <2>14 DEF ThreadGoesOn, Reading
  <2>17. WrittenIsChained' /\ TotalHandedOver' /\ LinesRead'
    BY <2>1, <2>7, <2>9, <2>15
       DEF ChainParts, WrittenIsChained, TotalHandedOver, LinesRead, Reading
  <2>. QED BY <2>16, <2>17 DEF ChainParts
<1>. QED BY <1>5, <1>6, <1>7, <1>8, <1>9, <1>10 DEF CommitterNext

(* A dying process keeps the first rows of a transaction, or none.         *)
LEMMA ChainKill ==
  ASSUME ChainInv, Kill
  PROVE  ChainParts'
<1>1. journal \in Seq(Rows) /\ pending \in Seq(Rows)
  BY DEF ChainInv, OrderInv, WriterInv, TypeInv, TypeOK
<1>2. PICK n \in 0 .. Len(pending) : journal' = journal \o SubSeq(pending, 1, n)
  BY DEF Kill
<1>3. Chained(journal')
  BY <1>1, <1>2, ChainPrefix DEF ChainInv, ChainParts, WrittenIsChained
<1>4. journal' \o pending' = journal'
  <2>1. journal' \in Seq(Rows)
    BY <1>1, <1>2, PrefixRows, ConcatProperties
  <2>. QED BY <2>1, ConcatEmptySeq DEF Kill
<1>5. threads' = << >> /\ pc' = "start"
  BY DEF Kill
<1>. QED BY <1>3, <1>4, <1>5
         DEF ChainParts, WrittenIsChained, ThreadGoesOn, TotalHandedOver, LinesRead, Reading

(* No step does.                                                           *)
LEMMA ChainNext == ChainInv /\ WriterInv' /\ [Next]_vars => ChainInv'
<1>. SUFFICES ASSUME ChainInv, WriterInv', [Next]_vars PROVE ChainInv'
  OBVIOUS
<1>1. OrderInv'
  BY OrderNext DEF ChainInv
<1>2. CASE LoaderNext
  BY <1>1, <1>2, ChainLoader DEF ChainInv
<1>3. CASE \E t \in DOMAIN threads : CommitterNext(t)
  BY <1>1, <1>3, ChainCommitter DEF ChainInv
<1>4. CASE Kill
  BY <1>1, <1>4, ChainKill DEF ChainInv
<1>5. CASE Ended \/ UNCHANGED vars
  BY <1>1, <1>5
     DEF Ended, vars, dbVars, txnVars, readVars, loaderVars, ChainInv, ChainParts,
         WrittenIsChained, ThreadGoesOn, TotalHandedOver, LinesRead, Reading, HasRows, Writing
<1>. QED BY <1>2, <1>3, <1>4, <1>5 DEF Next

(* The total of a row of the journal is the lines of all the rows up to    *)
(* it, whatever threads wrote them and wherever a dying process left off:  *)
(* the viewer pages by it.                                                 *)
THEOREM TotalsWithoutGap == Spec => []LineChain
<1>1. ChainInv => LineChain
  <2>. SUFFICES ASSUME ChainInv PROVE LineChain
    OBVIOUS
  <2>1. journal \in Seq(Rows) /\ pending \in Seq(Rows) /\ 0 \in 0 .. Len(pending)
    <3>1. journal \in Seq(Rows) /\ pending \in Seq(Rows)
      BY DEF ChainInv, OrderInv, WriterInv, TypeInv, TypeOK
    <3>. QED BY <3>1, LenProperties
  <2>2. journal \o SubSeq(pending, 1, 0) = journal
    BY <2>1, SubSeqEmpty, ConcatEmptySeq
  <2>3. Chained(journal)
    BY <2>1, <2>2, ChainPrefix DEF ChainInv, ChainParts, WrittenIsChained
  <2>. QED BY <2>3 DEF Chained, LineChain
<1>. QED BY <1>1, WritersAlways, ChainInit, ChainNext, PTL DEF Spec

-----------------------------------------------------------------------------
(* What the journal holds: what a row leads to (its event in its file, at  *)
(* its time, and, in an index that is complete or being built, its names   *)
(* in the dictionaries), that a complete journal has every event once, and *)
(* that it is built step by step as JournalIndex says.                     *)

(* A row leads to an event through a table of files, and refers to a name  *)
(* of each dictionary.                                                     *)
EventIn(table, r) == <<table[r.file_id + 1], r.start>>

LocatedIn(table, r) ==
  /\ r.file_id + 1 \in DOMAIN table
  /\ EventIn(table, r) \in IndexedEvents
  /\ r.time = TimeOf(EventIn(table, r))

RefIn(table, k, r) ==
  IF k = "process" THEN <<r.process_id, Process[EventIn(table, r)[1]]>>
  ELSE <<r.event_id, Events[EventIn(table, r)[1]][r.start].name>>

(* A row and what becomes of it when it gets its total.                    *)
SameEvent(p, r) ==
  /\ p.file_id = r.file_id /\ p.start = r.start /\ p.time = r.time
  /\ p.process_id = r.process_id /\ p.event_id = r.event_id

-----------------------------------------------------------------------------
(* Why rows resolve.  Where the loader is: an index is built only by the   *)
(* process that created it, and its status row is written when all hours   *)
(* are.                                                                    *)
Building == newDb /\ pc \in {"nextFile", "events", "await", "status", "read", "done"}

FilesListed == newDb /\ (pc = "readFiles" \/ Reading) => fileTable = files

OnlyNewIsBuilt ==
  /\ pc \in {"commitFiles", "nextFile", "events", "await", "status"} => newDb
  /\ threads # << >> => newDb
  /\ pc = "events" => files[cur] \in Indexable

NothingSavedYet ==
  /\ dbFile = "absent" => saved = NoEntities /\ ~status
  /\ newDb /\ pc \in {"createDb", "readDirectory", "commitFiles", "readFiles"} =>
       saved = NoEntities

(* The last hour is written, whether or not the status row tells of it.    *)
AllWritten == status \/ pc = "status" \/ (newDb /\ pc \in {"read", "done"})

LastWorks == \A t \in DOMAIN threads : threads[t].pc # "done" => t = Len(threads)

StatusLast ==
  /\ status => /\ pc \in {"start", "readDirectory", "readFiles", "read", "done", "terminated"}
               /\ pc \in {"readDirectory", "readFiles"} => ~newDb
  /\ AllWritten => \A t \in DOMAIN threads : threads[t].pc = "done"
  /\ Reading /\ time = 0 => threads = << >>

(* The ids: each name has its own, given once, and what is saved, pending, *)
(* with a thread or with the loader is what was given.                     *)
IdsDistinct ==
  Building => \A k \in Kinds, n \in Names : dict[k][n] # NoId =>
    /\ dict[k][n] < nextId[k]
    /\ \A m \in Names : dict[k][m] = dict[k][n] => m = n

Given(k, p) == dict[k][p[2]] = p[1]

EntsGiven ==
  Building =>
    /\ \A k \in Kinds : \A p \in saved[k] \cup pendingEnts[k] \cup newEnts[k] : Given(k, p)
    /\ \A t \in DOMAIN threads : HasRows(t) =>
         \A k \in Kinds : \A p \in threads[t].ents[k] : Given(k, p)

(* A name is saved, or with a thread that will save it.                    *)
OnItsWay(k, p) ==
  p \in saved[k] \/ \E t \in DOMAIN threads : HasRows(t) /\ p \in threads[t].ents[k]

IdsKept ==
  Building => \A k \in Kinds, n \in Names : dict[k][n] # NoId =>
    <<dict[k][n], n>> \in newEnts[k] \/ OnItsWay(k, <<dict[k][n], n>>)

EntsPending ==
  /\ \A t \in DOMAIN threads : threads[t].pc \in {"insert", "commit"} =>
       \A k \in Kinds : threads[t].ents[k] \subseteq pendingEnts[k]
  /\ ~Building => pendingEnts = NoEntities

(* The rows: from the loader's records through a thread to the journal.    *)
RecordsGiven ==
  Reading => \A i \in DOMAIN records :
    LocatedIn(files, records[i]) /\ \A k \in Kinds : Given(k, RefIn(files, k, records[i]))

RowsOnTheirWay ==
  \A t \in DOMAIN threads : HasRows(t) => \A i \in DOMAIN threads[t].rows :
    /\ LocatedIn(fileTable, threads[t].rows[i])
    /\ \A k \in Kinds : OnItsWay(k, RefIn(fileTable, k, threads[t].rows[i]))

PendingAreEvents ==
  \A t \in DOMAIN threads : Writing(t) => \A i \in DOMAIN pending :
    i \in DOMAIN threads[t].rows /\ SameEvent(pending[i], threads[t].rows[i])

JournalResolves ==
  \A i \in DOMAIN journal :
    /\ LocatedIn(fileTable, journal[i])
    /\ newDb \/ status => \A k \in Kinds : RefIn(fileTable, k, journal[i]) \in saved[k]

SavedOnce == \A k \in Kinds : \A p, q \in saved[k] : p[1] = q[1] => p = q

StageParts == FilesListed /\ OnlyNewIsBuilt /\ NothingSavedYet /\ LastWorks /\ StatusLast

IdParts == IdsDistinct /\ EntsGiven /\ IdsKept /\ EntsPending

RowParts == /\ RecordsGiven /\ RowsOnTheirWay /\ PendingAreEvents
            /\ JournalResolves /\ SavedOnce

ResolveInv == OrderInv /\ StageParts /\ IdParts /\ RowParts

(* Before the program starts there is nothing.                             *)
LEMMA ResolveInit == Init => ResolveInv
<1>. SUFFICES ASSUME Init PROVE ResolveInv
  OBVIOUS
<1>1. OrderInv
  BY OrderInit
<1>2. threads = << >> /\ journal = << >> /\ pc = "start" /\ ~Building /\ ~Reading
  BY DEF Init, Building, Reading
<1>3. StageParts
  BY <1>2 DEF Init, StageParts, FilesListed, OnlyNewIsBuilt, NothingSavedYet, LastWorks, StatusLast, AllWritten
<1>4. IdParts
  BY <1>2 DEF Init, IdParts, IdsDistinct, EntsGiven, IdsKept, EntsPending
<1>5. RowParts
  BY <1>2 DEF Init, RowParts, RecordsGiven, RowsOnTheirWay, PendingAreEvents, JournalResolves,
              SavedOnce, NoEntities
<1>. QED BY <1>1, <1>3, <1>4, <1>5 DEF ResolveInv

-----------------------------------------------------------------------------
(* The loading thread                                                      *)

(* The thread an hour is handed to; the others are done.                   *)
LEMMA HandedOver ==
  ASSUME WriterInv, HandOver
  PROVE  \E rs \in TimeSorted(records) :
           /\ rs \in Seq(Rows)
           /\ \A i \in DOMAIN rs : \E j \in DOMAIN records : rs[i] = records[j]
           /\ DOMAIN threads' = DOMAIN threads \cup {Len(threads) + 1}
           /\ Len(threads') = Len(threads) + 1
           /\ \A u \in DOMAIN threads :
                u # Len(threads) + 1 /\ threads'[u] = threads[u] /\ threads[u].pc = "done"
           /\ threads'[Len(threads) + 1] = NewThread(rs)
           /\ records' = << >> /\ newEnts' = NoEntities
<1>1. threads \in Seq(Threads) /\ records \in Seq(Rows) /\ ~mutex
  BY DEF WriterInv, TypeInv, TypeOK, HandOver
<1>2. PICK rs \in TimeSorted(records) : threads' = Append(threads, NewThread(rs))
  BY DEF HandOver
<1>3. /\ rs \in Seq(Rows)
      /\ \A i \in DOMAIN rs : \E j \in DOMAIN records : rs[i] = records[j]
  BY <1>1, <1>2, TimeSortedType, TimeSortedRows
<1>4. NewThread(rs) \in Threads
  BY <1>3 DEF NewThread, Threads, WriterInv, TypeInv, TypeOK
<1>5. /\ DOMAIN threads' = DOMAIN threads \cup {Len(threads) + 1}
      /\ Len(threads') = Len(threads) + 1
      /\ \A u \in DOMAIN threads : u # Len(threads) + 1 /\ threads'[u] = threads[u]
      /\ threads'[Len(threads) + 1] = NewThread(rs)
  BY <1>1, <1>2, <1>4, AppendProperties, LenProperties
<1>6. \A u \in DOMAIN threads : threads[u].pc = "done"
  BY <1>1 DEF WriterInv, WriterParts, OneAtWork
<1>. QED BY <1>2, <1>3, <1>5, <1>6 DEF HandOver

(* Where the loader is, after each of its steps.                           *)
LEMMA StageLoader ==
  ASSUME ResolveInv, LoaderNext
  PROVE  StageParts'
<1>. USE DEF dbVars, txnVars, readVars, loaderVars, Reading, StageParts, FilesListed,
             OnlyNewIsBuilt, NothingSavedYet, LastWorks, StatusLast, AllWritten
<1>0. /\ StageParts /\ WriterInv /\ newDb \in BOOLEAN /\ status \in BOOLEAN /\ time \in Nat
      /\ pc \in BeforeReading => threads = << >>
      /\ \A i \in DOMAIN files : Hour[files[i]] \in Nat \ {0}
  <2>1. WriterInv
    BY DEF ResolveInv, OrderInv
  <2>2. files \in Seq(LogFiles) /\ newDb \in BOOLEAN /\ status \in BOOLEAN /\ time \in Nat
    BY <2>1 DEF WriterInv, TypeInv, TypeOK
  <2>3. \A i \in DOMAIN files : Hour[files[i]] \in Nat \ {0}
    BY <2>2, LoaderAssumption, ElementOfSeq, LenProperties
  <2>. QED BY <2>1, <2>2, <2>3 DEF ResolveInv, WriterInv, WriterParts, NoThreadYet
<1>1. CASE OpenNew
  BY <1>0, <1>1 DEF OpenNew, BeforeReading
<1>2. CASE CreateDb
  BY <1>0, <1>2 DEF CreateDb
<1>3. CASE OpenExisting
  BY <1>0, <1>3 DEF OpenExisting, BeforeReading
<1>4. CASE ListFiles
  BY <1>0, <1>4 DEF ListFiles
<1>5. CASE CommitFiles
  BY <1>0, <1>5 DEF CommitFiles
<1>6. CASE LoadFiles
  BY <1>0, <1>6 DEF LoadFiles
<1>7. CASE BeginReadFiles
  <2>1. threads = << >>
    BY <1>0, <1>7 DEF BeginReadFiles, BeforeReading
  <2>. QED BY <1>0, <1>7, <2>1 DEF BeginReadFiles
<1>8. ASSUME HandOver, pc = "nextFile", pc' \in {"nextFile", "await"}, time' # 0,
             UNCHANGED <<newDb, files, fileTable, saved, status, dbFile>>
      PROVE  StageParts'
  <2>1. \A t \in DOMAIN threads' : threads'[t].pc # "done" => t = Len(threads')
    BY <1>0, <1>8, HandedOver
  <2>2. newDb /\ ~status
    BY <1>0, <1>8
  <2>3. FilesListed' /\ OnlyNewIsBuilt' /\ NothingSavedYet' /\ LastWorks'
    BY <1>0, <1>8, <2>1, <2>2
  <2>. QED BY <1>8, <2>2, <2>3
<1>9. CASE HourEnds
  <2>1. /\ HandOver /\ pc = "nextFile" /\ pc' = "nextFile" /\ time' # 0
        /\ UNCHANGED <<newDb, files, fileTable, saved, status, dbFile>>
    BY <1>0, <1>9 DEF HourEnds
  <2>. QED BY <1>8, <2>1
<1>10. CASE OpenFile
  <2>1. /\ pc = "nextFile" /\ pc' \in {"nextFile", "events"} /\ time' # 0
        /\ pc' = "events" => files[cur] \in Indexable /\ cur' = cur
        /\ UNCHANGED <<newDb, files, fileTable, saved, status, dbFile, threads>>
    BY <1>0, <1>10 DEF OpenFile
  <2>. QED BY <1>0, <2>1
<1>11. CASE ReadEvent
  BY <1>0, <1>11 DEF ReadEvent
<1>12. CASE CloseFile
  BY <1>0, <1>12 DEF CloseFile
<1>13. CASE FilesEnd
  <2>1. CASE time # 0
    BY <1>8, <1>13, <2>1 DEF FilesEnd
  <2>2. CASE time = 0
    <3>1. threads = << >>
      BY <1>0, <1>13, <2>2 DEF FilesEnd
    <3>. QED BY <1>0, <1>13, <2>2, <3>1 DEF FilesEnd
  <2>. QED BY <2>1, <2>2
<1>14. CASE LastHourWritten
  <2>1. \A t \in DOMAIN threads : threads[t].pc = "done"
    BY <1>0, <1>14 DEF LastHourWritten
  <2>. QED BY <1>0, <1>14, <2>1 DEF LastHourWritten
<1>15. CASE WriteStatus
  <2>1. dbFile # "absent"
    BY <1>15 DEF WriteStatus, ResolveInv, OrderInv, OrderParts, EmptyAtFirst
  <2>. QED BY <1>0, <1>15, <2>1 DEF WriteStatus
<1>16. CASE ShowStatus
  BY <1>0, <1>16 DEF ShowStatus
<1>17. CASE FilesAreRead
  BY <1>0, <1>17 DEF FilesAreRead
<1>. QED BY <1>1, <1>2, <1>3, <1>4, <1>5, <1>6, <1>7, <1>9, <1>10, <1>11, <1>12, <1>13,
            <1>14, <1>15, <1>16, <1>17 DEF LoaderNext

(* InsertEntity gives a new name an id of its own, and keeps it to write.  *)
LEMMA InsertEntityIds ==
  ASSUME TypeOK, NEW k \in Kinds, NEW n \in Names, InsertEntity(k, n)
  PROVE  /\ dict'[k][n] = IdOf(k, n) /\ dict'[k][n] # NoId
         /\ \A l \in Kinds, m \in Names : dict[l][m] # NoId => dict'[l][m] = dict[l][m]
         /\ \A l \in Kinds : newEnts[l] \subseteq newEnts'[l]
         /\ \A l \in Kinds : \A p \in newEnts'[l] :
              p \in newEnts[l] \/ dict'[l][p[2]] = p[1]
         /\ \A l \in Kinds, m \in Names : dict'[l][m] # NoId =>
              dict[l][m] = dict'[l][m] \/ <<dict'[l][m], m>> \in newEnts'[l]
         /\ (\A l \in Kinds, m \in Names : dict[l][m] # NoId =>
                dict[l][m] < nextId[l] /\ \A o \in Names : dict[l][o] = dict[l][m] => o = m)
            => \A l \in Kinds, m \in Names : dict'[l][m] # NoId =>
                 dict'[l][m] < nextId'[l] /\ \A o \in Names : dict'[l][o] = dict'[l][m] => o = m
<1>1. /\ dict \in [Kinds -> [Names -> Nat \cup {NoId}]] /\ nextId \in [Kinds -> Nat]
      /\ newEnts \in [Kinds -> SUBSET (Nat \X Names)]
  BY DEF TypeOK, Entities
<1>2. CASE dict[k][n] # NoId
  <2>1. /\ dict' = [dict EXCEPT ![k][n] = dict[k][n]] /\ nextId' = nextId /\ newEnts' = newEnts
        /\ IdOf(k, n) = dict[k][n]
    BY <1>2 DEF InsertEntity, IdOf
  <2>2. dict' = dict
    BY <1>1, <2>1
  <2>. QED BY <1>2, <2>1, <2>2
<1>3. CASE dict[k][n] = NoId
  <2>1. /\ dict' = [dict EXCEPT ![k][n] = nextId[k]] /\ nextId' = [nextId EXCEPT ![k] = @ + 1]
        /\ newEnts' = [newEnts EXCEPT ![k] = @ \cup {<<nextId[k], n>>}]
        /\ IdOf(k, n) = nextId[k]
    BY <1>3 DEF InsertEntity, IdOf
  <2>2. nextId[k] \in Nat /\ nextId[k] # NoId
    BY <1>1 DEF NoId
  <2>3. /\ dict'[k][n] = nextId[k]
        /\ \A l \in Kinds, m \in Names : l # k \/ m # n => dict'[l][m] = dict[l][m]
    BY <1>1, <2>1
  <2>4. /\ nextId'[k] = nextId[k] + 1 /\ \A l \in Kinds : l # k => nextId'[l] = nextId[l]
        /\ newEnts'[k] = newEnts[k] \cup {<<nextId[k], n>>}
        /\ \A l \in Kinds : l # k => newEnts'[l] = newEnts[l]
    BY <1>1, <2>1
  <2>5. ASSUME \A l \in Kinds, m \in Names : dict[l][m] # NoId =>
                 dict[l][m] < nextId[l] /\ \A o \in Names : dict[l][o] = dict[l][m] => o = m,
               NEW l \in Kinds, NEW m \in Names, dict'[l][m] # NoId
        PROVE  dict'[l][m] < nextId'[l] /\ \A o \in Names : dict'[l][o] = dict'[l][m] => o = m
    <3>1. \A o \in Names : dict[k][o] # nextId[k]
      BY <1>1, <2>2, <2>5
    <3>2. \A o \in Names : dict[l][o] \in Nat \cup {NoId}
      BY <1>1
    <3>3. CASE l = k /\ m = n
      BY <2>2, <2>3, <2>4, <3>1, <3>3
    <3>4. CASE l = k /\ m # n
      BY <2>2, <2>3, <2>4, <2>5, <3>1, <3>2, <3>4
    <3>5. CASE l # k
      BY <2>3, <2>4, <2>5, <3>5
    <3>. QED BY <3>3, <3>4, <3>5
  <2>. QED BY <1>3, <2>1, <2>2, <2>3, <2>4, <2>5
<1>. QED BY <1>2, <1>3

(* The ids, after each step of the loading thread.                         *)
LEMMA IdLoader ==
  ASSUME ResolveInv, LoaderNext
  PROVE  IdParts'
<1>. USE DEF dbVars, txnVars, readVars, loaderVars
<1>0. /\ IdParts /\ StageParts /\ WriterInv /\ TypeOK
      /\ pc \in BeforeReading => threads = << >>
  BY DEF ResolveInv, OrderInv, WriterInv, WriterParts, NoThreadYet, TypeInv
<1>1. ASSUME UNCHANGED <<dict, nextId, newEnts, threads, saved, pendingEnts>>, Building' = Building
      PROVE  IdParts'
  <2>1. IdsDistinct' /\ EntsGiven' /\ EntsPending'
    BY <1>0, <1>1 DEF IdParts, IdsDistinct, EntsGiven, EntsPending, Given, HasRows, Writing
  <2>2. IdsKept'
    BY <1>0, <1>1 DEF IdParts, IdsKept, OnItsWay, HasRows, Writing
  <2>. QED BY <2>1, <2>2 DEF IdParts
<1>2. CASE OpenNew
  BY <1>1, <1>2 DEF OpenNew, Building
<1>3. CASE CreateDb
  BY <1>1, <1>3 DEF CreateDb, Building
<1>4. CASE OpenExisting
  BY <1>1, <1>4 DEF OpenExisting, Building
<1>5. CASE ListFiles
  BY <1>1, <1>5 DEF ListFiles, Building
<1>6. CASE CommitFiles
  BY <1>1, <1>6 DEF CommitFiles, Building
<1>7. CASE LoadFiles
  BY <1>1, <1>7 DEF LoadFiles, Building
<1>8. CASE BeginReadFiles
  <2>1. threads = << >> /\ saved = NoEntities /\ pendingEnts = NoEntities
    BY <1>0, <1>8 DEF BeginReadFiles, BeforeReading, StageParts, NothingSavedYet, IdParts,
                      EntsPending, Building
  <2>2. /\ newEnts' = NoEntities /\ UNCHANGED <<threads, saved, pendingEnts>>
        /\ \A k \in Kinds, n \in Names : dict'[k][n] = NoId
    BY <1>8 DEF BeginReadFiles
  <2>. QED BY <2>1, <2>2 DEF IdParts, IdsDistinct, EntsGiven, IdsKept, EntsPending, NoEntities
<1>9. ASSUME HandOver, UNCHANGED <<dict, nextId, saved, pendingEnts>>, Building, Building'
      PROVE  IdParts'
  <2>1. PICK rs \in TimeSorted(records) :
           /\ DOMAIN threads' = DOMAIN threads \cup {Len(threads) + 1}
           /\ \A u \in DOMAIN threads : threads'[u] = threads[u] /\ threads[u].pc = "done"
           /\ threads'[Len(threads) + 1] = NewThread(rs)
           /\ newEnts' = NoEntities
    BY <1>0, <1>9, HandedOver
  <2>0. PICK n : n = Len(threads) + 1
    OBVIOUS
  <2>2. /\ n \in DOMAIN threads' /\ threads'[n].ents = newEnts /\ threads'[n].pc = "begin"
        /\ HasRows(n)'
    <3>1. NewThread(rs).ents = newEnts /\ NewThread(rs).pc = "begin"
      BY DEF NewThread
    <3>. QED BY <2>0, <2>1, <3>1 DEF HasRows
  <2>3. \A t \in DOMAIN threads' : t # n => threads'[t].pc = "done" /\ ~HasRows(t)'
    BY <2>0, <2>1 DEF HasRows, Writing, InsideTransaction
  <2>4. \A t \in DOMAIN threads : ~HasRows(t)
    BY <2>1 DEF HasRows, Writing, InsideTransaction
  <2>5. EntsGiven' /\ EntsPending' /\ IdsDistinct'
    BY <1>0, <1>9, <2>1, <2>2, <2>3
       DEF IdParts, EntsGiven, EntsPending, IdsDistinct, Given, NoEntities
  <2>6. IdsKept'
    <3>1. SUFFICES ASSUME NEW k \in Kinds, NEW m \in Names, dict[k][m] # NoId
                   PROVE  OnItsWay(k, <<dict[k][m], m>>)'
      BY <1>9 DEF IdsKept
    <3>2. <<dict[k][m], m>> \in newEnts[k] \/ <<dict[k][m], m>> \in saved[k]
      BY <1>0, <1>9, <2>4, <3>1 DEF IdParts, IdsKept, OnItsWay
    <3>. QED BY <1>9, <2>2, <3>2 DEF OnItsWay
  <2>. QED BY <2>5, <2>6 DEF IdParts
<1>10. CASE HourEnds
  BY <1>0, <1>9, <1>10 DEF HourEnds, Building, StageParts, OnlyNewIsBuilt
<1>11. ASSUME NEW k \in Kinds, NEW n \in Names, InsertEntity(k, n),
              UNCHANGED <<threads, saved, pendingEnts>>, Building, Building'
       PROVE  IdParts'
  <2>. DEFINE Fits(p) == p[2] \in Names /\ p[1] # NoId
  <2>1. \A p \in Nat \X Names : Fits(p)
    BY DEF NoId
  <2>2. /\ \A l \in Kinds : \A p \in saved[l] \cup pendingEnts[l] \cup newEnts[l] : Fits(p)
        /\ \A t \in DOMAIN threads : \A l \in Kinds : \A p \in threads[t].ents[l] : Fits(p)
    <3>1. \A t \in DOMAIN threads : threads[t].ents \in Entities
      BY <1>0, ThreadsOfSeq DEF Threads
    <3>2. saved \in Entities /\ pendingEnts \in Entities /\ newEnts \in Entities
      BY <1>0 DEF TypeOK
    <3>. HIDE DEF Fits
    <3>. QED BY <2>1, <3>1, <3>2 DEF Entities
  <2>3. /\ \A l \in Kinds, m \in Names : dict[l][m] # NoId => dict'[l][m] = dict[l][m]
        /\ \A l \in Kinds : newEnts[l] \subseteq newEnts'[l]
        /\ \A l \in Kinds : \A p \in newEnts'[l] :
             p \in newEnts[l] \/ dict'[l][p[2]] = p[1]
        /\ \A l \in Kinds, m \in Names : dict'[l][m] # NoId =>
             dict[l][m] = dict'[l][m] \/ <<dict'[l][m], m>> \in newEnts'[l]
    BY <1>0, <1>11, InsertEntityIds
  <2>4. IdsDistinct'
    BY <1>0, <1>11, InsertEntityIds DEF IdParts, IdsDistinct
  <2>5. \A l \in Kinds : \A p : Fits(p) /\ Given(l, p) => Given(l, p)'
    BY <2>3 DEF Given
  <2>6. EntsGiven'
    <3>. HIDE DEF Fits
    <3>1. \A l \in Kinds : \A p \in saved[l] \cup pendingEnts[l] \cup newEnts[l] : Given(l, p)'
      BY <1>0, <1>11, <2>2, <2>5 DEF IdParts, EntsGiven
    <3>2. \A l \in Kinds : \A p \in newEnts'[l] : Given(l, p)'
      BY <2>3, <3>1 DEF Given
    <3>3. \A t \in DOMAIN threads : HasRows(t) =>
            \A l \in Kinds : \A p \in threads[t].ents[l] : Given(l, p)'
      BY <1>0, <1>11, <2>2, <2>5 DEF IdParts, EntsGiven
    <3>. QED BY <1>11, <3>1, <3>2, <3>3 DEF EntsGiven, HasRows, Writing
  <2>7. IdsKept'
    <3>1. \A l, p : OnItsWay(l, p) => OnItsWay(l, p)'
      BY <1>11 DEF OnItsWay, HasRows, Writing
    <3>2. SUFFICES ASSUME NEW l \in Kinds, NEW m \in Names, dict'[l][m] # NoId
                   PROVE  <<dict'[l][m], m>> \in newEnts'[l] \/ OnItsWay(l, <<dict[l][m], m>>)'
      BY DEF IdsKept
    <3>3. CASE dict[l][m] = dict'[l][m]
      <4>. DEFINE p == <<dict[l][m], m>>
      <4>1. p \in newEnts[l] \/ OnItsWay(l, p)
        BY <1>0, <1>11, <3>2, <3>3 DEF IdParts, IdsKept
      <4>. QED BY <2>3, <3>3, <4>1, <1>11 DEF OnItsWay, HasRows, Writing
    <3>. QED BY <2>3, <3>2, <3>3
  <2>8. EntsPending'
    BY <1>0, <1>11 DEF IdParts, EntsPending
  <2>. QED BY <2>4, <2>6, <2>7, <2>8 DEF IdParts
<1>12. CASE OpenFile
  <2>1. UNCHANGED <<threads, saved, pendingEnts, nextId, newDb>> \/ files[cur] \in Indexable
    BY <1>12 DEF OpenFile
  <2>2. Building /\ Building' /\ UNCHANGED <<threads, saved, pendingEnts>>
    BY <1>0, <1>12 DEF OpenFile, Building, StageParts, OnlyNewIsBuilt
  <2>3. CASE files[cur] \in Indexable
    <3>1. Process[files[cur]] \in Names /\ "process" \in Kinds
      <4>1. files \in Seq(LogFiles) /\ cur \in 1 .. Len(files)
        BY <1>0, <1>12, LenProperties DEF OpenFile, TypeOK
      <4>. QED BY <4>1, ElementOfSeq, LoaderAssumption DEF Kinds
    <3>2. InsertEntity("process", Process[files[cur]])
      BY <1>12, <2>3 DEF OpenFile
    <3>. QED BY <1>11, <2>2, <3>1, <3>2
  <2>4. CASE files[cur] \notin Indexable
    BY <1>1, <1>12, <2>2, <2>4 DEF OpenFile
  <2>. QED BY <2>3, <2>4
<1>13. CASE ReadEvent
  <2>. DEFINE f == files[cur]
              e == Events[f][evt]
  <2>1. Building /\ Building' /\ UNCHANGED <<threads, saved, pendingEnts>>
    BY <1>0, <1>13 DEF ReadEvent, Building, StageParts, OnlyNewIsBuilt
  <2>2. e.name \in Names /\ "event" \in Kinds
    <3>1. files \in Seq(LogFiles) /\ cur \in DOMAIN files
      BY <1>0, <1>13 DEF ReadEvent, TypeOK, WriterInv, TypeInv, ProcessHasId
    <3>2. f \in LogFiles
      BY <3>1, LenProperties, ElementOfSeq
    <3>3. Events[f] \in Seq([offset : 0 .. HourSpan - 1, lines : Nat \ {0}, name : Names])
      BY <3>2, LoaderAssumption
    <3>4. evt \in 1 .. Len(Events[f])
      BY <1>13, <3>3, LenProperties DEF ReadEvent
    <3>5. e \in [offset : 0 .. HourSpan - 1, lines : Nat \ {0}, name : Names]
      BY <3>3, <3>4, ElementOfSeq
    <3>. QED BY <3>5 DEF Kinds
  <2>3. InsertEntity("event", e.name)
    BY <1>13 DEF ReadEvent
  <2>. HIDE DEF e
  <2>. QED BY <1>11, <2>1, <2>2, <2>3
<1>14. CASE CloseFile
  BY <1>1, <1>14 DEF CloseFile, Building
<1>15. CASE FilesEnd
  <2>1. CASE time # 0
    BY <1>0, <1>9, <1>15, <2>1 DEF FilesEnd, Building, StageParts, OnlyNewIsBuilt
  <2>2. CASE time = 0
    BY <1>1, <1>15, <2>2 DEF FilesEnd, Building
  <2>. QED BY <2>1, <2>2
<1>16. CASE LastHourWritten
  BY <1>1, <1>16 DEF LastHourWritten, Building
<1>17. CASE WriteStatus
  BY <1>1, <1>17 DEF WriteStatus, Building
<1>18. CASE ShowStatus
  BY <1>1, <1>18 DEF ShowStatus, Building
<1>19. CASE FilesAreRead
  BY <1>1, <1>19 DEF FilesAreRead, Building
<1>. QED BY <1>2, <1>3, <1>4, <1>5, <1>6, <1>7, <1>8, <1>10, <1>12, <1>13, <1>14, <1>15,
            <1>16, <1>17, <1>18, <1>19 DEF LoaderNext

(* The event of a file that a record is made of.                           *)
LEMMA EventType ==
  ASSUME NEW f \in LogFiles, NEW i \in DOMAIN Events[f]
  PROVE  /\ <<f, i>> \in EventIds /\ Process[f] \in Names
         /\ Events[f][i] \in [offset : 0 .. HourSpan - 1, lines : Nat \ {0}, name : Names]
         /\ Events[f][i].name \in Names
<1>1. Events[f] \in Seq([offset : 0 .. HourSpan - 1, lines : Nat \ {0}, name : Names])
  BY LoaderAssumption
<1>2. i \in 1 .. Len(Events[f])
  BY <1>1, LenProperties
<1>3. Events[f][i] \in [offset : 0 .. HourSpan - 1, lines : Nat \ {0}, name : Names]
  BY <1>1, <1>2, ElementOfSeq
<1>4. <<f, i>> \in EventIds
  BY DEF EventIds
<1>. QED BY <1>3, <1>4, LoaderAssumption

(* The names a row refers to are names.                                    *)
LEMMA RefType ==
  ASSUME NEW table, NEW r \in Rows, LocatedIn(table, r), NEW k \in Kinds
  PROVE  RefIn(table, k, r) \in Nat \X Names
<1>0. PICK f \in LogFiles : EventIn(table, r) \in {f} \X DOMAIN Events[f]
  <2>1. EventIn(table, r) \in EventIds
    BY DEF LocatedIn, IndexedEvents
  <2>. QED BY <2>1 DEF EventIds
<1>1. PICK i \in DOMAIN Events[f] : EventIn(table, r) = <<f, i>>
  BY <1>0
<1>2. EventIn(table, r)[1] = f /\ r.start = i
  BY <1>1 DEF EventIn
<1>3. Process[f] \in Names /\ Events[f][i].name \in Names
  BY EventType
<1>4. r.process_id \in Nat /\ r.event_id \in Nat
  BY DEF Rows
<1>. QED BY <1>2, <1>3, <1>4 DEF RefIn

(* The rows, after each step of the loading thread.                        *)
LEMMA RowLoader ==
  ASSUME ResolveInv, LoaderNext
  PROVE  RowParts'
<1>. USE DEF dbVars, txnVars, readVars, loaderVars
<1>0. /\ RowParts /\ IdParts /\ StageParts /\ EmptyAtFirst /\ WriterInv /\ TypeOK
      /\ pc \in BeforeReading => threads = << >>
  BY DEF ResolveInv, OrderInv, OrderParts, WriterInv, WriterParts, NoThreadYet, TypeInv
<1>1. ASSUME UNCHANGED <<journal, pending, threads, saved, fileTable>>, RecordsGiven',
             newDb' \/ status' => newDb \/ status \/ journal = << >>
      PROVE  RowParts'
  <2>1. RowsOnTheirWay' /\ PendingAreEvents'
    BY <1>0, <1>1 DEF RowParts, RowsOnTheirWay, PendingAreEvents, OnItsWay, HasRows, Writing
  <2>2. JournalResolves' /\ SavedOnce'
    BY <1>0, <1>1 DEF RowParts, JournalResolves, SavedOnce
  <2>. QED BY <1>1, <2>1, <2>2 DEF RowParts
<1>2. ASSUME ~Reading' PROVE RecordsGiven'
  BY <1>2 DEF RecordsGiven
<1>3. CASE OpenNew
  BY <1>0, <1>1, <1>2, <1>3 DEF OpenNew, Reading, EmptyAtFirst
<1>4. CASE CreateDb
  BY <1>1, <1>2, <1>4 DEF CreateDb, Reading
<1>5. CASE OpenExisting
  BY <1>1, <1>2, <1>5 DEF OpenExisting, Reading
<1>6. CASE ListFiles
  BY <1>1, <1>2, <1>6 DEF ListFiles, Reading
<1>7. CASE CommitFiles
  <2>1. /\ journal = << >> /\ threads = << >> /\ ~Reading'
        /\ UNCHANGED <<journal, threads, saved>>
    BY <1>0, <1>7 DEF CommitFiles, StageParts, OnlyNewIsBuilt, EmptyAtFirst, Reading, BeforeReading
  <2>. QED BY <1>0, <1>2, <2>1
           DEF RowParts, RowsOnTheirWay, PendingAreEvents, JournalResolves, SavedOnce
<1>8. CASE LoadFiles
  BY <1>1, <1>2, <1>8 DEF LoadFiles, Reading
<1>9. CASE BeginReadFiles
  BY <1>1, <1>9 DEF BeginReadFiles, RecordsGiven
<1>10. ASSUME HandOver, UNCHANGED <<journal, pending, saved, fileTable, newDb, status>>,
              Reading, pc = "nextFile"
       PROVE  RowParts'
  <2>1. PICK rs \in TimeSorted(records) :
           /\ rs \in Seq(Rows)
           /\ \A i \in DOMAIN rs : \E j \in DOMAIN records : rs[i] = records[j]
           /\ DOMAIN threads' = DOMAIN threads \cup {Len(threads) + 1}
           /\ \A u \in DOMAIN threads : threads'[u] = threads[u] /\ threads[u].pc = "done"
           /\ threads'[Len(threads) + 1] = NewThread(rs)
           /\ records' = << >>
    BY <1>0, <1>10, HandedOver
  <2>2. PICK n : n = Len(threads) + 1
    OBVIOUS
  <2>3. /\ n \in DOMAIN threads' /\ threads'[n].ents = newEnts /\ threads'[n].rows = rs
        /\ HasRows(n)' /\ ~Writing(n)'
    <3>1. NewThread(rs).ents = newEnts /\ NewThread(rs).rows = rs /\ NewThread(rs).pc = "begin"
      BY DEF NewThread
    <3>. QED BY <2>1, <2>2, <3>1 DEF HasRows, Writing, InsideTransaction
  <2>4. \A t \in DOMAIN threads' : t # n => ~HasRows(t)'
    BY <2>1, <2>2 DEF HasRows, Writing, InsideTransaction
  <2>5. \A t \in DOMAIN threads : ~HasRows(t)
    BY <2>1 DEF HasRows, Writing, InsideTransaction
  <2>6. fileTable = files /\ Building
    BY <1>0, <1>10 DEF StageParts, FilesListed, OnlyNewIsBuilt, Building, Reading
  <2>7. ASSUME NEW i \in DOMAIN rs
        PROVE  /\ LocatedIn(fileTable, rs[i])
               /\ \A k \in Kinds : OnItsWay(k, RefIn(fileTable, k, rs[i]))'
    <3>1. /\ LocatedIn(files, rs[i])
          /\ \A k \in Kinds : Given(k, RefIn(files, k, rs[i]))
      BY <1>0, <1>10, <2>1 DEF RowParts, RecordsGiven
    <3>2. rs[i] \in Rows
      BY <2>1, RowsOfSeq
    <3>3. ASSUME NEW k \in Kinds
          PROVE  OnItsWay(k, RefIn(fileTable, k, rs[i]))'
      <4>1. PICK p \in Nat \X Names : p = RefIn(fileTable, k, rs[i])
        BY <2>6, <3>1, <3>2, RefType
      <4>2. dict[k][p[2]] = p[1] /\ p[1] # NoId /\ p[2] \in Names /\ p = <<p[1], p[2]>>
        BY <2>6, <3>1, <4>1 DEF Given, NoId
      <4>3. p \in newEnts[k] \/ p \in saved[k]
        BY <1>0, <2>5, <2>6, <4>2 DEF IdParts, IdsKept, OnItsWay
      <4>4. OnItsWay(k, p)'
        BY <1>10, <2>3, <4>3 DEF OnItsWay
      <4>5. RefIn(fileTable, k, rs[i])' = p
        BY <1>10, <4>1
      <4>. QED BY <4>4, <4>5 DEF OnItsWay
    <3>. QED BY <2>6, <3>1, <3>3
  <2>8. RowsOnTheirWay'
    <3>1. SUFFICES ASSUME NEW t \in DOMAIN threads', HasRows(t)', NEW i \in DOMAIN threads'[t].rows
                   PROVE  /\ LocatedIn(fileTable', threads'[t].rows[i])
                          /\ \A k \in Kinds : OnItsWay(k, RefIn(fileTable, k, threads[t].rows[i]))'
      BY DEF RowsOnTheirWay
    <3>2. threads'[t].rows = rs
      BY <2>3, <2>4, <3>1
    <3>3. i \in DOMAIN rs /\ threads'[t].rows[i] = rs[i]
      BY <3>1, <3>2
    <3>4. LocatedIn(fileTable', threads'[t].rows[i])
      BY <1>10, <2>7, <3>3
    <3>5. ASSUME NEW k \in Kinds
          PROVE  OnItsWay(k, RefIn(fileTable, k, threads[t].rows[i]))'
      <4>1. OnItsWay(k, RefIn(fileTable, k, rs[i]))'
        BY <2>7, <3>3
      <4>. QED BY <3>3, <4>1 DEF OnItsWay
    <3>. QED BY <3>4, <3>5
  <2>9. PendingAreEvents' /\ RecordsGiven'
    BY <2>1, <2>3, <2>4 DEF PendingAreEvents, RecordsGiven, HasRows
  <2>10. JournalResolves' /\ SavedOnce'
    BY <1>0, <1>10 DEF RowParts, JournalResolves, SavedOnce
  <2>. QED BY <2>8, <2>9, <2>10 DEF RowParts
<1>11. CASE HourEnds
  BY <1>10, <1>11 DEF HourEnds, Reading
<1>12. ASSUME Reading, \A l \in Kinds, m \in Names : dict[l][m] # NoId => dict'[l][m] = dict[l][m],
              NEW i \in DOMAIN records
       PROVE  /\ LocatedIn(files, records[i])
              /\ \A k \in Kinds : Given(k, RefIn(files, k, records[i]))
                   /\ dict'[k][RefIn(files, k, records[i])[2]] = RefIn(files, k, records[i])[1]
  <2>1. LocatedIn(files, records[i]) /\ \A k \in Kinds : Given(k, RefIn(files, k, records[i]))
    BY <1>0, <1>12 DEF RowParts, RecordsGiven
  <2>2. records[i] \in Rows
    BY <1>0, RowsOfSeq DEF TypeOK
  <2>3. ASSUME NEW k \in Kinds
        PROVE  dict'[k][RefIn(files, k, records[i])[2]] = RefIn(files, k, records[i])[1]
    <3>1. PICK p \in Nat \X Names : p = RefIn(files, k, records[i])
      BY <2>1, <2>2, RefType
    <3>2. dict[k][p[2]] = p[1] /\ p[1] # NoId /\ p[2] \in Names
      BY <2>1, <3>1 DEF Given, NoId
    <3>. QED BY <1>12, <3>1, <3>2
  <2>. QED BY <2>1, <2>3
<1>13. CASE OpenFile
  <2>1. /\ UNCHANGED <<journal, pending, threads, saved, fileTable, newDb, status, records, files>>
        /\ Reading
    BY <1>13 DEF OpenFile, Reading
  <2>2. \A l \in Kinds, m \in Names : dict[l][m] # NoId => dict'[l][m] = dict[l][m]
    <3>1. CASE files[cur] \in Indexable
      <4>1. InsertEntity("process", Process[files[cur]])
        BY <1>13, <3>1 DEF OpenFile
      <4>2. Process[files[cur]] \in Names /\ "process" \in Kinds
        <5>1. files \in Seq(LogFiles) /\ cur \in 1 .. Len(files)
          BY <1>0, <1>13, LenProperties DEF OpenFile, TypeOK
        <5>. QED BY <5>1, ElementOfSeq, LoaderAssumption DEF Kinds
      <4>. QED BY <1>0, <4>1, <4>2, InsertEntityIds
    <3>2. CASE files[cur] \notin Indexable
      BY <1>13, <3>2 DEF OpenFile
    <3>. QED BY <3>1, <3>2
  <2>3. RecordsGiven'
    BY <1>12, <2>1, <2>2 DEF RecordsGiven, Given
  <2>. QED BY <1>1, <2>1, <2>3
<1>14. CASE ReadEvent
  <2>. DEFINE f == files[cur]
              e == Events[f][evt]
              r == [file_id |-> cur - 1, start |-> evt, time |-> Hour[f] * HourSpan + e.offset,
                    lines |-> e.lines, agr |-> 0, process_id |-> dict["process"][Process[f]],
                    event_id |-> IdOf("event", e.name)]
  <2>1. /\ pc = "events" /\ records' = Append(records, r) /\ evt \in DOMAIN Events[f]
        /\ InsertEntity("event", e.name) /\ Reading
        /\ UNCHANGED <<journal, pending, threads, saved, fileTable, newDb, status, files>>
    BY <1>14 DEF ReadEvent, Reading
  <2>2. /\ cur \in DOMAIN files /\ cur \in Nat \ {0} /\ f \in Indexable
        /\ dict["process"][Process[f]] # NoId
        /\ files \in Seq(LogFiles) /\ records \in Seq(Rows) /\ records' \in Seq(Rows)
    <3>1. TypeOK'
      BY <1>0, TypeLoader DEF WriterInv, TypeInv
    <3>. QED BY <1>0, <2>1, <3>1 DEF TypeOK, WriterInv, TypeInv, ProcessHasId, StageParts,
                                     OnlyNewIsBuilt
  <2>3. f \in LogFiles
    BY <2>2, LenProperties, ElementOfSeq
  <2>4. /\ <<f, evt>> \in EventIds /\ Process[f] \in Names /\ e.name \in Names
        /\ "event" \in Kinds /\ "process" \in Kinds
    BY <2>1, <2>3, EventType DEF Kinds
  <2>5. /\ \A l \in Kinds, m \in Names : dict[l][m] # NoId => dict'[l][m] = dict[l][m]
        /\ dict'["event"][e.name] = IdOf("event", e.name)
    <3>. HIDE DEF e
    <3>. QED BY <1>0, <2>1, <2>4, InsertEntityIds
  <2>6. EventIn(files, r) = <<f, evt>> /\ r.file_id + 1 = cur
    BY <2>2 DEF EventIn
  <2>7. LocatedIn(files, r)
    <3>1. r.time = Hour[f] * HourSpan + Events[f][evt].offset
      OBVIOUS
    <3>2. TimeOf(<<f, evt>>) = Hour[f] * HourSpan + Events[f][evt].offset
      BY DEF TimeOf
    <3>3. <<f, evt>> \in IndexedEvents
      BY <2>2, <2>4 DEF IndexedEvents
    <3>. HIDE DEF r, e, f
    <3>. QED BY <2>2, <2>6, <3>1, <3>2, <3>3 DEF LocatedIn
  <2>8. \A k \in Kinds : dict'[k][RefIn(files, k, r)[2]] = RefIn(files, k, r)[1]
    <3>1. /\ RefIn(files, "process", r) = <<dict["process"][Process[f]], Process[f]>>
          /\ RefIn(files, "event", r) = <<IdOf("event", e.name), e.name>>
      BY <2>6 DEF RefIn
    <3>. HIDE DEF r, e
    <3>. QED BY <2>2, <2>4, <2>5, <3>1 DEF Kinds
  <2>. HIDE DEF r, e
  <2>9. /\ DOMAIN records' = DOMAIN records \cup {Len(records) + 1}
        /\ \A i \in DOMAIN records : records'[i] = records[i]
        /\ records'[Len(records) + 1] = r
    <3>1. /\ Len(Append(records, r)) = Len(records) + 1
          /\ \A i \in 1 .. Len(records) : Append(records, r)[i] = records[i]
          /\ Append(records, r)[Len(records) + 1] = r
          /\ DOMAIN records = 1 .. Len(records) /\ Len(records) \in Nat
      BY <2>2, LenProperties
    <3>2. DOMAIN records' = 1 .. Len(records')
      BY <2>2, LenProperties
    <3>. QED BY <2>1, <3>1, <3>2
  <2>10. RecordsGiven'
    BY <1>12, <2>1, <2>5, <2>7, <2>8, <2>9 DEF RecordsGiven, Given
  <2>. QED BY <1>1, <2>1, <2>10
<1>15. CASE CloseFile
  <2>1. RecordsGiven'
    BY <1>0, <1>15 DEF CloseFile, RowParts, RecordsGiven, Reading, Given
  <2>. QED BY <1>1, <1>15, <2>1 DEF CloseFile
<1>16. CASE FilesEnd
  <2>1. CASE time # 0
    BY <1>10, <1>16, <2>1 DEF FilesEnd, Reading
  <2>2. CASE time = 0
    BY <1>1, <1>2, <1>16, <2>2 DEF FilesEnd, Reading
  <2>. QED BY <2>1, <2>2
<1>17. CASE LastHourWritten
  BY <1>1, <1>2, <1>17 DEF LastHourWritten, Reading
<1>18. CASE WriteStatus
  <2>1. newDb
    BY <1>0, <1>18 DEF WriteStatus, StageParts, OnlyNewIsBuilt
  <2>. QED BY <1>1, <1>2, <1>18, <2>1 DEF WriteStatus, Reading
<1>19. CASE ShowStatus
  BY <1>1, <1>2, <1>19 DEF ShowStatus, Reading
<1>20. CASE FilesAreRead
  BY <1>1, <1>2, <1>20 DEF FilesAreRead, Reading
<1>. QED BY <1>3, <1>4, <1>5, <1>6, <1>7, <1>8, <1>9, <1>11, <1>13, <1>14, <1>15, <1>16,
            <1>17, <1>18, <1>19, <1>20 DEF LoaderNext

-----------------------------------------------------------------------------
(* The committing threads and the death of the process                     *)

(* An id that was given belongs to one name.                               *)
LEMMA GivenOnce ==
  ASSUME IdParts, Building, NEW k \in Kinds, NEW p \in Nat \X Names, NEW q \in Nat \X Names,
         Given(k, p), Given(k, q), p[1] = q[1]
  PROVE  p = q
<1>1. /\ p[2] \in Names /\ q[2] \in Names /\ dict[k][p[2]] # NoId
      /\ dict[k][p[2]] = dict[k][q[2]]
  BY DEF Given, NoId
<1>2. p[2] = q[2]
  BY <1>1 DEF IdParts, IdsDistinct
<1>. QED BY <1>2

(* What is saved, pending or with a thread is a set of ids and names.      *)
LEMMA EntityType ==
  ASSUME TypeOK, NEW k \in Kinds
  PROVE  saved[k] \subseteq Nat \X Names /\ pendingEnts[k] \subseteq Nat \X Names
BY DEF TypeOK, Entities

(* The total does not change what a row leads to.                          *)
LEMMA SameEventIn ==
  ASSUME NEW table, NEW p, NEW r, SameEvent(p, r)
  PROVE  /\ LocatedIn(table, r) => LocatedIn(table, p)
         /\ \A k : RefIn(table, k, p) = RefIn(table, k, r)
BY DEF SameEvent, LocatedIn, RefIn, EventIn

(* Threads exist only while an index is built.                             *)
LEMMA ThreadsBuild ==
  ASSUME ResolveInv, threads # << >>
  PROVE  /\ Building /\ pc \notin BeforeReading /\ dbFile # "absent"
         /\ ~(Reading /\ time = 0)
<1>1. newDb /\ pc \notin BeforeReading /\ pc \in LoaderStates /\ ~(Reading /\ time = 0)
  BY DEF ResolveInv, StageParts, OnlyNewIsBuilt, StatusLast, AllWritten, OrderInv, WriterInv, WriterParts, NoThreadYet,
         TypeInv, TypeOK
<1>2. dbFile # "absent"
  BY <1>1 DEF ResolveInv, OrderInv, OrderParts, EmptyAtFirst, BeforeReading
<1>. QED BY <1>1, <1>2 DEF Building, BeforeReading, LoaderStates

(* A thread takes names and rows as they are to the index.                 *)
LEMMA ResolveCommitter ==
  ASSUME ResolveInv, NEW t \in DOMAIN threads, CommitterNext(t), WriterInv'
  PROVE  StageParts' /\ IdParts' /\ RowParts'
<1>. USE DEF dbVars, txnVars, readVars, loaderVars
<1>. DEFINE Others == /\ DOMAIN threads' = DOMAIN threads /\ Len(threads') = Len(threads)
                      /\ \A u \in DOMAIN threads : u # t => threads'[u] = threads[u]
                      /\ threads'[t].rows = threads[t].rows /\ threads'[t].ents = threads[t].ents
            Frame == UNCHANGED <<newDb, dbFile, files, fileTable, status, cur, time, records,
                                 dict, nextId, newEnts, pc>>
<1>0. /\ RowParts /\ IdParts /\ StageParts /\ WriterInv /\ TypeOK
      /\ Building /\ pc \notin BeforeReading /\ dbFile # "absent" /\ ~(Reading /\ time = 0)
      /\ threads[t] \in Threads /\ threads[t].rows \in Seq(Rows)
      /\ journal \in Seq(Rows) /\ pending \in Seq(Rows) /\ threads \in Seq(Threads)
  <2>1. WriterInv /\ TypeOK
    BY DEF ResolveInv, OrderInv, WriterInv, TypeInv
  <2>2. threads # << >>
    OBVIOUS
  <2>. QED BY <2>1, <2>2, ThreadsBuild, ThreadsOfSeq DEF ResolveInv, TypeOK
<1>1. threads[t].pc # "done" /\ \A u \in DOMAIN threads : u # t => threads[u].pc = "done"
  <2>1. threads[t].pc # "done"
    BY DEF CommitterNext, Begin, SaveEntity, InsertEvent, EventsEnd, Commit, Unlock
  <2>. QED BY <1>0, <2>1 DEF WriterInv, WriterParts, OneAtWork
<1>2. ~AllWritten /\ t = Len(threads)
  BY <1>0, <1>1 DEF StageParts, StatusLast, LastWorks
<1>3. ASSUME Others, Frame
      PROVE  StageParts'
  <2>1. LastWorks'
    BY <1>1, <1>2, <1>3 DEF LastWorks
  <2>2. ~AllWritten' /\ ~status'
    BY <1>2, <1>3 DEF AllWritten
  <2>3. StatusLast'
    BY <1>0, <1>3, <2>2 DEF StatusLast, Reading
  <2>4. FilesListed' /\ NothingSavedYet' /\ OnlyNewIsBuilt'
    BY <1>0, <1>3
       DEF StageParts, FilesListed, NothingSavedYet, OnlyNewIsBuilt, Reading, BeforeReading, Building
  <2>. QED BY <2>1, <2>3, <2>4 DEF StageParts
<1>4. ASSUME NEW q \in {"begin", "unlock", "done"} \cup InsideTransaction,
             threads' = [threads EXCEPT ![t].pc = q]
      PROVE  Others /\ threads'[t].pc = q
  <2>1. threads'[t] = [threads[t] EXCEPT !.pc = q]
    BY <1>0, <1>4, ThreadStep
  <2>2. threads[t] \in Threads /\ [threads[t] EXCEPT !.pc = q] \in Threads
    BY <1>0 DEF Threads
  <2>3. Len(threads') = Len(threads)
    BY <1>0, <1>4, <2>1, <2>2, LenProperties
  <2>. QED BY <1>0, <1>4, <2>1, <2>2, <2>3, ThreadStep DEF Threads
<1>5. \A u \in DOMAIN threads : u # t => ~HasRows(u) /\ ~Writing(u)
  BY <1>1 DEF HasRows, Writing, InsideTransaction
<1>6. ASSUME Others, Frame, UNCHANGED <<journal, saved>>, HasRows(t)' <=> HasRows(t),
             \A k \in Kinds : pendingEnts'[k] \subseteq pendingEnts[k] \/
               (HasRows(t) /\ pendingEnts'[k] \subseteq pendingEnts[k] \cup threads[t].ents[k]),
             threads'[t].pc \in {"insert", "commit"} =>
               \A k \in Kinds : threads[t].ents[k] \subseteq pendingEnts'[k],
             Writing(t)' => \A i \in DOMAIN pending' :
               i \in DOMAIN threads[t].rows /\ SameEvent(pending'[i], threads[t].rows[i])
      PROVE  IdParts' /\ RowParts'
  <2>1. \A u \in DOMAIN threads' : (HasRows(u)' => u = t) /\ (Writing(u)' => u = t)
    BY <1>1, <1>6 DEF HasRows, Writing, InsideTransaction
  <2>2. \A k, p : OnItsWay(k, p) <=> OnItsWay(k, p)'
    BY <1>5, <1>6, <2>1 DEF OnItsWay
  <2>3. Building' /\ (Reading' <=> Reading)
    BY <1>0, <1>6 DEF Building, Reading
  <2>4. IdsDistinct'
    BY <1>0, <1>6 DEF IdParts, IdsDistinct
  <2>5. EntsGiven'
    <3>1. \A k \in Kinds : \A p \in saved[k] \cup pendingEnts[k] \cup newEnts[k] : Given(k, p)
      BY <1>0 DEF IdParts, EntsGiven
    <3>2. HasRows(t) => \A k \in Kinds : \A p \in threads[t].ents[k] : Given(k, p)
      BY <1>0 DEF IdParts, EntsGiven
    <3>3. \A k \in Kinds : \A p : Given(k, p)' <=> Given(k, p)
      BY <1>6 DEF Given
    <3>4. \A k \in Kinds : \A p \in saved'[k] \cup pendingEnts'[k] \cup newEnts'[k] : Given(k, p)'
      BY <1>6, <3>1, <3>2, <3>3
    <3>. QED BY <1>6, <2>1, <3>2, <3>3, <3>4 DEF EntsGiven
  <2>6. IdsKept'
    BY <1>0, <1>6, <2>2 DEF IdParts, IdsKept
  <2>7. EntsPending'
    BY <1>1, <1>6, <2>3 DEF EntsPending
  <2>8. RecordsGiven'
    BY <1>0, <1>6, <2>3 DEF RowParts, RecordsGiven, Given
  <2>9. RowsOnTheirWay'
    <3>1. SUFFICES ASSUME HasRows(t), NEW i \in DOMAIN threads[t].rows
                   PROVE  /\ LocatedIn(fileTable', threads'[t].rows[i])
                          /\ \A k \in Kinds : OnItsWay(k, RefIn(fileTable, k, threads[t].rows[i]))'
      BY <1>6, <2>1 DEF RowsOnTheirWay
    <3>2. /\ LocatedIn(fileTable, threads[t].rows[i])
          /\ \A k \in Kinds : OnItsWay(k, RefIn(fileTable, k, threads[t].rows[i]))
      BY <1>0, <3>1 DEF RowParts, RowsOnTheirWay
    <3>3. ASSUME NEW k \in Kinds
          PROVE  OnItsWay(k, RefIn(fileTable, k, threads[t].rows[i]))'
      <4>1. PICK p : p = RefIn(fileTable, k, threads[t].rows[i])
        OBVIOUS
      <4>2. RefIn(fileTable, k, threads[t].rows[i])' = p
        BY <1>6, <4>1
      <4>3. OnItsWay(k, p)'
        BY <2>2, <3>2, <4>1
      <4>. QED BY <4>2, <4>3 DEF OnItsWay
    <3>. QED BY <1>6, <3>2, <3>3
  <2>10. PendingAreEvents'
    BY <1>6, <2>1 DEF PendingAreEvents
  <2>11. JournalResolves' /\ SavedOnce'
    BY <1>0, <1>6 DEF RowParts, JournalResolves, SavedOnce
  <2>. QED BY <2>4, <2>5, <2>6, <2>7, <2>8, <2>9, <2>10, <2>11 DEF IdParts, RowParts
<1>7. ASSUME Writing(t)
      PROVE  \A i \in DOMAIN pending :
               i \in DOMAIN threads[t].rows /\ SameEvent(pending[i], threads[t].rows[i])
  BY <1>0, <1>7 DEF RowParts, PendingAreEvents
<1>8. CASE Begin(t)
  <2>1. ~txn /\ pending = << >>
    <3>1. \A u \in DOMAIN threads : ~Writing(u)
      BY <1>5, <1>8 DEF Begin, Writing, InsideTransaction
    <3>. QED BY <1>0, <1>8, <3>1, BegunOutside DEF WriterInv, WriterParts, PendingIsWritten
  <2>2. /\ threads' = [threads EXCEPT ![t].pc = "save"] /\ pending' = << >>
        /\ Frame /\ UNCHANGED <<journal, saved, pendingEnts>>
    BY <1>8, <2>1 DEF Begin
  <2>3. Others /\ threads'[t].pc = "save"
    BY <1>4, <2>2 DEF InsideTransaction
  <2>4. HasRows(t)' /\ HasRows(t)
    BY <1>8, <2>3 DEF Begin, HasRows, Writing, InsideTransaction
  <2>5. DOMAIN pending' = {}
    BY <2>2
  <2>. QED BY <1>3, <1>6, <2>2, <2>3, <2>4, <2>5
<1>9. CASE SaveEntity(t)
  <2>1. /\ threads' = [threads EXCEPT ![t].pc = "insert"] /\ threads[t].pc = "save"
        /\ Frame /\ UNCHANGED <<journal, saved, pending>>
        /\ pendingEnts' = [k \in Kinds |-> pendingEnts[k] \cup threads[t].ents[k]]
    BY <1>9 DEF SaveEntity
  <2>2. Others /\ threads'[t].pc = "insert"
    BY <1>4, <2>1 DEF InsideTransaction
  <2>3. HasRows(t)' /\ HasRows(t) /\ Writing(t)
    BY <2>1, <2>2 DEF HasRows, Writing, InsideTransaction
  <2>4. \A k \in Kinds : pendingEnts'[k] = pendingEnts[k] \cup threads[t].ents[k]
    BY <2>1
  <2>. QED BY <1>3, <1>6, <1>7, <2>1, <2>2, <2>3, <2>4
<1>10. CASE EventsEnd(t)
  <2>1. /\ threads' = [threads EXCEPT ![t].pc = "commit"] /\ threads[t].pc = "insert"
        /\ Frame /\ UNCHANGED <<journal, saved, pending, pendingEnts>>
    BY <1>10 DEF EventsEnd
  <2>2. Others /\ threads'[t].pc = "commit"
    BY <1>4, <2>1 DEF InsideTransaction
  <2>3. HasRows(t)' /\ HasRows(t) /\ Writing(t)
    BY <2>1, <2>2 DEF HasRows, Writing, InsideTransaction
  <2>4. \A k \in Kinds : threads[t].ents[k] \subseteq pendingEnts[k]
    BY <1>0, <2>1 DEF IdParts, EntsPending
  <2>. QED BY <1>3, <1>6, <1>7, <2>1, <2>2, <2>3, <2>4
<1>11. CASE InsertEvent(t)
  <2>. DEFINE j == threads[t].next
              r == threads[t].rows[j]
              a == threads[t].agr + r.lines
              new == [threads[t] EXCEPT !.next = j + 1, !.agr = a]
              row == [r EXCEPT !.agr = a]
  <2>1. /\ threads[t].pc = "insert" /\ j \in DOMAIN threads[t].rows
        /\ threads' = [threads EXCEPT ![t] = new] /\ pending' = Append(pending, row)
        /\ Frame /\ UNCHANGED <<journal, saved, pendingEnts>>
    BY <1>11 DEF InsertEvent
  <2>2. Writing(t) /\ HasRows(t)
    BY <2>1 DEF Writing, HasRows, InsideTransaction
  <2>3. /\ new.rows = threads[t].rows /\ new.ents = threads[t].ents /\ new.pc = "insert"
    BY <1>0, <2>1 DEF Threads
  <2>4. Others /\ threads'[t].pc = "insert"
    <3>1. /\ DOMAIN threads' = DOMAIN threads /\ threads'[t] = new
          /\ \A u \in DOMAIN threads : u # t => threads'[u] = threads[u]
      BY <1>0, <2>1, LenProperties
    <3>2. threads' \in Seq(Threads)
      <4>1. TypeInv'
        BY <1>0, TypeCommitter DEF WriterInv
      <4>. QED BY <4>1 DEF TypeInv, TypeOK
    <3>3. Len(threads') = Len(threads)
      BY <1>0, <3>1, <3>2, LenProperties
    <3>. HIDE DEF new
    <3>. QED BY <2>3, <3>1, <3>3
  <2>5. SameEvent(row, r)
    <3>1. r \in Rows
      BY <1>0, <2>1, RowsOfSeq
    <3>. HIDE DEF a
    <3>. QED BY <3>1 DEF Rows, SameEvent
  <2>6. j \in Nat \ {0} /\ Len(pending) = j - 1
    BY <1>0, <2>2 DEF Threads, WriterInv, WriterParts, PendingIsWritten
  <2>7. /\ DOMAIN pending' = DOMAIN pending \cup {j}
        /\ \A i \in DOMAIN pending : pending'[i] = pending[i]
        /\ pending'[j] = row
    <3>. HIDE DEF row
    <3>1. /\ Len(Append(pending, row)) = Len(pending) + 1
          /\ DOMAIN Append(pending, row) = 1 .. Len(pending) + 1
          /\ \A i \in 1 .. Len(pending) : Append(pending, row)[i] = pending[i]
          /\ Append(pending, row)[Len(pending) + 1] = row
          /\ DOMAIN pending = 1 .. Len(pending) /\ Len(pending) \in Nat
      BY <1>0
    <3>. QED BY <2>1, <2>6, <3>1
  <2>. HIDE DEF row, new
  <2>8. \A i \in DOMAIN pending' :
          i \in DOMAIN threads[t].rows /\ SameEvent(pending'[i], threads[t].rows[i])
    BY <1>7, <2>1, <2>2, <2>5, <2>7
  <2>9. HasRows(t)'
    BY <2>4 DEF HasRows, Writing, InsideTransaction
  <2>10. \A k \in Kinds : threads[t].ents[k] \subseteq pendingEnts[k]
    BY <1>0, <2>1 DEF IdParts, EntsPending
  <2>. QED BY <1>3, <1>6, <2>1, <2>2, <2>4, <2>8, <2>9, <2>10
<1>12. CASE Commit(t)
  <2>1. Writing(t) /\ HasRows(t) /\ txn /\ threads[t].pc = "commit"
    BY <1>0, <1>12 DEF Commit, HasRows, Writing, InsideTransaction, WriterInv, WriterParts, TxnHeld, LoadOwns
  <2>2. /\ threads' = [threads EXCEPT ![t].pc = "unlock"] /\ pending' = << >>
        /\ pendingEnts' = NoEntities /\ journal' = journal \o pending /\ Frame
        /\ saved' = [k \in Kinds |-> saved[k] \cup
             {p \in pendingEnts[k] : \A q \in saved[k] : q[1] # p[1]}]
    BY <1>12, <2>1 DEF Commit
  <2>3. Others /\ threads'[t].pc = "unlock"
    BY <1>4, <2>2
  <2>4. \A u \in DOMAIN threads' : ~HasRows(u)' /\ ~Writing(u)'
    BY <1>1, <2>3 DEF HasRows, Writing, InsideTransaction
  <2>5. \A k \in Kinds : \A p \in saved[k] \cup pendingEnts[k] : p \in Nat \X Names /\ Given(k, p)
    BY <1>0, EntityType DEF IdParts, EntsGiven
  <2>6. \A k \in Kinds : saved'[k] = saved[k] \cup pendingEnts[k]
    <3>1. SUFFICES ASSUME NEW k \in Kinds, NEW p \in pendingEnts[k], NEW q \in saved[k], q[1] = p[1]
                   PROVE  p \in saved[k]
      BY <2>2
    <3>2. p = q
      BY <1>0, <2>5, <3>1, GivenOnce
    <3>. QED BY <3>2
  <2>7. \A k \in Kinds : \A p : OnItsWay(k, p) => p \in saved'[k]
    <3>1. \A k \in Kinds : threads[t].ents[k] \subseteq pendingEnts[k]
      BY <1>0, <2>1 DEF IdParts, EntsPending
    <3>. QED BY <1>5, <2>6, <3>1 DEF OnItsWay
  <2>8. Building' /\ (Reading' <=> Reading)
    BY <1>0, <2>2 DEF Building, Reading
  <2>9. IdsDistinct' /\ EntsPending'
    BY <1>0, <1>1, <2>2, <2>3, <2>8 DEF IdParts, IdsDistinct, EntsPending
  <2>10. EntsGiven'
    <3>1. \A k \in Kinds : \A p \in newEnts[k] : Given(k, p)
      BY <1>0 DEF IdParts, EntsGiven
    <3>2. \A k \in Kinds : pendingEnts'[k] = {}
      BY <2>2 DEF NoEntities
    <3>3. \A k \in Kinds : \A p : Given(k, p) => Given(k, p)'
      BY <2>2 DEF Given
    <3>4. \A k \in Kinds : \A p \in saved'[k] \cup pendingEnts'[k] \cup newEnts'[k] : Given(k, p)'
      BY <2>2, <2>5, <2>6, <3>1, <3>2, <3>3
    <3>. QED BY <2>4, <3>4 DEF EntsGiven
  <2>11. IdsKept'
    BY <1>0, <2>2, <2>7 DEF IdParts, IdsKept, OnItsWay
  <2>12. RecordsGiven' /\ RowsOnTheirWay' /\ PendingAreEvents'
    BY <1>0, <2>2, <2>4, <2>8 DEF RowParts, RecordsGiven, RowsOnTheirWay, PendingAreEvents, Given
  <2>13. SavedOnce'
    <3>1. SUFFICES ASSUME NEW k \in Kinds, NEW p \in saved'[k], NEW q \in saved'[k], p[1] = q[1]
                   PROVE  p = q
      BY DEF SavedOnce
    <3>. QED BY <1>0, <2>5, <2>6, <3>1, GivenOnce
  <2>14. \A i \in DOMAIN pending :
           /\ LocatedIn(fileTable, pending[i])
           /\ \A k \in Kinds : RefIn(fileTable, k, pending[i]) \in saved'[k]
    <3>1. SUFFICES ASSUME NEW i \in DOMAIN pending
                   PROVE  /\ LocatedIn(fileTable, pending[i])
                          /\ \A k \in Kinds : RefIn(fileTable, k, pending[i]) \in saved'[k]
      OBVIOUS
    <3>2. i \in DOMAIN threads[t].rows /\ SameEvent(pending[i], threads[t].rows[i])
      BY <1>7, <2>1
    <3>3. /\ LocatedIn(fileTable, threads[t].rows[i])
          /\ \A k \in Kinds : OnItsWay(k, RefIn(fileTable, k, threads[t].rows[i]))
      BY <1>0, <2>1, <3>2 DEF RowParts, RowsOnTheirWay
    <3>. QED BY <2>7, <3>2, <3>3, SameEventIn
  <2>15. \A i \in DOMAIN journal :
           /\ LocatedIn(fileTable, journal[i])
           /\ \A k \in Kinds : RefIn(fileTable, k, journal[i]) \in saved'[k]
    BY <1>0, <2>6 DEF RowParts, JournalResolves, Building
  <2>16. JournalResolves'
    <3>1. SUFFICES ASSUME NEW i \in DOMAIN journal'
                   PROVE  /\ LocatedIn(fileTable, journal'[i])
                          /\ \A k \in Kinds : RefIn(fileTable, k, journal'[i]) \in saved'[k]
      BY <2>2 DEF JournalResolves
    <3>2. (\E j \in DOMAIN journal : journal'[i] = journal[j])
          \/ (\E j \in DOMAIN pending : journal'[i] = pending[j])
      BY <1>0, <2>2, <3>1, ConcatRows
    <3>. QED BY <2>14, <2>15, <3>2
  <2>. QED BY <1>3, <2>2, <2>3, <2>9, <2>10, <2>11, <2>12, <2>13, <2>16 DEF IdParts, RowParts
<1>13. CASE Unlock(t)
  <2>1. /\ threads' = [threads EXCEPT ![t].pc = "done"] /\ threads[t].pc = "unlock"
        /\ Frame /\ UNCHANGED <<journal, saved, pending, pendingEnts>>
    BY <1>13 DEF Unlock
  <2>2. Others /\ threads'[t].pc = "done"
    BY <1>4, <2>1
  <2>3. ~HasRows(t)' /\ ~HasRows(t) /\ ~Writing(t)'
    BY <2>1, <2>2 DEF HasRows, Writing, InsideTransaction
  <2>. QED BY <1>3, <1>6, <2>1, <2>2, <2>3
<1>. QED BY <1>8, <1>9, <1>10, <1>11, <1>12, <1>13 DEF CommitterNext

(* What a dying process leaves resolves too, and an index that is complete *)
(* has lost nothing: its last hour was written before the status row.      *)
LEMMA ResolveKill ==
  ASSUME ResolveInv, Kill
  PROVE  StageParts' /\ IdParts' /\ RowParts'
<1>0. /\ RowParts /\ IdParts /\ StageParts /\ WriterInv /\ TypeOK
      /\ journal \in Seq(Rows) /\ pending \in Seq(Rows)
  BY DEF ResolveInv, OrderInv, WriterInv, TypeInv, TypeOK
<1>1. /\ threads' = << >> /\ pc' = "start" /\ newDb' = FALSE /\ status' = status
      /\ pendingEnts' = NoEntities /\ dbFile' # "absent"
  BY DEF Kill, ResolveInv, OrderInv, OrderParts, EmptyAtFirst
<1>2. StageParts'
  BY <1>0, <1>1 DEF StageParts, FilesListed, OnlyNewIsBuilt, NothingSavedYet, LastWorks, StatusLast, AllWritten,
                    Reading
<1>3. IdParts'
  BY <1>1 DEF IdParts, IdsDistinct, EntsGiven, IdsKept, EntsPending, Building
<1>4. RecordsGiven' /\ RowsOnTheirWay' /\ PendingAreEvents'
  BY <1>1 DEF RecordsGiven, RowsOnTheirWay, PendingAreEvents, Reading
<1>5. PICK n \in 0 .. Len(pending) : journal' = journal \o SubSeq(pending, 1, n)
  BY DEF Kill
<1>6. \A k \in Kinds : saved[k] \subseteq saved'[k] /\ saved'[k] \subseteq saved[k] \cup pendingEnts[k]
  BY DEF Kill
<1>7. SavedOnce'
  <2>1. SUFFICES ASSUME NEW k \in Kinds, NEW p \in saved'[k], NEW q \in saved'[k], p[1] = q[1]
                 PROVE  p = q
    BY DEF SavedOnce
  <2>2. CASE Building
    <3>1. \A x \in saved[k] \cup pendingEnts[k] : x \in Nat \X Names /\ Given(k, x)
      BY <1>0, <2>2, EntityType DEF IdParts, EntsGiven
    <3>. QED BY <1>0, <1>6, <2>1, <2>2, <3>1, GivenOnce
  <2>3. CASE ~Building
    <3>1. saved'[k] = saved[k]
      BY <1>0, <1>6, <2>3 DEF IdParts, EntsPending, NoEntities
    <3>. QED BY <1>0, <2>1, <3>1 DEF RowParts, SavedOnce
  <2>. QED BY <2>2, <2>3
<1>8. CASE threads = << >>
  <2>1. pending = << >>
    BY <1>0, <1>8 DEF WriterInv, WriterParts, PendingIsWritten
  <2>2. journal' = journal
    <3>1. SubSeq(pending, 1, n) = << >>
      BY <1>5, <2>1, EmptySeq, SubSeqEmpty
    <3>. QED BY <1>0, <1>5, <3>1, ConcatEmptySeq
  <2>3. journal = << >> \/ fileTable' = fileTable
    <3>1. CASE pc = "commitFiles"
      BY <1>0, <3>1 DEF ResolveInv, OrderInv, OrderParts, EmptyAtFirst, StageParts, OnlyNewIsBuilt
    <3>2. CASE pc # "commitFiles"
      BY <3>2 DEF Kill
    <3>. QED BY <3>1, <3>2
  <2>4. JournalResolves'
    BY <1>0, <1>1, <1>6, <2>2, <2>3 DEF RowParts, JournalResolves
  <2>. QED BY <1>2, <1>3, <1>4, <1>7, <2>4 DEF RowParts
<1>9. CASE threads # << >>
  <2>1. fileTable' = fileTable
    <3>1. pc # "commitFiles"
      BY <1>9, ThreadsBuild DEF BeforeReading
    <3>. QED BY <3>1 DEF Kill
  <2>2. CASE \A t \in DOMAIN threads : ~Writing(t)
    <3>1. pending = << >>
      BY <1>0, <2>2 DEF WriterInv, WriterParts, PendingIsWritten
    <3>2. journal' = journal
      <4>1. SubSeq(pending, 1, n) = << >>
        BY <1>5, <3>1, EmptySeq, SubSeqEmpty
      <4>. QED BY <1>0, <1>5, <4>1, ConcatEmptySeq
    <3>3. JournalResolves'
      BY <1>0, <1>1, <1>6, <2>1, <3>2 DEF RowParts, JournalResolves
    <3>. QED BY <1>2, <1>3, <1>4, <1>7, <3>3 DEF RowParts
  <2>3. ASSUME NEW t \in DOMAIN threads, Writing(t)
        PROVE  JournalResolves'
    <3>1. ~status
      BY <1>0, <2>3 DEF StageParts, StatusLast, AllWritten, Writing, InsideTransaction
    <3>2. \A i \in DOMAIN pending : LocatedIn(fileTable, pending[i])
      <4>1. ASSUME NEW i \in DOMAIN pending
            PROVE  LocatedIn(fileTable, pending[i])
        <5>1. i \in DOMAIN threads[t].rows /\ SameEvent(pending[i], threads[t].rows[i])
          BY <1>0, <2>3 DEF RowParts, PendingAreEvents
        <5>2. LocatedIn(fileTable, threads[t].rows[i])
          BY <1>0, <2>3, <5>1 DEF RowParts, RowsOnTheirWay, HasRows
        <5>. QED BY <5>1, <5>2, SameEventIn
      <4>. QED BY <4>1
    <3>3. \A i \in DOMAIN journal : LocatedIn(fileTable, journal[i])
      BY <1>0 DEF RowParts, JournalResolves
    <3>4. ASSUME NEW i \in DOMAIN journal'
          PROVE  LocatedIn(fileTable, journal'[i])
      <4>1. /\ SubSeq(pending, 1, n) \in Seq(Rows)
            /\ DOMAIN SubSeq(pending, 1, n) \subseteq DOMAIN pending
            /\ \A j \in DOMAIN SubSeq(pending, 1, n) : SubSeq(pending, 1, n)[j] = pending[j]
        BY <1>0, <1>5, PrefixRows
      <4>2. (\E j \in DOMAIN journal : journal'[i] = journal[j])
            \/ (\E j \in DOMAIN SubSeq(pending, 1, n) : journal'[i] = SubSeq(pending, 1, n)[j])
        BY <1>0, <1>5, <3>4, <4>1, ConcatRows
      <4>. QED BY <3>2, <3>3, <4>1, <4>2
    <3>. QED BY <1>1, <2>1, <3>1, <3>4 DEF JournalResolves
  <2>. QED BY <1>2, <1>3, <1>4, <1>7, <2>2, <2>3 DEF RowParts
<1>. QED BY <1>8, <1>9

(* Some steps are not noticed by the rows and the ids: of the index at     *)
(* most the status row is lost, and of the rest at most the transaction    *)
(* and the loader's totals change.                                         *)
Unnoticed ==
  /\ UNCHANGED <<dbFile, fileTable, journal, saved, pending, pendingEnts, cur, evt, time, records,
                 dict, nextId, newEnts, newDb, files, pc, filesIsRead, threads>>
  /\ status' \in BOOLEAN /\ (status' => status)

LEMMA ResolveUnnoticed ==
  ASSUME ResolveInv, WriterInv', Unnoticed
  PROVE  ResolveInv'
<1>1. OrderParts'
  BY DEF Unnoticed, ResolveInv, OrderInv, OrderParts, SortedByTime, EmptyAtFirst, FilesInOrder,
         HoursAhead, RecordsOfHour, WrittenBefore, RowsFollowJournal, PendingAreRows, Reading,
         HasRows, Writing
<1>2. FilesListed' /\ OnlyNewIsBuilt' /\ NothingSavedYet' /\ LastWorks'
  BY DEF Unnoticed, ResolveInv, StageParts, FilesListed, OnlyNewIsBuilt, NothingSavedYet, LastWorks,
         Reading
<1>3. StatusLast'
  BY DEF Unnoticed, ResolveInv, StageParts, StatusLast, AllWritten, Reading
<1>4. IdParts'
  BY DEF Unnoticed, ResolveInv, IdParts, IdsDistinct, EntsGiven, IdsKept, EntsPending, Building,
         Given, OnItsWay, HasRows, Writing
<1>5. RowParts'
  BY DEF Unnoticed, ResolveInv, RowParts, RecordsGiven, RowsOnTheirWay, PendingAreEvents,
         JournalResolves, SavedOnce, Reading, Given, OnItsWay, HasRows, Writing
<1>. QED BY <1>1, <1>2, <1>3, <1>4, <1>5 DEF ResolveInv, OrderInv, StageParts

(* The invariant is kept by every step.                                    *)
LEMMA ResolveNext == ResolveInv /\ WriterInv' /\ [Next]_vars => ResolveInv'
<1>. SUFFICES ASSUME ResolveInv, WriterInv', [Next]_vars PROVE ResolveInv'
  OBVIOUS
<1>1. OrderInv'
  BY OrderNext DEF ResolveInv
<1>2. CASE LoaderNext
  BY <1>1, <1>2, StageLoader, IdLoader, RowLoader DEF ResolveInv
<1>3. CASE \E t \in DOMAIN threads : CommitterNext(t)
  BY <1>1, <1>3, ResolveCommitter DEF ResolveInv
<1>4. CASE Kill
  BY <1>1, <1>4, ResolveKill DEF ResolveInv
<1>5. CASE Ended \/ UNCHANGED vars
  <2>1. status \in BOOLEAN
    BY DEF ResolveInv, OrderInv, WriterInv, TypeInv, TypeOK
  <2>2. Unnoticed
    BY <1>5, <2>1 DEF Unnoticed, Ended, vars, dbVars, txnVars, readVars, loaderVars
  <2>. QED BY <2>2, ResolveUnnoticed
<1>. QED BY <1>2, <1>3, <1>4, <1>5 DEF Next

(* A row of the journal leads to its event at its time; in an index that   *)
(* is complete, or that the living process builds, the names it refers to  *)
(* are there; and no id stands for two names, in an index left behind too. *)
THEOREM EveryRowResolves == Spec => []RowsResolve
<1>1. ResolveInv => RowsResolve
  <2>. SUFFICES ASSUME ResolveInv PROVE RowsResolve
    OBVIOUS
  <2>1. JournalResolves /\ SavedOnce
    BY DEF ResolveInv, RowParts
  <2>2. ASSUME NEW r, LocatedIn(fileTable, r)
        PROVE  /\ r.file_id + 1 \in DOMAIN fileTable
               /\ EventOf(r) \in IndexedEvents /\ r.time = TimeOf(EventOf(r))
    BY <2>2 DEF LocatedIn, EventIn, EventOf
  <2>3. \A r : /\ RefIn(fileTable, "process", r) = <<r.process_id, Process[EventOf(r)[1]]>>
               /\ RefIn(fileTable, "event", r) = <<r.event_id, Events[EventOf(r)[1]][r.start].name>>
    BY DEF RefIn, EventIn, EventOf
  <2>4. \A i \in DOMAIN journal : newDb \/ status =>
          /\ RefIn(fileTable, "process", journal[i]) \in saved["process"]
          /\ RefIn(fileTable, "event", journal[i]) \in saved["event"]
    BY <2>1 DEF JournalResolves, Kinds
  <2>5. ASSUME NEW i \in DOMAIN journal
        PROVE  /\ journal[i].file_id + 1 \in DOMAIN fileTable
               /\ EventOf(journal[i]) \in IndexedEvents
               /\ journal[i].time = TimeOf(EventOf(journal[i]))
    <3>1. LocatedIn(fileTable, journal[i])
      BY <2>1 DEF JournalResolves
    <3>. QED BY <2>2, <3>1
  <2>6. ASSUME NEW i \in DOMAIN journal, newDb \/ status
        PROVE  /\ <<journal[i].process_id, Process[EventOf(journal[i])[1]]>> \in saved["process"]
               /\ <<journal[i].event_id, Events[EventOf(journal[i])[1]][journal[i].start].name>>
                    \in saved["event"]
    BY <2>3, <2>4, <2>6, Zenon
  <2>7. \A k \in Kinds : \A p, q \in saved[k] : p[1] = q[1] => p = q
    BY <2>1 DEF SavedOnce
  <2>. QED BY <2>5, <2>6, <2>7, Zenon DEF RowsResolve
<1>. QED BY <1>1, WritersAlways, ResolveInit, ResolveNext, PTL DEF Spec

-----------------------------------------------------------------------------
(* A sequence of rows lists a set of events when each of them has a row,   *)
(* and only one: the rows are as many as the events.                       *)
ListedIn(table, rs) == {EventIn(table, rs[i]) : i \in DOMAIN rs}

Lists(table, rs, S) == ListedIn(table, rs) = S /\ Len(rs) = Cardinality(S)

HourEvents(h) == {e \in IndexedEvents : HourOf(e) = h}

EventsBefore(h) == {e \in IndexedEvents : HourOf(e) < h}

(* The events of a directory are finitely many.                            *)
LEMMA EventsFinite ==
  /\ \A e : e \in IndexedEvents <=>
       /\ e = <<e[1], e[2]>> /\ e[1] \in Indexable /\ e[1] \in LogFiles
       /\ e[2] \in DOMAIN Events[e[1]] /\ e[2] \in Nat \ {0}
  /\ IsFiniteSet(IndexedEvents)
  /\ \A S \in SUBSET IndexedEvents : IsFiniteSet(S)
<1>1. \A f \in LogFiles : Len(Events[f]) \in Nat /\ DOMAIN Events[f] = 1 .. Len(Events[f])
  BY LoaderAssumption, LenProperties
<1>. DEFINE part == [f \in LogFiles |-> {f} \X DOMAIN Events[f]]
            P == {part[f] : f \in LogFiles}
<1>2. IsFiniteSet(P)
  <2>1. part \in Surjection(LogFiles, P)
    BY DEF Surjection
  <2>. HIDE DEF P, part
  <2>. QED BY <2>1, LoaderAssumption, FS_Surjection
<1>3. \A x \in P : IsFiniteSet(x)
  <2>1. \A f \in LogFiles : IsFiniteSet(1 .. Len(Events[f]))
    BY <1>1, IntervalFinite
  <2>2. \A f \in LogFiles : IsFiniteSet({f})
    BY FS_Singleton
  <2>3. \A f \in LogFiles : IsFiniteSet({f} \X (1 .. Len(Events[f])))
    BY <2>1, <2>2, FS_Product
  <2>4. \A f \in LogFiles : IsFiniteSet({f} \X DOMAIN Events[f])
    BY <1>1, <2>3
  <2>. QED BY <2>4
<1>4. EventIds = UNION P
  BY DEF EventIds
<1>5. IsFiniteSet(EventIds)
  <2>. HIDE DEF P
  <2>. QED BY <1>2, <1>3, <1>4, FS_UNION
<1>6. IsFiniteSet(IndexedEvents)
  <2>1. IndexedEvents \in SUBSET EventIds
    BY DEF IndexedEvents
  <2>. QED BY <1>5, <2>1, FS_Subset
<1>7. \A S \in SUBSET IndexedEvents : IsFiniteSet(S)
  BY <1>6, FS_Subset
<1>8. ASSUME NEW e
      PROVE  e \in IndexedEvents <=>
               /\ e = <<e[1], e[2]>> /\ e[1] \in Indexable /\ e[1] \in LogFiles
               /\ e[2] \in DOMAIN Events[e[1]] /\ e[2] \in Nat \ {0}
  <2>1. e \in EventIds <=> \E f \in LogFiles : e \in {f} \X DOMAIN Events[f]
    BY DEF EventIds
  <2>2. \A f \in LogFiles : e \in {f} \X DOMAIN Events[f] <=>
          e = <<e[1], e[2]>> /\ e[1] = f /\ e[2] \in DOMAIN Events[f]
    OBVIOUS
  <2>3. e \in EventIds <=>
          e = <<e[1], e[2]>> /\ e[1] \in LogFiles /\ e[2] \in DOMAIN Events[e[1]]
    BY <2>1, <2>2
  <2>4. e[1] \in LogFiles => \A j \in DOMAIN Events[e[1]] : j \in Nat \ {0}
    BY <1>1
  <2>. QED BY <2>3, <2>4 DEF IndexedEvents
<1>. QED BY <1>6, <1>7, <1>8

(* No row lists no event.                                                  *)
LEMMA ListsNone ==
  ASSUME NEW table
  PROVE  Lists(table, << >>, {})
<1>1. Len(<< >>) = 0 /\ DOMAIN << >> = {} /\ Cardinality({}) = 0
  BY FS_EmptySet
<1>. QED BY <1>1 DEF Lists, ListedIn

(* Rows listed after rows of other events.                                 *)
LEMMA ListsConcat ==
  ASSUME NEW table, NEW a \in Seq(Rows), NEW b \in Seq(Rows), NEW A, NEW B,
         IsFiniteSet(A), IsFiniteSet(B), A \cap B = {}, Lists(table, a, A), Lists(table, b, B)
  PROVE  Lists(table, a \o b, A \cup B)
<1>. DEFINE c == a \o b
<1>1. /\ Len(a) \in Nat /\ DOMAIN a = 1 .. Len(a) /\ Len(b) \in Nat /\ DOMAIN b = 1 .. Len(b)
      /\ Len(c) = Len(a) + Len(b) /\ DOMAIN c = 1 .. Len(a) + Len(b)
      /\ \A i \in 1 .. Len(a) + Len(b) : c[i] = IF i <= Len(a) THEN a[i] ELSE b[i - Len(a)]
  BY ConcatProperties, LenProperties
<1>2. Cardinality(A \cup B) = Cardinality(A) + Cardinality(B)
  BY DisjointUnion
<1>3. \A i \in DOMAIN a : i \in DOMAIN c /\ c[i] = a[i]
  BY <1>1
<1>4. ASSUME NEW i \in DOMAIN b
      PROVE  \E j \in DOMAIN c : c[j] = b[i]
  <2>1. /\ Len(a) + i \in DOMAIN c /\ ~ (Len(a) + i <= Len(a)) /\ Len(a) + i - Len(a) = i
        /\ Len(a) + i \in 1 .. Len(a) + Len(b)
    BY <1>1
  <2>2. c[Len(a) + i] = b[i]
    <3>. HIDE DEF c
    <3>. QED BY <1>1, <2>1
  <2>. HIDE DEF c
  <2>. QED BY <2>1, <2>2
<1>5. \A i \in DOMAIN c : (\E j \in DOMAIN a : c[i] = a[j]) \/ (\E j \in DOMAIN b : c[i] = b[j])
  BY ConcatRows
<1>. HIDE DEF c
<1>6. ListedIn(table, c) = ListedIn(table, a) \cup ListedIn(table, b)
  <2>. DEFINE ev(r) == EventIn(table, r)
  <2>. HIDE DEF ev
  <2>1. \A x : x \in {ev(c[i]) : i \in DOMAIN c} <=> \E i \in DOMAIN c : x = ev(c[i])
    OBVIOUS
  <2>2. {ev(c[i]) : i \in DOMAIN c} = {ev(a[i]) : i \in DOMAIN a} \cup {ev(b[i]) : i \in DOMAIN b}
    BY <1>3, <1>4, <1>5
  <2>. QED BY <2>2 DEF ListedIn, ev
<1>7. Len(c) = Cardinality(A \cup B)
  BY <1>1, <1>2 DEF Lists
<1>. QED BY <1>6, <1>7 DEF Lists, c

(* A row of an event that is not listed yet.                               *)
LEMMA ListsAppend ==
  ASSUME NEW table, NEW rs \in Seq(Rows), NEW r \in Rows, NEW S, IsFiniteSet(S),
         Lists(table, rs, S), EventIn(table, r) \notin S
  PROVE  Lists(table, Append(rs, r), S \cup {EventIn(table, r)})
<1>. DEFINE n == Len(rs)
            ss == Append(rs, r)
            e == EventIn(table, r)
<1>1. /\ n \in Nat /\ DOMAIN rs = 1 .. n /\ DOMAIN ss = 1 .. n + 1 /\ Len(ss) = n + 1
      /\ ss[n + 1] = r /\ \A i \in 1 .. n : ss[i] = rs[i]
  BY AppendProperties, LenProperties
<1>2. Cardinality(S \cup {e}) = Cardinality(S) + 1
  <2>. HIDE DEF e
  <2>. QED BY FS_AddElement DEF e
<1>. HIDE DEF ss, n
<1>3. DOMAIN ss = DOMAIN rs \cup {n + 1}
  BY <1>1
<1>4. ListedIn(table, ss) = ListedIn(table, rs) \cup {e}
  <2>. DEFINE ev(x) == EventIn(table, x)
  <2>. HIDE DEF ev
  <2>1. {ev(ss[i]) : i \in DOMAIN ss} = {ev(rs[i]) : i \in DOMAIN rs} \cup {ev(r)}
    BY <1>1, <1>3
  <2>. QED BY <2>1 DEF ListedIn, ev
<1>. HIDE DEF e
<1>5. Len(ss) = Cardinality(S \cup {e})
  BY <1>1, <1>2 DEF Lists, n
<1>. QED BY <1>4, <1>5 DEF Lists, ss, e

(* Rows of the same events in the same places.                             *)
LEMMA ListsSame ==
  ASSUME NEW table, NEW a \in Seq(Rows), NEW b \in Seq(Rows), NEW S, Lists(table, b, S),
         Len(a) = Len(b), \A i \in DOMAIN a : EventIn(table, a[i]) = EventIn(table, b[i])
  PROVE  Lists(table, a, S)
<1>1. DOMAIN a = DOMAIN b
  BY LenProperties
<1>2. ListedIn(table, a) = ListedIn(table, b)
  BY <1>1 DEF ListedIn
<1>. QED BY <1>2 DEF Lists

(* Sorted rows list the same events.                                       *)
LEMMA ListsSorted ==
  ASSUME NEW table, NEW rs \in Seq(Rows), NEW ss \in TimeSorted(rs), NEW S, Lists(table, rs, S)
  PROVE  Lists(table, ss, S)
<1>1. PICK p \in Bijection(DOMAIN rs, DOMAIN rs) : ss = [i \in DOMAIN rs |-> rs[p[i]]]
  BY DEF TimeSorted
<1>2. /\ p \in [DOMAIN rs -> DOMAIN rs] /\ \A j \in DOMAIN rs : \E i \in DOMAIN rs : p[i] = j
  BY DEF Bijection, Injection, Surjection
<1>3. DOMAIN ss = DOMAIN rs /\ \A i \in DOMAIN ss : ss[i] = rs[p[i]]
  BY <1>1
<1>4. ListedIn(table, ss) = ListedIn(table, rs)
  <2>1. \A x : x \in ListedIn(table, ss) => x \in ListedIn(table, rs)
    BY <1>2, <1>3 DEF ListedIn
  <2>2. \A x : x \in ListedIn(table, rs) => x \in ListedIn(table, ss)
    BY <1>2, <1>3 DEF ListedIn
  <2>. QED BY <2>1, <2>2
<1>5. Len(ss) = Len(rs)
  BY TimeSortedType
<1>. QED BY <1>4, <1>5 DEF Lists

(* The list of files has every file once.                                  *)
LEMMA HourSortedOnce ==
  ASSUME NEW s \in HourSortedFiles
  PROVE  /\ \A f \in LogFiles : \E i \in DOMAIN s : s[i] = f
         /\ \A i, j \in DOMAIN s : s[i] = s[j] => i = j
<1>. DEFINE N == Cardinality(LogFiles)
<1>1. N \in Nat
  BY LoaderAssumption, FS_CardinalityType
<1>2. IsFiniteSet(1 .. N) /\ Cardinality(1 .. N) = N
  BY <1>1, IntervalFinite
<1>3. s \in [1 .. N -> LogFiles] /\ \A f \in LogFiles : \E i \in DOMAIN s : s[i] = f
  BY DEF HourSortedFiles
<1>4. s \in Surjection(1 .. N, LogFiles)
  BY <1>3 DEF Surjection
<1>5. s \in Injection(1 .. N, LogFiles)
  <2>. DEFINE D == 1 .. N
  <2>. HIDE DEF D
  <2>1. IsFiniteSet(D) /\ Cardinality(D) = Cardinality(LogFiles) /\ s \in Surjection(D, LogFiles)
    BY <1>2, <1>4 DEF D
  <2>2. s \in Injection(D, LogFiles)
    BY <2>1, FS_SurjSameCardinalityImpliesInj
  <2>. QED BY <2>2 DEF D
<1>6. \A i, j \in DOMAIN s : s[i] = s[j] => i = j
  BY <1>3, <1>5 DEF Injection, IsInjective
<1>. QED BY <1>3, <1>6

-----------------------------------------------------------------------------
(* Why nothing is missing and nothing is there twice.  The journal lists   *)
(* the events of the hours before the one a thread writes, the thread's    *)
(* rows those of that hour, and the loader's records what it has read of   *)
(* the next.                                                               *)
ReadOf(h) ==
  {e \in HourEvents(h) : \E i \in DOMAIN files :
     e[1] = files[i] /\ (i < cur \/ (i = cur /\ pc = "events" /\ e[2] < evt))}

(* The events that have left the loader.                                   *)
Passed == IF pc = "await" THEN IndexedEvents ELSE EventsBefore(time)

EveryFileOnce ==
  newDb /\ (Reading \/ pc \in {"commitFiles", "readFiles"}) =>
    /\ \A f \in LogFiles : \E i \in DOMAIN files : files[i] = f
    /\ \A i, j \in DOMAIN files : files[i] = files[j] => i = j

HoursBehind == Reading => \A i \in DOMAIN files : i < cur => Hour[files[i]] <= time

HourRead == Reading => Lists(fileTable, records, ReadOf(time))

(* Thread t writes the hour h.                                             *)
WritesHour(t, h) ==
  /\ Lists(fileTable, journal, EventsBefore(h))
  /\ Lists(fileTable, threads[t].rows, HourEvents(h))
  /\ Passed = EventsBefore(h) \cup HourEvents(h)

HoursWritten ==
  Reading \/ pc = "await" =>
    /\ (\A t \in DOMAIN threads : ~HasRows(t)) => Lists(fileTable, journal, Passed)
    /\ \A t \in DOMAIN threads : HasRows(t) => \E h \in Nat : WritesHour(t, h)

AllListed == Lists(fileTable, journal, IndexedEvents)

StatusTrue == AllWritten => AllListed

StatusShown ==
  /\ pc = "start" => ~newDb
  /\ filesIsRead => pc = "done"

CompleteParts ==
  /\ EveryFileOnce /\ HoursBehind /\ HourRead /\ HoursWritten /\ StatusTrue /\ StatusShown

CompleteInv == ResolveInv /\ CompleteParts

(* It holds before the program starts.                                     *)
LEMMA CompleteInit == Init => CompleteInv
BY ResolveInit
   DEF Init, CompleteInv, CompleteParts, EveryFileOnce, HoursBehind, HourRead, HoursWritten,
       StatusTrue, AllWritten, StatusShown, Reading

(* What the loader and the hours it has passed have in common.             *)
LEMMA CompleteFacts ==
  ASSUME CompleteInv
  PROVE  /\ TypeOK /\ files \in Seq(LogFiles) /\ records \in Seq(Rows) /\ journal \in Seq(Rows)
         /\ pending \in Seq(Rows) /\ threads \in Seq(Threads)
         /\ DOMAIN files = 1 .. Len(files) /\ Len(files) \in Nat
         /\ time \in Nat /\ cur \in Nat \ {0} /\ evt \in Nat \ {0}
         /\ \A f \in LogFiles : Hour[f] \in Nat \ {0}
         /\ \A i \in DOMAIN files : files[i] \in LogFiles
         /\ OrderParts /\ WriterInv /\ StageParts /\ RowParts /\ CompleteParts
<1>1. TypeOK /\ OrderParts /\ WriterInv /\ StageParts /\ RowParts /\ CompleteParts
  BY DEF CompleteInv, ResolveInv, OrderInv, WriterInv, TypeInv
<1>2. /\ files \in Seq(LogFiles) /\ records \in Seq(Rows) /\ journal \in Seq(Rows)
      /\ pending \in Seq(Rows) /\ threads \in Seq(Threads)
      /\ time \in Nat /\ cur \in Nat \ {0} /\ evt \in Nat \ {0}
  BY <1>1 DEF TypeOK
<1>3. DOMAIN files = 1 .. Len(files) /\ Len(files) \in Nat
  BY <1>2, LenProperties
<1>4. \A i \in DOMAIN files : files[i] \in LogFiles
  BY <1>2, <1>3, ElementOfSeq
<1>5. \A f \in LogFiles : Hour[f] \in Nat \ {0}
  BY LoaderAssumption
<1>. QED BY <1>1, <1>2, <1>3, <1>4, <1>5

(* The events of an hour, and of the hours before it.                      *)
LEMMA HoursOfEvents ==
  ASSUME NEW h \in Nat
  PROVE  /\ IsFiniteSet(HourEvents(h)) /\ IsFiniteSet(EventsBefore(h))
         /\ EventsBefore(h) \cap HourEvents(h) = {}
         /\ \A e : e \in HourEvents(h) <=> e \in IndexedEvents /\ Hour[e[1]] = h
         /\ \A e : e \in EventsBefore(h) <=> e \in IndexedEvents /\ Hour[e[1]] < h
         /\ EventsBefore(0) = {} /\ HourEvents(0) = {}
<1>1. \A e \in IndexedEvents : Hour[e[1]] \in Nat \ {0}
  BY EventsFinite, LoaderAssumption
<1>2. HourEvents(h) \in SUBSET IndexedEvents /\ EventsBefore(h) \in SUBSET IndexedEvents
  BY DEF HourEvents, EventsBefore
<1>3. IsFiniteSet(HourEvents(h)) /\ IsFiniteSet(EventsBefore(h))
  BY <1>2, EventsFinite
<1>4. /\ \A e : e \in HourEvents(h) <=> e \in IndexedEvents /\ Hour[e[1]] = h
      /\ \A e : e \in EventsBefore(h) <=> e \in IndexedEvents /\ Hour[e[1]] < h
  BY DEF HourEvents, EventsBefore, HourOf
<1>5. EventsBefore(0) = {} /\ HourEvents(0) = {}
  BY <1>1 DEF EventsBefore, HourEvents, HourOf
<1>6. EventsBefore(h) \cap HourEvents(h) = {}
  BY <1>1, <1>4
<1>. QED BY <1>3, <1>4, <1>5, <1>6

(* What of an hour has been read.                                          *)
LEMMA ReadOfHour ==
  ASSUME CompleteInv, Reading
  PROVE  /\ IsFiniteSet(ReadOf(time))
         /\ \A e \in IndexedEvents : \E i \in DOMAIN files : e[1] = files[i]
         /\ cur \notin DOMAIN files => EventsBefore(time) \cup HourEvents(time) = IndexedEvents
         /\ pc = "nextFile" /\ (cur \in DOMAIN files => Hour[files[cur]] # time) =>
              ReadOf(time) = HourEvents(time)
<1>1. \A e \in IndexedEvents : \E i \in DOMAIN files : e[1] = files[i]
  <2>1. newDb /\ \A f \in LogFiles : \E i \in DOMAIN files : files[i] = f
    BY CompleteFacts DEF OrderParts, HoursAhead, CompleteParts, EveryFileOnce
  <2>. QED BY <2>1, EventsFinite
<1>2. IsFiniteSet(ReadOf(time))
  <2>1. ReadOf(time) \in SUBSET IndexedEvents
    BY DEF ReadOf, HourEvents
  <2>. QED BY <2>1, EventsFinite
<1>3. \A i \in DOMAIN files : i < cur => Hour[files[i]] <= time
  BY CompleteFacts DEF CompleteParts, HoursBehind
<1>4. ASSUME cur \notin DOMAIN files
      PROVE  EventsBefore(time) \cup HourEvents(time) = IndexedEvents
  <2>1. \A i \in DOMAIN files : i < cur
    BY <1>4, CompleteFacts
  <2>2. \A e \in IndexedEvents : Hour[e[1]] <= time /\ Hour[e[1]] \in Nat
    BY <1>1, <1>3, <2>1, EventsFinite, CompleteFacts
  <2>3. \A e \in IndexedEvents : Hour[e[1]] < time \/ Hour[e[1]] = time
    BY <2>2, CompleteFacts
  <2>. QED BY <2>3 DEF EventsBefore, HourEvents, HourOf
<1>5. ASSUME pc = "nextFile", cur \in DOMAIN files => Hour[files[cur]] # time
      PROVE  ReadOf(time) = HourEvents(time)
  <2>1. ASSUME NEW i \in DOMAIN files, Hour[files[i]] = time
        PROVE  i < cur
    <3>1. SUFFICES ASSUME ~(i < cur) PROVE FALSE
      OBVIOUS
    <3>2. i \in Nat /\ cur <= i /\ cur \in DOMAIN files
      BY <3>1, CompleteFacts
    <3>3. time <= Hour[files[cur]]
      BY <3>2, CompleteFacts DEF OrderParts, HoursAhead
    <3>4. cur = i \/ Hour[files[cur]] <= Hour[files[i]]
      <4>1. \A j, k \in DOMAIN files : j < k => Hour[files[j]] <= Hour[files[k]]
        BY CompleteFacts DEF OrderParts, HoursAhead, FilesInOrder
      <4>2. cur = i \/ cur < i
        BY <3>2, CompleteFacts
      <4>. QED BY <3>2, <4>1, <4>2
    <3>. QED BY <1>5, <2>1, <3>2, <3>3, <3>4, CompleteFacts
  <2>2. ASSUME NEW e \in HourEvents(time)
        PROVE  e \in ReadOf(time)
    <3>1. e \in IndexedEvents /\ Hour[e[1]] = time
      BY <2>2 DEF HourEvents, HourOf
    <3>2. PICK i \in DOMAIN files : e[1] = files[i]
      BY <1>1, <3>1
    <3>. QED BY <2>1, <2>2, <3>1, <3>2 DEF ReadOf
  <2>. QED BY <2>2 DEF ReadOf
<1>. QED BY <1>1, <1>2, <1>4, <1>5

(* The hour read is handed to a thread; all hours before it are written.   *)
LEMMA CompleteHandOver ==
  ASSUME CompleteInv, HandOver, Reading, UNCHANGED <<journal, fileTable>>,
         ReadOf(time) = HourEvents(time),
         Passed' = EventsBefore(time) \cup HourEvents(time)
  PROVE  HoursWritten'
<1>0. PICK n, h : n = Len(threads) + 1 /\ h = time
  OBVIOUS
<1>1. PICK rs \in TimeSorted(records) :
        /\ DOMAIN threads' = DOMAIN threads \cup {n}
        /\ \A u \in DOMAIN threads : u # n /\ threads'[u] = threads[u] /\ threads[u].pc = "done"
        /\ threads'[n] = NewThread(rs)
  <2>1. WriterInv
    BY CompleteFacts
  <2>. QED BY <1>0, <2>1, HandedOver
<1>2. /\ Lists(fileTable, records, HourEvents(h)) /\ records \in Seq(Rows) /\ h \in Nat
      /\ HoursWritten
  BY <1>0, CompleteFacts DEF CompleteParts, HourRead
<1>3. Lists(fileTable, rs, HourEvents(h))
  BY <1>2, ListsSorted
<1>4. Lists(fileTable, journal, EventsBefore(h))
  <2>1. \A u \in DOMAIN threads : ~HasRows(u)
    BY <1>1 DEF HasRows, Writing, InsideTransaction
  <2>2. Passed = EventsBefore(h)
    BY <1>0 DEF Passed, Reading
  <2>. QED BY <1>2, <2>1, <2>2 DEF HoursWritten
<1>5. PICK ss : ss = rs
  OBVIOUS
<1>6. threads'[n].rows = ss /\ threads'[n].pc = "begin"
  BY <1>1, <1>5 DEF NewThread
<1>7. /\ n \in DOMAIN threads' /\ HasRows(n)'
      /\ \A u \in DOMAIN threads' : HasRows(u)' => u = n
  BY <1>1, <1>6 DEF HasRows, Writing, InsideTransaction
<1>8. WritesHour(n, h)'
  <2>1. Lists(fileTable', journal', EventsBefore(h)) /\ Lists(fileTable', ss, HourEvents(h))
    BY <1>3, <1>4, <1>5
  <2>2. Passed' = EventsBefore(h) \cup HourEvents(h)
    BY <1>0
  <2>. QED BY <1>6, <2>1, <2>2 DEF WritesHour
<1>9. \A u \in DOMAIN threads' : HasRows(u)' => \E k \in Nat : WritesHour(u, k)'
  BY <1>2, <1>7, <1>8
<1>. QED BY <1>7, <1>9 DEF HoursWritten

(* While the files are read: one step of the loader.                       *)
LEMMA CompleteReading ==
  ASSUME CompleteInv, Reading, OpenFile \/ ReadEvent \/ CloseFile
  PROVE  CompleteParts'
<1>. USE DEF dbVars, txnVars, readVars, loaderVars
<1>1. /\ Reading' /\ pc # "await" /\ pc' # "await" /\ pc # "status" /\ pc' # "status"
      /\ cur \in DOMAIN files /\ newDb
      /\ UNCHANGED <<journal, fileTable, threads, status, files, newDb, filesIsRead>>
  <2>1. pc = "events" => cur \in DOMAIN files
    BY CompleteFacts DEF WriterInv, TypeInv, ProcessHasId
  <2>2. newDb
    BY CompleteFacts DEF OrderParts, HoursAhead
  <2>. QED BY <2>1, <2>2 DEF OpenFile, ReadEvent, CloseFile, Reading
<1>2. EveryFileOnce'
  BY <1>1, CompleteFacts DEF CompleteParts, EveryFileOnce
<1>3. StatusTrue' /\ StatusShown'
  BY <1>1, CompleteFacts DEF CompleteParts, StatusTrue, AllWritten, StatusShown, AllListed, Reading
<1>4. ASSUME Passed' = Passed
      PROVE  HoursWritten'
  <2>1. \A t \in DOMAIN threads : HasRows(t)' <=> HasRows(t)
    BY <1>1 DEF HasRows, Writing
  <2>2. \A t \in DOMAIN threads, h \in Nat : WritesHour(t, h) => WritesHour(t, h)'
    BY <1>1, <1>4 DEF WritesHour
  <2>3. HoursWritten
    BY CompleteFacts DEF CompleteParts
  <2>. QED BY <1>1, <1>4, <2>1, <2>2, <2>3 DEF HoursWritten
<1>5. /\ \A i \in DOMAIN files : i < cur => Hour[files[i]] <= time
      /\ \A i \in DOMAIN files : cur <= i => time <= Hour[files[i]]
      /\ \A i, j \in DOMAIN files : i < j => Hour[files[i]] <= Hour[files[j]]
      /\ \A i, j \in DOMAIN files : files[i] = files[j] => i = j
      /\ Lists(fileTable, records, ReadOf(time))
      /\ pc = "events" => time = Hour[files[cur]] /\ files[cur] \in Indexable
      /\ fileTable = files
  BY <1>1, CompleteFacts
     DEF OrderParts, HoursAhead, FilesInOrder, CompleteParts, HoursBehind, HourRead, EveryFileOnce,
         StageParts, OnlyNewIsBuilt, FilesListed
<1>6. /\ \A i \in DOMAIN files : i \in Nat /\ Hour[files[i]] \in Nat \ {0}
      /\ cur \in Nat /\ time \in Nat /\ evt \in Nat \ {0}
  BY CompleteFacts
<1>7. CASE OpenFile
  <2>1. /\ pc = "nextFile" /\ time' = Hour[files[cur]] /\ time \in {0, time'} /\ records' = records
        /\ \/ cur' = cur /\ pc' = "events" /\ evt' = 1
           \/ cur' = cur + 1 /\ pc' = "nextFile" /\ files[cur] \notin Indexable
    BY <1>7 DEF OpenFile
  <2>2. HoursBehind'
    BY <1>1, <1>5, <1>6, <2>1 DEF HoursBehind
  <2>3. Passed' = Passed
    <3>1. CASE time' = time
      BY <1>1, <3>1 DEF Passed
    <3>2. CASE time = 0
      <4>1. \A e \in IndexedEvents : ~(Hour[e[1]] < time')
        <5>1. \A i \in DOMAIN files : ~(Hour[files[i]] < time')
          BY <1>1, <1>5, <1>6, <2>1, <3>2
        <5>. QED BY <5>1, ReadOfHour
      <4>2. EventsBefore(time') = {} /\ EventsBefore(time) = {}
        BY <3>2, <4>1, HoursOfEvents DEF EventsBefore, HourOf
      <4>. QED BY <1>1, <4>2 DEF Passed
    <3>. QED BY <2>1, <3>1, <3>2
  <2>4. HourRead'
    <3>1. \A e \in IndexedEvents, i \in DOMAIN files : e[1] = files[i] =>
            ((i < cur' \/ (i = cur' /\ pc' = "events" /\ e[2] < evt')) <=> i < cur)
      <4>1. \A e \in IndexedEvents : ~(e[2] < 1) /\ e[1] \in Indexable
        BY EventsFinite
      <4>. QED BY <1>6, <2>1, <4>1
    <3>2. CASE time' = time
      <4>1. ReadOf(time)' = ReadOf(time)
        BY <1>1, <2>1, <3>1, <3>2 DEF ReadOf, HourEvents
      <4>. QED BY <1>1, <1>5, <2>1, <4>1 DEF HourRead
    <3>3. CASE time = 0
      <4>1. records = << >>
        BY <3>3, CompleteFacts DEF OrderParts, RecordsOfHour
      <4>2. ReadOf(time)' = {}
        <5>1. \A i \in DOMAIN files : ~(i < cur)
          BY <1>5, <1>6, <3>3
        <5>. QED BY <1>1, <3>1, <5>1 DEF ReadOf, HourEvents
      <4>. QED BY <1>1, <2>1, <4>1, <4>2, ListsNone DEF HourRead
    <3>. QED BY <2>1, <3>2, <3>3
  <2>. QED BY <1>2, <1>3, <1>4, <2>2, <2>3, <2>4 DEF CompleteParts
<1>8. CASE ReadEvent
  <2>. DEFINE f == files[cur]
              e == <<f, evt>>
  <2>1. /\ pc = "events" /\ pc' = "events" /\ evt \in DOMAIN Events[f] /\ evt' = evt + 1
        /\ cur' = cur /\ time' = time
        /\ \E r : records' = Append(records, r) /\ r.file_id = cur - 1 /\ r.start = evt
    <3>1. UNCHANGED <<pc, cur, time>> /\ pc = "events" /\ evt \in DOMAIN Events[f] /\ evt' = evt + 1
      BY <1>8 DEF ReadEvent
    <3>2. \E r : records' = Append(records, r) /\ r.file_id = cur - 1 /\ r.start = evt
      BY <1>8 DEF ReadEvent
    <3>. QED BY <3>1, <3>2
  <2>2. PICK r \in Rows : records' = Append(records, r) /\ r.file_id = cur - 1 /\ r.start = evt
    <3>1. PICK r : records' = Append(records, r) /\ r.file_id = cur - 1 /\ r.start = evt
      BY <2>1
    <3>2. TypeOK'
      <4>1. LoaderNext
        BY <1>8 DEF LoaderNext
      <4>2. TypeInv
        BY CompleteFacts DEF WriterInv
      <4>3. TypeInv'
        BY <4>1, <4>2, TypeLoader
      <4>. QED BY <4>3 DEF TypeInv
    <3>3. records \in Seq(Rows) /\ records' \in Seq(Rows) /\ Len(records) \in Nat
      BY <3>2, CompleteFacts, LenProperties DEF TypeOK
    <3>4. records \in Seq(Rows \cup {r})
      BY <3>3, SeqMonotonic
    <3>5. Len(records') = Len(records) + 1 /\ records'[Len(records) + 1] = r
      BY <3>1, <3>4, AppendProperties
    <3>6. Len(records) + 1 \in 1 .. Len(records')
      BY <3>3, <3>5
    <3>7. r \in Rows
      BY <3>3, <3>5, <3>6, ElementOfSeq
    <3>. QED BY <3>1, <3>7
  <2>3. EventIn(fileTable, r) = e
    <3>1. cur - 1 + 1 = cur
      BY <1>6
    <3>. QED BY <1>5, <2>2, <3>1 DEF EventIn
  <2>. HIDE DEF e
  <2>4. e[1] = f /\ e[2] = evt /\ e = <<e[1], e[2]>>
    BY DEF e
  <2>5. e \in HourEvents(time)
    <3>1. f \in LogFiles /\ f \in Indexable /\ Hour[f] = time
      BY <1>1, <1>5, <2>1, CompleteFacts
    <3>2. e \in IndexedEvents
      <4>. HIDE DEF f
      <4>. QED BY <1>6, <2>1, <2>4, <3>1, EventsFinite
    <3>. QED BY <2>4, <3>1, <3>2 DEF HourEvents, HourOf
  <2>6. ReadOf(time)' = ReadOf(time) \cup {e}
    <3>1. \A x \in HourEvents(time) : x[2] \in Nat /\ x = <<x[1], x[2]>>
      BY EventsFinite DEF HourEvents
    <3>2. \A x \in HourEvents(time) : x[2] < evt + 1 <=> x[2] < evt \/ x[2] = evt
      BY <1>6, <3>1
    <3>3. \A x \in HourEvents(time) : x[1] = f /\ x[2] = evt <=> x = e
      BY <2>4, <3>1 DEF e
    <3>4. ASSUME NEW x \in HourEvents(time)
          PROVE  x \in ReadOf(time)' <=> x \in ReadOf(time) \/ x = e
      <4>1. x \in ReadOf(time)' <=> \E i \in DOMAIN files :
              x[1] = files[i] /\ (i < cur \/ (i = cur /\ x[2] < evt + 1))
        BY <1>1, <2>1 DEF ReadOf, HourEvents
      <4>2. x \in ReadOf(time) <=> \E i \in DOMAIN files :
              x[1] = files[i] /\ (i < cur \/ (i = cur /\ x[2] < evt))
        BY <2>1 DEF ReadOf, HourEvents
      <4>. QED BY <1>1, <3>2, <3>3, <4>1, <4>2
    <3>5. ReadOf(time)' \subseteq HourEvents(time) /\ ReadOf(time) \subseteq HourEvents(time)
      BY <2>1 DEF ReadOf, HourEvents
    <3>. QED BY <2>5, <3>4, <3>5
  <2>7. e \notin ReadOf(time)
    <3>1. ASSUME e \in ReadOf(time) PROVE FALSE
      <4>1. PICK i \in DOMAIN files : f = files[i] /\ (i < cur \/ (i = cur /\ evt < evt))
        BY <2>4, <3>1 DEF ReadOf
      <4>2. i = cur
        BY <1>1, <1>5, <4>1
      <4>. QED BY <1>6, <4>1, <4>2
    <3>. QED BY <3>1
  <2>8. HourRead'
    <3>1. Lists(fileTable, Append(records, r), ReadOf(time) \cup {e})
      BY <1>5, <2>2, <2>3, <2>7, ReadOfHour, CompleteFacts, ListsAppend
    <3>. QED BY <1>1, <2>2, <2>6, <3>1 DEF HourRead
  <2>9. HoursBehind' /\ Passed' = Passed
    BY <1>1, <1>5, <2>1 DEF HoursBehind, Passed
  <2>. QED BY <1>2, <1>3, <1>4, <2>8, <2>9 DEF CompleteParts
<1>9. CASE CloseFile
  <2>1. /\ pc = "events" /\ pc' = "nextFile" /\ evt \notin DOMAIN Events[files[cur]]
        /\ cur' = cur + 1 /\ UNCHANGED <<time, records>>
    BY <1>9 DEF CloseFile
  <2>2. HoursBehind' /\ Passed' = Passed
    BY <1>1, <1>5, <1>6, <2>1 DEF HoursBehind, Passed
  <2>3. ReadOf(time)' = ReadOf(time)
    <3>1. ASSUME NEW x \in IndexedEvents, x[1] = files[cur]
          PROVE  x[2] < evt
      <4>1. x[2] \in DOMAIN Events[files[cur]] /\ files[cur] \in LogFiles
        BY <3>1, EventsFinite
      <4>2. /\ DOMAIN Events[files[cur]] = 1 .. Len(Events[files[cur]])
            /\ Len(Events[files[cur]]) \in Nat
        BY <4>1, LoaderAssumption, LenProperties
      <4>. QED BY <1>6, <2>1, <4>1, <4>2
    <3>2. \A i \in DOMAIN files : i < cur + 1 <=> i < cur \/ i = cur
      BY <1>6
    <3>3. ASSUME NEW x \in HourEvents(time)
          PROVE  x \in ReadOf(time)' <=> x \in ReadOf(time)
      <4>1. x \in IndexedEvents
        BY DEF HourEvents
      <4>2. x \in ReadOf(time)' <=> \E i \in DOMAIN files : x[1] = files[i] /\ i < cur + 1
        BY <1>1, <2>1 DEF ReadOf, HourEvents
      <4>3. x \in ReadOf(time) <=> \E i \in DOMAIN files :
              x[1] = files[i] /\ (i < cur \/ (i = cur /\ x[2] < evt))
        BY <2>1 DEF ReadOf, HourEvents
      <4>. QED BY <3>1, <3>2, <4>1, <4>2, <4>3
    <3>4. ReadOf(time)' \subseteq HourEvents(time) /\ ReadOf(time) \subseteq HourEvents(time)
      BY <2>1 DEF ReadOf, HourEvents
    <3>. QED BY <3>3, <3>4
  <2>4. HourRead'
    BY <1>1, <1>5, <2>1, <2>3 DEF HourRead
  <2>. QED BY <1>2, <1>3, <1>4, <2>2, <2>4 DEF CompleteParts
<1>. QED BY <1>7, <1>8, <1>9

(* What a step of the loading thread leaves complete.                      *)
LEMMA CompleteLoader ==
  ASSUME CompleteInv, LoaderNext
  PROVE  CompleteParts'
<1>. USE DEF dbVars, txnVars, readVars, loaderVars
<1>0. /\ CompleteParts /\ StageParts /\ newDb \in BOOLEAN /\ status \in BOOLEAN
  BY CompleteFacts DEF TypeOK
<1>1. ASSUME pc' \notin {"nextFile", "events", "await"}, AllListed => AllListed',
             AllWritten' => AllListed'
      PROVE  /\ HoursBehind' /\ HourRead' /\ HoursWritten' /\ StatusTrue'
             /\ (pc' \notin {"commitFiles", "readFiles"} => EveryFileOnce')
  BY <1>1 DEF HoursBehind, HourRead, HoursWritten, StatusTrue, AllWritten, EveryFileOnce, Reading
<1>2. ASSUME UNCHANGED <<journal, fileTable>>, AllWritten' => AllWritten,
             pc' \notin {"nextFile", "events", "await"}
      PROVE  /\ HoursBehind' /\ HourRead' /\ HoursWritten' /\ StatusTrue'
             /\ (pc' \notin {"commitFiles", "readFiles"} => EveryFileOnce')
  BY <1>0, <1>1, <1>2 DEF CompleteParts, StatusTrue, AllWritten, AllListed
<1>3. CASE OpenNew
  BY <1>0, <1>2, <1>3 DEF OpenNew, CompleteParts, StatusShown, AllWritten
<1>4. CASE CreateDb
  BY <1>0, <1>2, <1>4 DEF CreateDb, CompleteParts, StatusShown, AllWritten
<1>5. CASE OpenExisting
  BY <1>0, <1>2, <1>5 DEF OpenExisting, CompleteParts, StatusShown, AllWritten
<1>6. CASE ListFiles
  <2>1. files' \in HourSortedFiles
    BY <1>6 DEF ListFiles
  <2>2. EveryFileOnce'
    BY <2>1, HourSortedOnce DEF EveryFileOnce
  <2>. QED BY <1>0, <1>2, <1>6, <2>2 DEF ListFiles, CompleteParts, StatusShown, AllWritten
<1>7. CASE CommitFiles
  <2>1. newDb /\ ~status
    BY <1>0, <1>7 DEF CommitFiles, StageParts, OnlyNewIsBuilt, StatusLast, AllWritten
  <2>2. EveryFileOnce'
    BY <1>0, <1>7 DEF CommitFiles, CompleteParts, EveryFileOnce, Reading
  <2>3. HoursBehind' /\ HourRead' /\ HoursWritten' /\ StatusTrue'
    BY <1>7, <2>1
       DEF CommitFiles, HoursBehind, HourRead, HoursWritten, StatusTrue, AllWritten, Reading
  <2>. QED BY <1>0, <1>7, <2>2, <2>3 DEF CommitFiles, CompleteParts, StatusShown
<1>8. CASE LoadFiles
  <2>1. EveryFileOnce'
    BY <1>8 DEF LoadFiles, EveryFileOnce
  <2>. QED BY <1>0, <1>2, <1>8, <2>1 DEF LoadFiles, CompleteParts, StatusShown, AllWritten
<1>9. CASE BeginReadFiles
  <2>1. /\ pc = "readFiles" /\ newDb /\ journal = << >> /\ threads = << >>
    BY <1>9, CompleteFacts
       DEF BeginReadFiles, OrderParts, EmptyAtFirst, WriterInv, WriterParts, NoThreadYet, BeforeReading
  <2>2. /\ cur' = 1 /\ time' = 0 /\ records' = << >> /\ pc' = "nextFile"
        /\ UNCHANGED <<journal, fileTable, status, threads, files, newDb, filesIsRead>>
    BY <1>9 DEF BeginReadFiles
  <2>3. ~status
    BY <1>0, <2>1 DEF StageParts, StatusLast, AllWritten
  <2>4. \A i \in DOMAIN files : ~(i < 1)
    BY CompleteFacts
  <2>5. HoursBehind' /\ EveryFileOnce'
    BY <1>0, <2>1, <2>2, <2>4 DEF HoursBehind, CompleteParts, EveryFileOnce, Reading
  <2>6. HourRead'
    <3>1. HourEvents(0) = {}
      BY HoursOfEvents
    <3>2. ReadOf(time)' = {}
      BY <2>2, <3>1 DEF ReadOf, HourEvents
    <3>. QED BY <2>2, <3>2, ListsNone DEF HourRead
  <2>7. HoursWritten'
    <3>1. EventsBefore(0) = {}
      BY HoursOfEvents
    <3>2. Passed' = {}
      BY <2>2, <3>1 DEF Passed, EventsBefore
    <3>. QED BY <2>1, <2>2, <3>2, ListsNone DEF HoursWritten
  <2>. QED BY <1>0, <2>1, <2>2, <2>3, <2>5, <2>6, <2>7 DEF CompleteParts, StatusTrue, AllWritten, StatusShown
<1>10. CASE HourEnds
  <2>1. /\ pc = "nextFile" /\ pc' = "nextFile" /\ cur \in DOMAIN files
        /\ time # Hour[files[cur]] /\ HandOver /\ time' = Hour[files[cur]] /\ records' = << >>
        /\ UNCHANGED <<journal, fileTable, status, files, newDb, filesIsRead, cur>>
    BY <1>10 DEF HourEnds, HandOver
  <2>2. Reading /\ Reading' /\ newDb
    BY <2>1, CompleteFacts DEF Reading, OrderParts, HoursAhead
  <2>3. ReadOf(time) = HourEvents(time)
    BY <2>1, <2>2, ReadOfHour
  <2>4. /\ \A i \in DOMAIN files : i < cur => Hour[files[i]] <= time
        /\ \A i \in DOMAIN files : cur <= i => time' <= Hour[files[i]]
        /\ \A i \in DOMAIN files : i < cur \/ cur <= i
        /\ time < time' /\ time \in Nat /\ time' \in Nat
        /\ \A i \in DOMAIN files : Hour[files[i]] \in Nat
    <3>1. \A i \in DOMAIN files : i < cur => Hour[files[i]] <= time
      BY <1>0, <2>2 DEF CompleteParts, HoursBehind
    <3>2. /\ time \in Nat /\ cur \in Nat
          /\ \A i \in DOMAIN files : i \in Nat /\ Hour[files[i]] \in Nat
      BY CompleteFacts
    <3>3. time <= Hour[files[cur]]
      BY <2>1, <2>2, <3>2, CompleteFacts DEF OrderParts, HoursAhead
    <3>4. \A i \in DOMAIN files : cur < i => Hour[files[cur]] <= Hour[files[i]]
      BY <2>1, <2>2, CompleteFacts DEF OrderParts, FilesInOrder
    <3>5. \A i \in DOMAIN files : cur <= i => cur < i \/ i = cur
      BY <3>2
    <3>6. Hour[files[cur]] <= Hour[files[cur]] /\ time < Hour[files[cur]]
      BY <2>1, <3>2, <3>3
    <3>7. \A i \in DOMAIN files : cur <= i => Hour[files[cur]] <= Hour[files[i]]
      BY <3>4, <3>5, <3>6
    <3>. QED BY <2>1, <3>1, <3>2, <3>6, <3>7
  <2>5. Passed' = EventsBefore(time) \cup HourEvents(time)
    <3>1. \A e \in IndexedEvents : Hour[e[1]] < time' <=> Hour[e[1]] < time \/ Hour[e[1]] = time
      <4>1. \A i \in DOMAIN files :
              Hour[files[i]] < time' <=> Hour[files[i]] < time \/ Hour[files[i]] = time
        BY <2>4
      <4>. QED BY <2>2, <4>1, ReadOfHour
    <3>2. Passed' = EventsBefore(time')
      BY <2>1 DEF Passed, EventsBefore
    <3>. QED BY <3>1, <3>2 DEF EventsBefore, HourEvents, HourOf
  <2>6. HoursWritten'
    BY <2>1, <2>2, <2>3, <2>5, CompleteHandOver
  <2>7. HoursBehind'
    BY <2>1, <2>4 DEF HoursBehind
  <2>8. HourRead'
    <3>1. \A e \in IndexedEvents, i \in DOMAIN files :
            e[1] = files[i] /\ i < cur => Hour[e[1]] # time'
      BY <2>4
    <3>2. ReadOf(time)' = {}
      <4>1. ReadOf(time)' = {e \in HourEvents(time') : \E i \in DOMAIN files :
                                e[1] = files[i] /\ i < cur}
        BY <2>1 DEF ReadOf, HourEvents
      <4>. QED BY <3>1, <4>1 DEF HourEvents, HourOf
    <3>. QED BY <2>1, <3>2, ListsNone DEF HourRead
  <2>9. EveryFileOnce'
    BY <1>0, <2>1, <2>2 DEF CompleteParts, EveryFileOnce
  <2>10. StatusTrue' /\ StatusShown'
    BY <1>0, <2>1 DEF CompleteParts, StatusTrue, AllWritten, StatusShown, AllListed
  <2>. QED BY <2>6, <2>7, <2>8, <2>9, <2>10 DEF CompleteParts
<1>11. CASE OpenFile
  BY <1>11, CompleteReading DEF OpenFile, Reading
<1>12. CASE ReadEvent
  BY <1>12, CompleteReading DEF ReadEvent, Reading
<1>13. CASE CloseFile
  BY <1>13, CompleteReading DEF CloseFile, Reading
<1>14. CASE FilesEnd
  <2>1. /\ pc = "nextFile" /\ Reading /\ newDb /\ cur \notin DOMAIN files /\ ~status
        /\ UNCHANGED <<journal, fileTable, status, newDb, filesIsRead>>
    <3>1. pc = "nextFile" /\ Reading
      BY <1>14 DEF FilesEnd, Reading
    <3>. QED BY <1>14, <3>1, CompleteFacts
             DEF FilesEnd, OrderParts, HoursAhead, StageParts, StatusLast, AllWritten
  <2>2. ReadOf(time) = HourEvents(time) /\ EventsBefore(time) \cup HourEvents(time) = IndexedEvents
    BY <2>1, ReadOfHour
  <2>3. CASE time # 0
    <3>1. HandOver /\ pc' = "await"
      BY <1>14, <2>3 DEF FilesEnd
    <3>2. Passed' = EventsBefore(time) \cup HourEvents(time)
      BY <2>2, <3>1 DEF Passed
    <3>3. HoursWritten'
      BY <2>1, <2>2, <3>1, <3>2, CompleteHandOver
    <3>4. HoursBehind' /\ HourRead' /\ EveryFileOnce'
      BY <3>1 DEF HoursBehind, HourRead, EveryFileOnce, Reading
    <3>. QED BY <1>0, <2>1, <3>1, <3>3, <3>4 DEF CompleteParts, StatusTrue, AllWritten, StatusShown
  <2>4. CASE time = 0
    <3>1. pc' = "status" /\ threads = << >>
      BY <1>0, <1>14, <2>1, <2>4 DEF FilesEnd, StageParts, StatusLast, AllWritten
    <3>2. Passed = IndexedEvents
      BY <2>1, <2>2, <2>4, HoursOfEvents DEF Passed
    <3>3. AllListed
      BY <1>0, <2>1, <3>1, <3>2 DEF CompleteParts, HoursWritten, AllListed
    <3>4. AllListed'
      BY <2>1, <3>3 DEF AllListed
    <3>. QED BY <1>0, <1>1, <2>1, <3>1, <3>4 DEF CompleteParts, StatusShown
  <2>. QED BY <2>3, <2>4
<1>15. CASE LastHourWritten
  <2>1. /\ pc = "await" /\ pc' = "status" /\ threads[Len(threads)].pc = "done"
        /\ UNCHANGED <<journal, fileTable, status, newDb, filesIsRead>>
    BY <1>15 DEF LastHourWritten
  <2>2. \A t \in DOMAIN threads : ~HasRows(t)
    BY <1>0, <2>1 DEF StageParts, LastWorks, HasRows, Writing, InsideTransaction
  <2>3. AllListed
    BY <1>0, <2>1, <2>2 DEF CompleteParts, HoursWritten, AllListed, Passed
  <2>4. AllListed'
    BY <2>1, <2>3 DEF AllListed
  <2>. QED BY <1>0, <1>1, <2>1, <2>4 DEF CompleteParts, StatusShown
<1>16. CASE WriteStatus
  <2>1. AllListed /\ UNCHANGED <<journal, fileTable>>
    BY <1>0, <1>16 DEF WriteStatus, CompleteParts, StatusTrue, AllWritten
  <2>2. AllListed'
    BY <2>1 DEF AllListed
  <2>. QED BY <1>0, <1>1, <1>16, <2>2 DEF WriteStatus, CompleteParts, StatusShown
<1>17. CASE ShowStatus
  BY <1>0, <1>2, <1>17 DEF ShowStatus, CompleteParts, StatusShown, AllWritten
<1>18. CASE FilesAreRead
  BY <1>0, <1>2, <1>18 DEF FilesAreRead, CompleteParts, StatusShown, AllWritten
<1>. QED BY <1>3, <1>4, <1>5, <1>6, <1>7, <1>8, <1>9, <1>10, <1>11, <1>12, <1>13,
            <1>14, <1>15, <1>16, <1>17, <1>18 DEF LoaderNext

(* A committing thread at work: the only one, and the load goes on.        *)
LEMMA AtWork ==
  ASSUME CompleteInv, NEW t \in DOMAIN threads, threads[t].pc # "done"
  PROVE  /\ \A u \in DOMAIN threads : u # t => ~HasRows(u)
         /\ threads[t] \in Threads /\ newDb /\ ~status
         /\ Reading \/ pc = "await"
<1>1. \A u \in DOMAIN threads : u # t => ~HasRows(u)
  BY CompleteFacts DEF WriterInv, WriterParts, OneAtWork, HasRows, Writing, InsideTransaction
<1>2. threads # << >>
  <2>1. t \in 1 .. Len(threads)
    BY CompleteFacts, LenProperties
  <2>2. Len(<< >>) = 0
    OBVIOUS
  <2>. QED BY <2>1, <2>2
<1>3. Building
  BY <1>2, ThreadsBuild DEF CompleteInv
<1>4. ~AllWritten
  BY CompleteFacts DEF StageParts, StatusLast
<1>5. ~status /\ (Reading \/ pc = "await")
  BY <1>3, <1>4 DEF AllWritten, Building, Reading
<1>6. threads[t] \in Threads
  BY CompleteFacts, ThreadsOfSeq
<1>. QED BY <1>1, <1>3, <1>4, <1>5, <1>6 DEF Building

(* When all rows of a thread are inserted, those are what is pending.      *)
LEMMA PendingListed ==
  ASSUME CompleteInv, NEW t \in DOMAIN threads, threads[t].pc = "commit",
         NEW S, Lists(fileTable, threads[t].rows, S)
  PROVE  Lists(fileTable, pending, S)
<1>. DEFINE rs == threads[t].rows
            k == threads[t].next
<1>1. threads[t] \in Threads /\ rs \in Seq(Rows) /\ k \in Nat \ {0} /\ pending \in Seq(Rows)
  BY CompleteFacts, ThreadsOfSeq DEF Threads
<1>2. Writing(t) /\ HasRows(t)
  BY DEF Writing, HasRows, InsideTransaction
<1>3. Len(pending) = k - 1 /\ k \notin DOMAIN rs
  BY <1>2, CompleteFacts DEF WriterInv, WriterParts, PendingIsWritten
<1>4. \A i \in DOMAIN pending : i \in DOMAIN rs /\ SameEvent(pending[i], rs[i])
  BY <1>2, CompleteFacts DEF RowParts, PendingAreEvents
<1>. HIDE DEF rs, k
<1>5. /\ Len(rs) \in Nat /\ DOMAIN rs = 1 .. Len(rs)
      /\ Len(pending) \in Nat /\ DOMAIN pending = 1 .. Len(pending)
  BY <1>1, LenProperties
<1>6. Len(pending) <= Len(rs)
  <2>1. CASE Len(pending) = 0
    BY <1>5, <2>1
  <2>2. CASE Len(pending) # 0
    <3>1. Len(pending) \in DOMAIN pending
      BY <1>5, <2>2
    <3>2. Len(pending) \in DOMAIN rs
      BY <1>4, <3>1
    <3>. QED BY <1>5, <3>2
  <2>. QED BY <2>1, <2>2
<1>7. Len(pending) = Len(rs)
  BY <1>1, <1>3, <1>5, <1>6
<1>8. \A i \in DOMAIN pending : EventIn(fileTable, pending[i]) = EventIn(fileTable, rs[i])
  BY <1>4 DEF SameEvent, EventIn
<1>. QED BY <1>1, <1>7, <1>8, ListsSame DEF rs

(* What a step of a committing thread leaves complete.                     *)
LEMMA CompleteCommitter ==
  ASSUME CompleteInv, NEW t \in DOMAIN threads, CommitterNext(t), WriterInv'
  PROVE  CompleteParts'
<1>. USE DEF dbVars, txnVars, readVars, loaderVars
<1>1. threads[t].pc # "done" /\ t \in DOMAIN threads
  BY DEF CommitterNext, Begin, SaveEntity, InsertEvent, EventsEnd, Commit, Unlock
<1>2. /\ \A u \in DOMAIN threads : u # t => ~HasRows(u)
      /\ threads[t] \in Threads /\ newDb /\ ~status
      /\ Reading \/ pc = "await"
  BY <1>1, AtWork
<1>3. /\ pc' = pc
      /\ UNCHANGED <<fileTable, status, files, cur, evt, time, records, newDb, filesIsRead>>
  <2>1. UNCHANGED <<fileTable, status, files, cur, evt, time, records, newDb, filesIsRead>>
    BY DEF CommitterNext, Begin, SaveEntity, InsertEvent, EventsEnd, Commit, Unlock
  <2>2. pc' # "terminated"
    <3>1. dbFile' = dbFile
      BY DEF CommitterNext, Begin, SaveEntity, InsertEvent, EventsEnd, Commit, Unlock
    <3>2. pc' = "terminated" => threads' = << >> /\ threads' = threads
      BY DEF WriterInv, WriterParts, NoThreadYet, BeforeReading, CommitterNext, Begin, SaveEntity, InsertEvent,
             EventsEnd, Commit, Unlock
    <3>. QED BY <3>2
  <2>3. pc' = pc \/ pc' = "terminated"
    BY DEF CommitterNext, Begin, SaveEntity, InsertEvent, EventsEnd, Commit, Unlock
  <2>. QED BY <2>1, <2>2, <2>3
<1>4. HoursWritten' => CompleteParts'
  <2>1. EveryFileOnce' /\ HoursBehind' /\ StatusShown' /\ StatusTrue'
    BY <1>2, <1>3, CompleteFacts
       DEF CompleteParts, EveryFileOnce, HoursBehind, StatusShown, StatusTrue, AllWritten, Reading
  <2>2. HourRead'
    BY <1>3, CompleteFacts DEF CompleteParts, HourRead, ReadOf, HourEvents, Reading
  <2>. QED BY <2>1, <2>2 DEF CompleteParts
<1>5. Passed' = Passed /\ HoursWritten /\ threads \in Seq(Threads)
  BY <1>3, CompleteFacts DEF Passed, EventsBefore, CompleteParts
<1>6. ASSUME journal' = journal, HasRows(t)' <=> HasRows(t),
             DOMAIN threads' = DOMAIN threads, threads'[t].rows = threads[t].rows,
             \A u \in DOMAIN threads : u # t => threads'[u] = threads[u]
      PROVE  HoursWritten'
  <2>1. \A u \in DOMAIN threads : HasRows(u)' <=> HasRows(u)
    BY <1>6 DEF HasRows, Writing
  <2>2. \A u \in DOMAIN threads, h \in Nat : WritesHour(u, h) => WritesHour(u, h)'
    BY <1>3, <1>5, <1>6 DEF WritesHour
  <2>. QED BY <1>3, <1>5, <1>6, <2>1, <2>2 DEF HoursWritten, Reading
<1>7. ASSUME NEW q \in {"unlock", "done"} \cup InsideTransaction,
             threads' = [threads EXCEPT ![t].pc = q]
      PROVE  /\ DOMAIN threads' = DOMAIN threads
             /\ \A u \in DOMAIN threads : u # t => threads'[u] = threads[u]
             /\ threads'[t].pc = q /\ threads'[t].rows = threads[t].rows
  <2>1. threads'[t] = [threads[t] EXCEPT !.pc = q]
    BY <1>5, <1>7, ThreadStep
  <2>. QED BY <1>2, <1>5, <1>7, <2>1, ThreadStep DEF Threads
<1>8. CASE Begin(t)
  <2>1. threads[t].pc = "begin" /\ threads' = [threads EXCEPT ![t].pc = "save"] /\ journal' = journal
    <3>1. ~txn
      BY <1>8, BegunOutside
    <3>. QED BY <1>8, <3>1 DEF Begin
  <2>2. "save" \in InsideTransaction
    BY DEF InsideTransaction
  <2>3. HoursWritten'
    BY <1>6, <1>7, <2>1, <2>2 DEF HasRows, Writing
  <2>. QED BY <1>4, <2>3
<1>9. CASE SaveEntity(t)
  <2>1. threads[t].pc = "save" /\ threads' = [threads EXCEPT ![t].pc = "insert"] /\ journal' = journal
    BY <1>9 DEF SaveEntity
  <2>2. "save" \in InsideTransaction /\ "insert" \in InsideTransaction
    BY DEF InsideTransaction
  <2>3. HoursWritten'
    BY <1>6, <1>7, <2>1, <2>2 DEF HasRows, Writing
  <2>. QED BY <1>4, <2>3
<1>10. CASE EventsEnd(t)
  <2>1. threads[t].pc = "insert" /\ threads' = [threads EXCEPT ![t].pc = "commit"] /\ journal' = journal
    BY <1>10 DEF EventsEnd
  <2>2. "insert" \in InsideTransaction /\ "commit" \in InsideTransaction
    BY DEF InsideTransaction
  <2>3. HoursWritten'
    BY <1>6, <1>7, <2>1, <2>2 DEF HasRows, Writing
  <2>. QED BY <1>4, <2>3
<1>11. CASE Unlock(t)
  <2>1. threads[t].pc = "unlock" /\ threads' = [threads EXCEPT ![t].pc = "done"] /\ journal' = journal
    BY <1>11 DEF Unlock
  <2>2. HoursWritten'
    BY <1>6, <1>7, <2>1 DEF HasRows, Writing, InsideTransaction
  <2>. QED BY <1>4, <2>2
<1>12. CASE InsertEvent(t)
  <2>. DEFINE k == threads[t].next
              a == threads[t].agr + threads[t].rows[k].lines
              new == [threads[t] EXCEPT !.next = k + 1, !.agr = a]
  <2>1. threads' = [threads EXCEPT ![t] = new] /\ threads[t].pc = "insert" /\ journal' = journal
    BY <1>12 DEF InsertEvent
  <2>2. DOMAIN threads = 1 .. Len(threads)
    BY <1>5, LenProperties
  <2>3. /\ DOMAIN threads' = DOMAIN threads /\ threads'[t] = new
        /\ \A u \in DOMAIN threads : u # t => threads'[u] = threads[u]
    BY <1>5, <2>1, <2>2
  <2>4. new.rows = threads[t].rows /\ new.pc = threads[t].pc
    BY <1>2 DEF Threads
  <2>. HIDE DEF new
  <2>5. HoursWritten'
    BY <1>6, <2>1, <2>3, <2>4 DEF HasRows, Writing
  <2>. QED BY <1>4, <2>5
<1>13. CASE Commit(t)
  <2>1. threads[t].pc = "commit" /\ Writing(t) /\ HasRows(t)
    BY <1>13 DEF Commit, Writing, HasRows, InsideTransaction
  <2>2. txn
    BY <2>1, CompleteFacts DEF WriterInv, WriterParts, TxnHeld, LoadOwns
  <2>3. /\ threads' = [threads EXCEPT ![t].pc = "unlock"] /\ journal' = journal \o pending
    BY <1>13, <2>2 DEF Commit
  <2>4. PICK h \in Nat : WritesHour(t, h)
    BY <1>2, <1>5, <2>1 DEF HoursWritten
  <2>5. Lists(fileTable, pending, HourEvents(h))
    BY <2>1, <2>4, PendingListed DEF WritesHour
  <2>6. journal \in Seq(Rows) /\ pending \in Seq(Rows)
    BY CompleteFacts
  <2>7. Lists(fileTable, journal \o pending, EventsBefore(h) \cup HourEvents(h))
    BY <2>4, <2>5, <2>6, HoursOfEvents, ListsConcat DEF WritesHour
  <2>8. Lists(fileTable', journal', Passed')
    BY <1>3, <1>5, <2>3, <2>4, <2>7 DEF WritesHour
  <2>9. \A u \in DOMAIN threads' : ~HasRows(u)'
    BY <1>2, <1>7, <2>3 DEF HasRows, Writing, InsideTransaction
  <2>10. HoursWritten'
    BY <2>8, <2>9 DEF HoursWritten
  <2>. QED BY <1>4, <2>10
<1>. QED BY <1>8, <1>9, <1>10, <1>11, <1>12, <1>13 DEF CommitterNext

(* A death with nothing pending leaves the journal as it is.               *)
LEMMA KillWhenIdle ==
  ASSUME CompleteInv, Kill, \A t \in DOMAIN threads : threads[t].pc = "done"
  PROVE  journal' = journal
<1>1. pending = << >> /\ journal \in Seq(Rows)
  BY CompleteFacts DEF WriterInv, WriterParts, PendingIsWritten, Writing, InsideTransaction
<1>2. PICK n \in 0 .. Len(pending) : journal' = journal \o SubSeq(pending, 1, n)
  BY DEF Kill
<1>3. n = 0
  BY <1>1, <1>2, EmptySeq
<1>4. SubSeq(pending, 1, n) = << >>
  BY <1>3, SubSeqEmpty
<1>. QED BY <1>1, <1>2, <1>4, ConcatEmptySeq

(* What a dying process leaves: a complete index stays complete.           *)
LEMMA CompleteKill ==
  ASSUME CompleteInv, Kill
  PROVE  CompleteParts'
<1>1. pc' = "start" /\ newDb' = FALSE /\ filesIsRead' = FALSE /\ status' = status
  BY DEF Kill
<1>2. ASSUME status
      PROVE  AllListed'
  <2>1. (\A t \in DOMAIN threads : threads[t].pc = "done") /\ pc # "commitFiles" /\ AllListed
    BY <1>2, CompleteFacts DEF StageParts, StatusLast, AllWritten, CompleteParts, StatusTrue
  <2>2. journal' = journal /\ fileTable' = fileTable
    BY <2>1, KillWhenIdle DEF Kill
  <2>. QED BY <2>1, <2>2 DEF AllListed
<1>. QED BY <1>1, <1>2
         DEF CompleteParts, EveryFileOnce, HoursBehind, HourRead, HoursWritten, StatusTrue, AllWritten,
             StatusShown, Reading

(* What goes unnoticed leaves it complete.                                 *)
LEMMA CompleteUnnoticed ==
  ASSUME CompleteInv, WriterInv', Unnoticed
  PROVE  CompleteInv'
<1>1. ResolveInv'
  BY ResolveUnnoticed DEF CompleteInv
<1>2. CompleteParts
  BY CompleteFacts
<1>3. EveryFileOnce' /\ HoursBehind' /\ StatusShown' /\ StatusTrue'
  BY <1>2 DEF Unnoticed, CompleteParts, EveryFileOnce, HoursBehind, StatusShown, StatusTrue,
              AllWritten, AllListed, Reading
<1>4. HourRead'
  BY <1>2 DEF Unnoticed, CompleteParts, HourRead, ReadOf, HourEvents, Reading
<1>5. HoursWritten'
  <2>1. Passed' = Passed
    BY DEF Unnoticed, Passed, EventsBefore
  <2>2. \A t \in DOMAIN threads : HasRows(t)' <=> HasRows(t)
    BY DEF Unnoticed, HasRows, Writing
  <2>3. \A t \in DOMAIN threads, h \in Nat : WritesHour(t, h) => WritesHour(t, h)'
    BY <2>1 DEF Unnoticed, WritesHour
  <2>. QED BY <1>2, <2>1, <2>2, <2>3 DEF Unnoticed, CompleteParts, HoursWritten, Reading
<1>. QED BY <1>1, <1>3, <1>4, <1>5 DEF CompleteInv, CompleteParts

(* No step does otherwise.                                                 *)
LEMMA CompleteNext == CompleteInv /\ WriterInv' /\ [Next]_vars => CompleteInv'
<1>. SUFFICES ASSUME CompleteInv, WriterInv', [Next]_vars PROVE CompleteInv'
  OBVIOUS
<1>1. ResolveInv'
  BY ResolveNext DEF CompleteInv
<1>2. WriterInv'
  OBVIOUS
<1>3. CASE LoaderNext
  BY <1>1, <1>3, CompleteLoader DEF CompleteInv
<1>4. CASE \E t \in DOMAIN threads : CommitterNext(t)
  BY <1>1, <1>2, <1>4, CompleteCommitter DEF CompleteInv
<1>5. CASE Kill
  BY <1>1, <1>5, CompleteKill DEF CompleteInv
<1>6. CASE Ended \/ UNCHANGED vars
  <2>1. status \in BOOLEAN
    BY CompleteFacts DEF TypeOK
  <2>2. Unnoticed
    BY <1>6, <2>1 DEF Unnoticed, Ended, vars, dbVars, txnVars, readVars, loaderVars
  <2>. QED BY <2>2, CompleteUnnoticed
<1>. QED BY <1>3, <1>4, <1>5, <1>6 DEF Next

(* When the load of a new index ends, and whenever the status row says     *)
(* that all data are loaded, in this run of the program or a later one,    *)
(* every event of every readable file has its row, and only one: whatever  *)
(* threads wrote them, and though the viewer trusts the status row alone.  *)
THEOREM CompleteAtTheEnd == Spec => []CompleteWhenDone
<1>1. CompleteInv => CompleteWhenDone
  <2>. SUFFICES ASSUME CompleteInv, status \/ (filesIsRead /\ newDb)
                PROVE  /\ {EventOf(journal[i]) : i \in DOMAIN journal} = IndexedEvents
                       /\ Len(journal) = Cardinality(IndexedEvents)
    BY DEF CompleteWhenDone
  <2>1. AllListed
    BY CompleteFacts DEF CompleteParts, StatusShown, StatusTrue, AllWritten
  <2>. QED BY <2>1 DEF AllListed, Lists, ListedIn, EventIn, EventOf
<1>. QED BY <1>1, WritersAlways, CompleteInit, CompleteNext, PTL DEF Spec

-----------------------------------------------------------------------------
(* The loader implements JournalIndex: every step of it is a step of the   *)
(* index as the viewer knows it, or leaves that as it is.                  *)
EventsListed(table, rs) == [i \in DOMAIN rs |-> EventIn(table, rs[i])]

Phase == IF status THEN "complete"
         ELSE IF dbFile = "absent" \/ newDb THEN "building" ELSE "partial"

(* The index and its phase stay as they are.                               *)
LEMMA IndexKept ==
  ASSUME EventsListed(fileTable, journal)' = EventsListed(fileTable, journal), Phase' = Phase
  PROVE  UNCHANGED Index!vars
BY DEF Index!vars, EventsListed, EventIn, EventOf, Phase

(* Rows after rows.                                                        *)
LEMMA ListedConcat ==
  ASSUME NEW table, NEW a \in Seq(Rows), NEW b \in Seq(Rows)
  PROVE  EventsListed(table, a \o b) = EventsListed(table, a) \o EventsListed(table, b)
<1>. DEFINE E == {EventIn(table, r) : r \in Rows}
            la == EventsListed(table, a)
            lb == EventsListed(table, b)
            c == a \o b
            lc == EventsListed(table, c)
<1>1. \A s \in Seq(Rows) : /\ EventsListed(table, s) \in Seq(E)
                           /\ Len(EventsListed(table, s)) = Len(s)
                           /\ DOMAIN s = 1 .. Len(s) /\ Len(s) \in Nat
                           /\ \A i \in 1 .. Len(s) : EventsListed(table, s)[i] = EventIn(table, s[i])
  <2>1. SUFFICES ASSUME NEW s \in Seq(Rows)
                 PROVE  /\ EventsListed(table, s) \in Seq(E)
                        /\ Len(EventsListed(table, s)) = Len(s)
                        /\ DOMAIN s = 1 .. Len(s) /\ Len(s) \in Nat
                        /\ \A i \in 1 .. Len(s) : EventsListed(table, s)[i] = EventIn(table, s[i])
    OBVIOUS
  <2>2. DOMAIN s = 1 .. Len(s) /\ Len(s) \in Nat
    BY LenProperties
  <2>3. \A i \in 1 .. Len(s) : EventIn(table, s[i]) \in E
    BY ElementOfSeq
  <2>4. EventsListed(table, s) = [i \in 1 .. Len(s) |-> EventIn(table, s[i])]
    BY <2>2 DEF EventsListed
  <2>. HIDE DEF E
  <2>5. EventsListed(table, s) \in Seq(E)
    BY <2>2, <2>3, <2>4, IsASeq
  <2>6. Len(EventsListed(table, s)) = Len(s)
    BY <2>2, <2>4, <2>5, LenProperties
  <2>. QED BY <2>2, <2>4, <2>5, <2>6
<1>2. /\ c \in Seq(Rows) /\ Len(c) = Len(a) + Len(b)
      /\ \A i \in 1 .. Len(a) + Len(b) : c[i] = IF i <= Len(a) THEN a[i] ELSE b[i - Len(a)]
  BY ConcatProperties
<1>. HIDE DEF E, c
<1>3. /\ la \in Seq(E) /\ lb \in Seq(E) /\ lc \in Seq(E)
      /\ Len(la) = Len(a) /\ Len(lb) = Len(b) /\ Len(lc) = Len(a) + Len(b)
      /\ Len(a) \in Nat /\ Len(b) \in Nat
      /\ \A i \in 1 .. Len(a) : la[i] = EventIn(table, a[i])
      /\ \A i \in 1 .. Len(b) : lb[i] = EventIn(table, b[i])
      /\ \A i \in 1 .. Len(a) + Len(b) : lc[i] = EventIn(table, c[i])
  BY <1>1, <1>2
<1>. HIDE DEF la, lb, lc
<1>4. /\ la \o lb \in Seq(E) /\ Len(la \o lb) = Len(a) + Len(b)
      /\ \A i \in 1 .. Len(a) + Len(b) :
           (la \o lb)[i] = IF i <= Len(a) THEN la[i] ELSE lb[i - Len(a)]
  <2>1. /\ la \o lb \in Seq(E) /\ Len(la \o lb) = Len(la) + Len(lb)
        /\ \A i \in 1 .. Len(la) + Len(lb) :
             (la \o lb)[i] = IF i <= Len(la) THEN la[i] ELSE lb[i - Len(la)]
    <3>1. la \in Seq(E) /\ lb \in Seq(E)
      BY <1>3
    <3>. QED BY <3>1, ConcatProperties
  <2>. QED BY <1>3, <2>1
<1>5. ASSUME NEW i \in 1 .. Len(a) + Len(b)
      PROVE  lc[i] = (la \o lb)[i]
  <2>1. CASE i <= Len(a)
    <3>1. i \in 1 .. Len(a)
      BY <1>3, <2>1
    <3>. QED BY <1>2, <1>3, <1>4, <2>1, <3>1
  <2>2. CASE ~(i <= Len(a))
    <3>1. i - Len(a) \in 1 .. Len(b)
      BY <1>3, <2>2
    <3>. QED BY <1>2, <1>3, <1>4, <2>2, <3>1
  <2>. QED BY <2>1, <2>2
<1>6. lc = la \o lb
  BY <1>3, <1>4, <1>5, SeqEqual
<1>. QED BY <1>6 DEF la, lb, lc, c

(* What is pending is the first of the thread's rows.                      *)
LEMMA PendingIsPrefix ==
  ASSUME CompleteInv, NEW t \in DOMAIN threads, Writing(t), NEW n \in 0 .. Len(pending)
  PROVE  /\ n \in 0 .. Len(threads[t].rows)
         /\ EventsListed(fileTable, SubSeq(pending, 1, n))
              = SubSeq(EventsListed(fileTable, threads[t].rows), 1, n)
<1>. DEFINE rs == threads[t].rows
            ls == EventsListed(fileTable, rs)
            ps == SubSeq(pending, 1, n)
<1>1. threads[t] \in Threads /\ rs \in Seq(Rows) /\ pending \in Seq(Rows)
  BY CompleteFacts, ThreadsOfSeq DEF Threads
<1>2. \A i \in DOMAIN pending : i \in DOMAIN rs /\ SameEvent(pending[i], rs[i])
  BY CompleteFacts DEF RowParts, PendingAreEvents
<1>. HIDE DEF rs
<1>3. /\ Len(rs) \in Nat /\ DOMAIN rs = 1 .. Len(rs)
      /\ Len(pending) \in Nat /\ DOMAIN pending = 1 .. Len(pending)
  BY <1>1, LenProperties
<1>4. n \in 0 .. Len(rs)
  <2>1. CASE n = 0
    BY <1>3, <2>1
  <2>2. CASE n # 0
    <3>1. n \in DOMAIN rs
      BY <1>2, <1>3, <2>2
    <3>. QED BY <1>3, <3>1
  <2>. QED BY <2>1, <2>2
<1>5. DOMAIN ls = 1 .. Len(rs) /\ \A i \in 1 .. Len(rs) : ls[i] = EventIn(fileTable, rs[i])
  BY <1>3 DEF EventsListed
<1>. DEFINE E == {EventIn(fileTable, r) : r \in Rows}
<1>6. \A i \in 1 .. Len(rs) : ls[i] \in E
  BY <1>1, <1>5, ElementOfSeq
<1>. HIDE DEF ls, E
<1>7. \A i \in 1 .. n : i \in 1 .. Len(rs) /\ i \in DOMAIN pending /\ 1 + i - 1 = i
  BY <1>3, <1>4
<1>8. /\ SubSeq(ls, 1, n) \in Seq(E) /\ Len(SubSeq(ls, 1, n)) = n
      /\ \A i \in 1 .. n : SubSeq(ls, 1, n)[i] = ls[i]
  <2>1. n \in Int /\ 1 \in Int /\ n - 1 + 1 = n /\ (IF 1 <= n THEN n - 1 + 1 ELSE 0) = n
    BY <1>3
  <2>2. \A i \in 1 .. n : ls[i] \in E
    BY <1>6, <1>7
  <2>3. /\ SubSeq(ls, 1, n) \in Seq(E)
        /\ Len(SubSeq(ls, 1, n)) = IF 1 <= n THEN n - 1 + 1 ELSE 0
        /\ \A i \in 1 .. n - 1 + 1 : SubSeq(ls, 1, n)[i] = ls[1 + i - 1]
    BY <2>1, <2>2, SubSeqProperties
  <2>. QED BY <1>7, <2>1, <2>3
<1>9. ps \in Seq(Rows) /\ DOMAIN ps = 1 .. n /\ \A i \in DOMAIN ps : ps[i] = pending[i]
  <2>1. n \in Int /\ 1 \in Int /\ n - 1 + 1 = n /\ (IF 1 <= n THEN n - 1 + 1 ELSE 0) = n
    BY <1>3
  <2>2. \A i \in 1 .. n : pending[i] \in Rows
    BY <1>1, <1>3, <1>7, ElementOfSeq
  <2>3. ps \in Seq(Rows) /\ Len(ps) = IF 1 <= n THEN n - 1 + 1 ELSE 0
    BY <2>1, <2>2, SubSeqProperties
  <2>4. DOMAIN ps = 1 .. n
    BY <2>1, <2>3, LenProperties
  <2>. QED BY <1>1, <2>3, <2>4, PrefixRows
<1>. HIDE DEF ps
<1>10. EventsListed(fileTable, ps) = SubSeq(ls, 1, n)
  <2>1. DOMAIN SubSeq(ls, 1, n) = 1 .. n
    BY <1>8, LenProperties
  <2>2. EventsListed(fileTable, ps) = [i \in 1 .. n |-> EventIn(fileTable, ps[i])]
    BY <1>9 DEF EventsListed
  <2>3. \A i \in 1 .. n : EventIn(fileTable, ps[i]) = SubSeq(ls, 1, n)[i]
    <3>1. SUFFICES ASSUME NEW i \in 1 .. n PROVE EventIn(fileTable, ps[i]) = SubSeq(ls, 1, n)[i]
      OBVIOUS
    <3>2. ps[i] = pending[i] /\ SameEvent(pending[i], rs[i])
      BY <1>2, <1>7, <1>9
    <3>3. EventIn(fileTable, ps[i]) = EventIn(fileTable, rs[i])
      BY <3>2 DEF SameEvent, EventIn
    <3>. QED BY <1>5, <1>7, <1>8, <3>3
  <2>4. EventsListed(fileTable, ps) \in Seq(E) /\ Len(EventsListed(fileTable, ps)) = n
    <3>1. \A i \in 1 .. n : EventIn(fileTable, ps[i]) \in E
      BY <1>9, ElementOfSeq, LenProperties DEF E
    <3>2. [i \in 1 .. n |-> EventIn(fileTable, ps[i])] \in Seq(E)
      BY <1>3, <3>1, IsASeq
    <3>. QED BY <1>3, <2>2, <3>2, LenProperties
  <2>. QED BY <1>8, <2>2, <2>3, <2>4, SeqEqual
<1>. QED BY <1>4, <1>10 DEF ps, ls, rs

(* JournalIndex counts as this module does.                                *)
LEMMA SameCount ==
  ASSUME NEW S
  PROVE  Index!Cardinality(S) = Cardinality(S)
BY Zenon DEF Index!Cardinality, Cardinality

(* The hour a thread writes is the next of the index, and its rows are the *)
(* events of that hour in time order.                                      *)
LEMMA NextHourWritten ==
  ASSUME CompleteInv, NEW t \in DOMAIN threads, HasRows(t), NEW h \in Nat, WritesHour(t, h),
         threads[t].rows # << >>
  PROVE  /\ h \in Index!NextHours
         /\ EventsListed(fileTable, threads[t].rows) \in Index!InTimeOrder(Index!EventsOf(h))
<1>. DEFINE rs == threads[t].rows
            ls == EventsListed(fileTable, rs)
            S == HourEvents(h)
<1>1. threads[t] \in Threads /\ rs \in Seq(Rows)
  BY CompleteFacts, ThreadsOfSeq DEF Threads
<1>2. /\ ListedIn(fileTable, rs) = S /\ Len(rs) = Cardinality(S)
      /\ ListedIn(fileTable, journal) = EventsBefore(h)
  BY DEF WritesHour, Lists
<1>3. Index!EventsOf(h) = S
  BY DEF Index!EventsOf, HourEvents
<1>4. \A i \in DOMAIN rs : LocatedIn(fileTable, rs[i])
  BY CompleteFacts DEF RowParts, RowsOnTheirWay
<1>5. \A i, j \in DOMAIN rs : i < j => rs[i].time <= rs[j].time
  BY CompleteFacts DEF OrderParts, RowsFollowJournal, Sorted
<1>. HIDE DEF rs
<1>6. Len(rs) \in Nat /\ DOMAIN rs = 1 .. Len(rs) /\ Len(rs) # 0
  BY <1>1, LenProperties, EmptySeq DEF rs
<1>7. /\ DOMAIN ls = 1 .. Cardinality(S)
      /\ \A i \in DOMAIN ls : i \in DOMAIN rs /\ ls[i] = EventIn(fileTable, rs[i])
      /\ ls = [i \in 1 .. Cardinality(S) |-> ls[i]]
  BY <1>2, <1>6 DEF EventsListed
<1>. HIDE DEF ls, S
<1>8. \A i \in DOMAIN ls : ls[i] \in S
  BY <1>2, <1>7 DEF ListedIn
<1>9. \A e \in S : \E i \in DOMAIN ls : ls[i] = e
  BY <1>2, <1>6, <1>7 DEF ListedIn
<1>10. \A i, j \in DOMAIN ls : i < j => TimeOf(ls[i]) <= TimeOf(ls[j])
  <2>1. \A i \in DOMAIN ls : rs[i].time = TimeOf(ls[i])
    BY <1>4, <1>7 DEF LocatedIn
  <2>. QED BY <1>5, <1>7, <2>1
<1>11. ls \in Index!InTimeOrder(S)
  <2>1. ls \in [1 .. Cardinality(S) -> S]
    BY <1>7, <1>8
  <2>2. Index!InTimeOrder(S) =
          {s \in [1 .. Cardinality(S) -> S] :
             /\ \A e \in S : \E i \in DOMAIN s : s[i] = e
             /\ \A i, j \in DOMAIN s : i < j => TimeOf(s[i]) <= TimeOf(s[j])}
    BY SameCount DEF Index!InTimeOrder
  <2>. QED BY <1>9, <1>10, <2>1, <2>2, Zenon
<1>12. Index!Indexed = EventsBefore(h)
  BY <1>2 DEF Index!Indexed, ListedIn, EventIn, EventOf
<1>13. \A e \in IndexedEvents : HourOf(e) \in Nat
  BY EventsFinite, LoaderAssumption DEF HourOf
<1>14. h \in Index!NextHours
  <2>1. 1 \in DOMAIN rs
    BY <1>6
  <2>2. S # {}
    BY <1>2, <2>1 DEF ListedIn
  <2>3. h \in Index!Hours
    BY <2>2 DEF S, HourEvents, Index!Hours
  <2>4. S \cap EventsBefore(h) = {}
    BY HoursOfEvents DEF S
  <2>5. ASSUME NEW g \in Index!Hours, Index!EventsOf(g) \cap Index!Indexed = {}
        PROVE  h <= g
    <3>1. PICK e \in IndexedEvents : HourOf(e) = g
      BY DEF Index!Hours
    <3>2. e \in Index!EventsOf(g)
      BY <3>1 DEF Index!EventsOf
    <3>3. ~(HourOf(e) < h)
      BY <1>12, <2>5, <3>2 DEF EventsBefore
    <3>. QED BY <1>13, <3>1, <3>3
  <2>. QED BY <1>3, <1>12, <2>3, <2>4, <2>5 DEF Index!NextHours
<1>. QED BY <1>3, <1>11, <1>14 DEF ls, rs

(* A complete journal has no next hour.                                    *)
LEMMA NoHourLeft ==
  ASSUME AllListed
  PROVE  Index!NextHours = {}
<1>1. Index!Indexed = IndexedEvents
  BY DEF AllListed, Lists, ListedIn, EventIn, EventOf, Index!Indexed
<1>2. ASSUME NEW h \in Index!Hours
      PROVE  Index!EventsOf(h) \cap Index!Indexed # {}
  <2>1. PICK e \in IndexedEvents : HourOf(e) = h
    BY DEF Index!Hours
  <2>. QED BY <1>1, <2>1 DEF Index!EventsOf
<1>. QED BY <1>2 DEF Index!NextHours

(* The loading thread only finishes the index.                             *)
LEMMA IndexLoader ==
  ASSUME CompleteInv, LoaderNext
  PROVE  Index!Finish \/ UNCHANGED Index!vars
<1>. USE DEF dbVars, txnVars, readVars, loaderVars
<1>0. /\ dbFile = "absent" => pc = "start" /\ ~status
      /\ pc = "start" => ~newDb
      /\ pc \in {"commitFiles", "status"} => newDb /\ ~status
      /\ newDb /\ pc = "commitFiles" => journal = << >>
  BY CompleteFacts
     DEF OrderParts, EmptyAtFirst, CompleteParts, StatusShown, StageParts, NothingSavedYet,
         OnlyNewIsBuilt, StatusLast, AllWritten
<1>1. ASSUME UNCHANGED <<journal, fileTable, status>>, Phase' = Phase
      PROVE  UNCHANGED Index!vars
  <2>1. EventsListed(fileTable, journal)' = EventsListed(fileTable, journal)
    BY <1>1 DEF EventsListed, EventIn
  <2>. QED BY <1>1, <2>1, IndexKept
<1>2. CASE OpenNew
  BY <1>0, <1>1, <1>2 DEF OpenNew, Phase
<1>3. CASE CreateDb
  BY <1>0, <1>1, <1>3 DEF CreateDb, Phase
<1>4. CASE OpenExisting
  BY <1>0, <1>1, <1>4 DEF OpenExisting, Phase
<1>5. CASE CommitFiles
  <2>1. journal = << >> /\ journal' = << >> /\ UNCHANGED <<status, dbFile, newDb>>
    BY <1>0, <1>5 DEF CommitFiles
  <2>2. EventsListed(fileTable, journal)' = EventsListed(fileTable, journal)
    <3>1. DOMAIN journal = {} /\ DOMAIN journal' = {}
      BY <2>1
    <3>2. \A x : EventsListed(x, << >>) = << >>
      BY DEF EventsListed
    <3>. QED BY <2>1, <3>2
  <2>. QED BY <2>1, <2>2, IndexKept DEF Phase
<1>6. CASE WriteStatus
  <2>1. AllListed /\ newDb /\ ~status /\ status' /\ UNCHANGED <<journal, fileTable>>
    BY <1>0, <1>6, CompleteFacts DEF WriteStatus, CompleteParts, StatusTrue, AllWritten
  <2>2. Index!NextHours = {}
    BY <2>1, NoHourLeft
  <2>3. Index!Finish
    BY <2>1, <2>2 DEF Index!Finish, EventOf
  <2>. QED BY <2>3
<1>7. CASE ListFiles \/ LoadFiles \/ BeginReadFiles \/ ShowStatus \/ FilesAreRead
  <2>1. UNCHANGED <<journal, fileTable, status, dbFile, newDb>>
    BY <1>7 DEF ListFiles, LoadFiles, BeginReadFiles, ShowStatus, FilesAreRead
  <2>. QED BY <1>1, <2>1 DEF Phase
<1>8. CASE HourEnds \/ OpenFile \/ ReadEvent \/ CloseFile \/ FilesEnd \/ LastHourWritten
  <2>1. UNCHANGED <<journal, fileTable, status, dbFile, newDb>>
    BY <1>8 DEF HourEnds, OpenFile, ReadEvent, CloseFile, FilesEnd, LastHourWritten
  <2>. QED BY <1>1, <2>1 DEF Phase
<1>. QED BY <1>2, <1>3, <1>4, <1>5, <1>6, <1>7, <1>8 DEF LoaderNext

(* A commit adds an hour to the index, or nothing if the hour has no       *)
(* events; no other step of a committing thread is seen.                   *)
LEMMA IndexCommitter ==
  ASSUME CompleteInv, NEW t \in DOMAIN threads, CommitterNext(t)
  PROVE  Index!AddHour \/ UNCHANGED Index!vars
<1>. USE DEF dbVars, txnVars, readVars, loaderVars
<1>1. UNCHANGED <<fileTable, status, dbFile, newDb>>
  BY DEF CommitterNext, Begin, SaveEntity, InsertEvent, EventsEnd, Commit, Unlock
<1>2. Phase' = Phase
  BY <1>1 DEF Phase
<1>3. ASSUME journal' = journal
      PROVE  UNCHANGED Index!vars
  <2>1. EventsListed(fileTable, journal)' = EventsListed(fileTable, journal)
    BY <1>1, <1>3 DEF EventsListed, EventIn
  <2>. QED BY <1>2, <2>1, IndexKept
<1>4. CASE Begin(t) \/ SaveEntity(t) \/ InsertEvent(t) \/ EventsEnd(t) \/ Unlock(t)
  <2>1. journal' = journal
    BY <1>4 DEF Begin, SaveEntity, InsertEvent, EventsEnd, Unlock
  <2>. QED BY <1>3, <2>1
<1>5. CASE Commit(t)
  <2>1. threads[t].pc = "commit" /\ Writing(t) /\ HasRows(t)
    BY <1>5 DEF Commit, Writing, HasRows, InsideTransaction
  <2>2. txn
    BY <2>1, CompleteFacts DEF WriterInv, WriterParts, TxnHeld, LoadOwns
  <2>3. journal' = journal \o pending
    BY <1>5, <2>2 DEF Commit
  <2>4. newDb /\ ~status /\ (Reading \/ pc = "await") /\ threads[t] \in Threads
    BY <2>1, AtWork
  <2>5. PICK h \in Nat : WritesHour(t, h)
    BY <2>1, <2>4, CompleteFacts DEF CompleteParts, HoursWritten
  <2>. DEFINE rs == threads[t].rows
              ls == EventsListed(fileTable, rs)
  <2>6. /\ journal \in Seq(Rows) /\ pending \in Seq(Rows) /\ rs \in Seq(Rows)
        /\ Len(pending) \in Nat /\ Len(pending) = Len(rs) /\ Len(rs) \in Nat
    <3>1. journal \in Seq(Rows) /\ pending \in Seq(Rows) /\ rs \in Seq(Rows)
      BY <2>4, CompleteFacts DEF Threads
    <3>2. Len(pending) \in Nat /\ Len(rs) \in Nat
      BY <3>1, LenProperties
    <3>3. Lists(fileTable, pending, HourEvents(h)) /\ Lists(fileTable, rs, HourEvents(h))
      BY <2>1, <2>5, PendingListed DEF WritesHour
    <3>. QED BY <3>1, <3>2, <3>3 DEF Lists
  <2>7. EventsListed(fileTable, pending) = ls
    <3>. DEFINE n == Len(pending)
    <3>1. n \in 0 .. Len(pending)
      BY <2>6
    <3>2. EventsListed(fileTable, SubSeq(pending, 1, n)) = SubSeq(ls, 1, n)
      BY <2>1, <3>1, PendingIsPrefix
    <3>3. SubSeq(pending, 1, n) = pending
      BY <2>6, SubSeqFull
    <3>4. SubSeq(ls, 1, n) = ls
      <4>. DEFINE E == {EventIn(fileTable, r) : r \in Rows}
      <4>1. \A i \in 1 .. Len(rs) : EventIn(fileTable, rs[i]) \in E
        BY <2>6, ElementOfSeq
      <4>2. ls = [i \in 1 .. Len(rs) |-> EventIn(fileTable, rs[i])]
        BY <2>6, LenProperties DEF EventsListed
      <4>. HIDE DEF E, rs, ls
      <4>3. [i \in 1 .. Len(rs) |-> EventIn(fileTable, rs[i])] \in Seq(E)
        BY <2>6, <4>1, IsASeq
      <4>4. ls \in Seq(E)
        BY <4>2, <4>3
      <4>5. Len(ls) = Len(rs)
        BY <2>6, <4>2, <4>4, LenProperties
      <4>. QED BY <2>6, <4>4, <4>5, SubSeqFull
    <3>. QED BY <3>2, <3>3, <3>4
  <2>8. EventsListed(fileTable, journal)' = EventsListed(fileTable, journal) \o ls
    <3>1. EventsListed(fileTable', journal') = EventsListed(fileTable, journal \o pending)
      BY <1>1, <2>3
    <3>2. EventsListed(fileTable, journal \o pending) = EventsListed(fileTable, journal) \o ls
      BY <2>6, <2>7, ListedConcat
    <3>. QED BY <3>1, <3>2 DEF EventsListed
  <2>9. CASE rs = << >>
    <3>1. pending = << >>
      BY <2>6, <2>9, EmptySeq
    <3>2. journal' = journal
      BY <2>3, <2>6, <3>1, ConcatEmptySeq
    <3>. QED BY <1>3, <3>2
  <2>10. CASE rs # << >>
    <3>1. h \in Index!NextHours /\ ls \in Index!InTimeOrder(Index!EventsOf(h))
      BY <2>1, <2>5, <2>10, NextHourWritten
    <3>. HIDE DEF ls
    <3>2. [i \in DOMAIN journal |-> EventOf(journal[i])]'
            = [i \in DOMAIN journal |-> EventOf(journal[i])] \o ls
      BY <2>8 DEF EventsListed, EventIn, EventOf
    <3>3. Index!AddHour
      BY <1>1, <2>4, <3>1, <3>2 DEF Index!AddHour
    <3>. QED BY <3>3
  <2>. QED BY <2>9, <2>10
<1>. QED BY <1>4, <1>5 DEF CommitterNext

(* A death interrupts the building of the index, and nothing else.         *)
LEMMA IndexKill ==
  ASSUME CompleteInv, Kill
  PROVE  Index!Interrupt \/ UNCHANGED Index!vars
<1>1. /\ status' = status /\ newDb' = FALSE /\ pc # "start"
      /\ dbFile # "absent" /\ dbFile' # "absent"
      /\ pc = "commitFiles" => newDb /\ ~status /\ journal = << >>
      /\ pc # "commitFiles" => fileTable' = fileTable
  <2>1. /\ status' = status /\ newDb' = FALSE /\ pc # "start"
        /\ pc # "commitFiles" => fileTable' = fileTable
    BY DEF Kill
  <2>2. /\ dbFile # "absent"
        /\ pc = "commitFiles" => newDb /\ ~status /\ journal = << >>
    BY <2>1, CompleteFacts
       DEF OrderParts, EmptyAtFirst, StageParts, OnlyNewIsBuilt, StatusLast, AllWritten
  <2>3. dbFile' # "absent"
    BY <2>2 DEF Kill
  <2>. QED BY <2>1, <2>2, <2>3
<1>. DEFINE idx == [i \in DOMAIN journal |-> EventOf(journal[i])]
<1>2. ASSUME journal' = journal
      PROVE  idx' = idx
  <2>1. CASE pc = "commitFiles"
    BY <1>1, <1>2, <2>1
  <2>2. CASE pc # "commitFiles"
    BY <1>1, <1>2, <2>2 DEF EventOf
  <2>. QED BY <2>1, <2>2
<1>3. CASE status
  <2>1. \A t \in DOMAIN threads : threads[t].pc = "done"
    BY <1>3, CompleteFacts DEF StageParts, StatusLast, AllWritten
  <2>2. idx' = idx
    BY <1>2, <2>1, KillWhenIdle
  <2>. QED BY <1>1, <1>3, <2>2 DEF Index!vars
<1>4. CASE ~status /\ ~newDb
  <2>1. threads = << >>
    BY <1>4, CompleteFacts DEF StageParts, OnlyNewIsBuilt
  <2>2. idx' = idx
    BY <1>2, <2>1, KillWhenIdle
  <2>. QED BY <1>1, <1>4, <2>2 DEF Index!vars
<1>5. CASE ~status /\ newDb
  <2>1. ASSUME idx' = idx
        PROVE  Index!Interrupt
    BY <1>1, <1>5, <2>1 DEF Index!Interrupt
  <2>2. PICK n \in 0 .. Len(pending) : journal' = journal \o SubSeq(pending, 1, n)
    BY DEF Kill
  <2>3. journal \in Seq(Rows) /\ pending \in Seq(Rows) /\ Len(pending) \in Nat
    BY CompleteFacts, LenProperties
  <2>4. CASE n = 0
    <3>1. SubSeq(pending, 1, n) = << >>
      BY <2>4, SubSeqEmpty
    <3>2. journal' = journal
      BY <2>2, <2>3, <3>1, ConcatEmptySeq
    <3>. QED BY <1>2, <2>1, <3>2
  <2>5. CASE n # 0
    <3>1. pending # << >>
      BY <2>2, <2>5, EmptySeq
    <3>2. PICK t \in DOMAIN threads : Writing(t)
      BY <3>1, CompleteFacts DEF WriterInv, WriterParts, PendingIsWritten
    <3>3. HasRows(t) /\ threads[t].pc # "done"
      BY <3>2 DEF HasRows, Writing, InsideTransaction
    <3>4. (Reading \/ pc = "await") /\ threads[t] \in Threads
      BY <3>3, AtWork
    <3>5. PICK h \in Nat : WritesHour(t, h)
      BY <3>3, <3>4, CompleteFacts DEF CompleteParts, HoursWritten
    <3>. DEFINE rs == threads[t].rows
                ls == EventsListed(fileTable, rs)
    <3>6. /\ n \in 0 .. Len(rs)
          /\ EventsListed(fileTable, SubSeq(pending, 1, n)) = SubSeq(ls, 1, n)
      BY <2>2, <3>2, PendingIsPrefix
    <3>7. rs \in Seq(Rows) /\ Len(rs) \in Nat /\ DOMAIN rs = 1 .. Len(rs)
      BY <3>4, LenProperties DEF Threads
    <3>8. rs # << >>
      <4>1. n \in DOMAIN rs
        BY <2>5, <3>6, <3>7
      <4>. QED BY <4>1
    <3>9. h \in Index!NextHours /\ ls \in Index!InTimeOrder(Index!EventsOf(h))
      BY <3>3, <3>5, <3>8, NextHourWritten
    <3>10. n \in DOMAIN ls
      BY <2>5, <3>6, <3>7 DEF EventsListed
    <3>11. pc # "commitFiles" /\ SubSeq(pending, 1, n) \in Seq(Rows)
      BY <2>2, <2>3, <3>4, PrefixRows DEF Reading
    <3>12. EventsListed(fileTable', journal') = EventsListed(fileTable, journal) \o SubSeq(ls, 1, n)
      BY <1>1, <2>2, <2>3, <3>6, <3>11, ListedConcat
    <3>. HIDE DEF ls
    <3>13. idx' = idx \o SubSeq(ls, 1, n)
      BY <3>12 DEF EventsListed, EventIn, EventOf
    <3>14. Index!Interrupt
      BY <1>1, <1>5, <3>9, <3>10, <3>13 DEF Index!Interrupt
    <3>. QED BY <3>14
  <2>. QED BY <2>4, <2>5
<1>. QED BY <1>3, <1>4, <1>5

(* The index begins empty and is built as JournalIndex says, step by step: *)
(* an hour at a time, in time order, complete when it says so, and left    *)
(* for good when the process dies.  (That it is completed at all, if the   *)
(* process lives, is checked and not proved.)                              *)
THEOREM BuiltAsPromised == Spec => Index!Init /\ [][Index!Next]_(Index!vars)
<1>1. Init => Index!Init
  <2>. SUFFICES ASSUME Init PROVE Index!Init
    OBVIOUS
  <2>1. [i \in DOMAIN journal |-> EventOf(journal[i])] = << >>
    BY DEF Init
  <2>. QED BY <2>1 DEF Init, Index!Init
<1>2. CompleteInv /\ [Next]_vars => [Index!Next]_(Index!vars)
  <2>. SUFFICES ASSUME CompleteInv, [Next]_vars PROVE [Index!Next]_(Index!vars)
    OBVIOUS
  <2>1. CASE LoaderNext
    BY <2>1, IndexLoader DEF Index!Next
  <2>2. CASE \E t \in DOMAIN threads : CommitterNext(t)
    BY <2>2, IndexCommitter DEF Index!Next
  <2>3. CASE Kill
    BY <2>3, IndexKill DEF Index!Next
  <2>4. CASE Ended \/ UNCHANGED vars
    <3>1. UNCHANGED <<journal, fileTable, status, dbFile, newDb>>
      BY <2>4 DEF Ended, vars, dbVars, loaderVars
    <3>2. UNCHANGED Index!vars
      BY <3>1 DEF Index!vars, EventOf
    <3>. QED BY <3>2
  <2>. QED BY <2>1, <2>2, <2>3, <2>4 DEF Next
<1>. QED BY <1>1, <1>2, WritersAlways, CompleteInit, CompleteNext, PTL DEF Spec
=============================================================================
