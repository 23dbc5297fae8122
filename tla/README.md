# YellowViewer: a verification project

YellowViewer shows the technological logs of 1C servers. It indexes a directory of log
files into an SQLite file, `data.sqlite3`, once, and from then on pages and searches the
events through that index. Three analyses explain lock timeouts, waits and deadlocks.
This directory models the parts of the program whose correctness depends on order:
the loading threads, the character machine that parses the logs, the paging and
searching window, searches that meet the loading threads, and the lock analyses. It checks
them with TLC, and proves the main invariants with TLAPS.

Paths below are relative to the repository, which the modules and `PROJECT.json` see
under `src/`. `PROJECT.json` maps every definition to the lines it translates.

## The system

| component | state | operations | modelled by |
|---|---|---|---|
| loader: `DirectoryWatcher::ReadDirectory`, `ReadFiles`, `ReadFilesCommitTrunsaction` (directory_watcher.cpp:24-46, 132-337) | `files_`, the hour's records, six dictionaries of names, `count_lines_`, the global mutex, one detached thread per hour of logs | open or create the index, list files, read events, hand an hour to a thread, write it in a transaction | `ReadFiles`, against `JournalIndex` |
| database: `Db` (db.cpp) | the SQLite connection, `new_db_`, the tables | transactions, inserts, paging and walking queries, `find_result`, the SQL of a search | with each of its callers; the SQL of a search is `SearchText` |
| search and paging: `DirectoryWatcher::Find`, `GetLines`, `GetEvent`, `CountLines` (339-405) | `find_str_`, `mem.find_result` | search, page, event of a line | `Viewer`; during a load `SearchDuringLoad` |
| event view: `Edit` (edit.cpp) | position, caret line, current event, displayed lines, context menu | paint, scroll, wheel, click, menu, copy, search | `Viewer` |
| main window: `MainWindow`, `App` (app.cpp) | the child windows | forwards the search field and menu selections; starts the loading thread | `Viewer`, `ReadFiles`, `SearchDuringLoad` (partly) |
| lock analyses: `AnalyzeTTimeOut`, `AnalyzeTLock`, `AnalyzeTDeadlock` (416-691) | the rows to show | walk the journal back and forth | `LockAnalysis` |
| lock objects: `Lock`, `Locks`, `AnalayzerLock` (parser.cpp:455-685) | a map from spaces to sets of field values | `AddBlockingElement`, `AddLock`, `IsLocking`, `ParseTLock` | `Locks`, `LockConflict` |
| log parser: `Parser` (parser.cpp:1-453) | a character machine fed in chunks | `Parse`, `MoveEvents` | `Parser`, against `LogText` |
| reader: `Reader` (reader.cpp) | an open file and a buffer | hour, process and chunks of a file | chunks in `Parser`; hour and process are constants of `ReadFiles` |
| event text: `EventOut`, `Time` | a place in a file | text and lines of an event | its line count, in `Viewer` |
| status bar, input fields, window base class, timer, encodings, SQLite itself | | | not modelled |

How they interact: Enter in the path field makes the window call `Close`, then start a
detached thread (`LoadFileInThread`) that runs `ReadDirectory`, `ReadFiles` and
`UpdateDisplay`. That thread starts one more per hour of logs. All of them, and the
window's own queries, use one connection `db_` and the members of one
`DirectoryWatcher`, with a single mutex, which only the loader and its committing threads
use. Messages of the window run one at a time, with WM_PAINT last. The analyses run in
the window's thread and turn their result into a search (`IdRow IN (...)`).

What makes each component correct:

- **Loader**: one writer at a time on the connection; the journal in time order, whatever
  server and thread an event comes from; running line totals without a gap; every row
  leads to its event and its names; a finished index is complete, an interrupted one
  is a beginning; the load ends.
- **Parser**: the events are those of the text, however it is cut into chunks and
  wherever the platform has stopped writing; a row's place and line count are those of
  the bytes it names; only a malformed text stops the program.
- **Searches during a load**: one thread never commits or rolls back what another has
  written; a search sees whole hours; the load loses nothing, and ends or tells.
- **Search texts**: what is selected is what the comparisons of the text mean.
- **Viewer**: the window shows the slice of the text that its position names; the current
  event, the caret and the grey lines belong to the search that is displayed; a search
  shows exactly its matches; a copied event is the one that was clicked.
- **Lock objects**: a conflict of the texts is never missed, none is invented.
- **Analyses**: everything in the open transactions that blocks is shown, nothing else
  of other transactions is, and each side is shown under its own role.

The hard behaviours are the mutex that is locked in one thread and unlocked in another,
the hand-over of totals and dictionaries across threads, a process that dies with
`journal_mode = OFF`, unstable sorting, painting that is delayed behind other input, a
failing search that cannot be rolled back, and searches through the journal that keep a
cursor in a variable which is used again later. `PROJECT.json` lists them as hazards, each
at its line.

## The modules

**`JournalIndex`** is the abstract specification of the index: a sequence of events in
time order to which whole hours are appended, in the order of the hours, until the index
is complete. An interruption leaves a beginning of the sequence (part of an hour at
most), which is never continued.

**`ReadFiles`** is the detailed one. The loading thread (`pc`) opens the database
(`OpenNew`, `CreateDb`, `OpenExisting`), lists or loads the files (`ListFiles`,
`CommitFiles`, `LoadFiles`), reads them event by event (`OpenFile`, `ReadEvent`,
`CloseFile`) and hands each hour over (`HourEnds`, `FilesEnd`). A committing thread runs
`Begin`, `SaveEntity`, `InsertEvent` for each row, `EventsEnd`, `Commit`, `Unlock`. `HandOver`
is the sort, the wait for the mutex and the start of the thread; the last hour is
written in the loading thread itself, which then waits (`LastHourWritten`). Rows of an open
transaction are in `pending` and `pendingEnts` until `Commit`. BEGIN inside a transaction
and COMMIT outside one end the process (`pc = "terminated"`), as the uncaught
exceptions of `Exec` do. `Kill` is the death of the process at any point: of an open
transaction any beginning of the rows, and any part of the dictionary entries, stays in
the file, because nothing is there to undo them. `HourSortedFiles` and `TimeSorted` are
sets, since `std::sort` may leave equal elements in any order.

Abstractions: the parser is the sequence of events of a file; of the six dictionaries two
stay, `process`, which is filled once per file, and `event`, which stands for the five
filled per event; `start` and `length` are the number of the event in the file; the death of the process keeps
whole rows (SQLite may also leave a damaged file, on which nothing can be said).

**`Viewer`** is the window over a loaded index. An event is its number of lines, a line is
`<<event, number>>`. `LoadJournal` is the WHERE of the two paging queries over the running
totals, `GetLines` and `GetEvent` the numbering around it. Each handler of `Edit` is an
action. `invalid` is the window's update region, and `Paint` may come at any time after it
is set; the window's height is chosen anew at each painting, since a partly covered or
resized window paints fewer rows. `OnVScroll` and `OnMouseWheel` end in
`UpdateWindow` and paint at once. The scroll bar's own position (`scrollPos`, `Clamp`) is
kept by Windows and is the one external definition.
A search that fails shows the message box of `Exec` inside its transaction (`SearchFails`).
The box has no owner and runs a message loop, so painting, scrolling and
clicking go on under it, over a table that is already another one; another search under
it ends the process (`SearchUnderBox`). `CloseBox` is the handler's rollback, after which the old
result or the rows inserted before the failure are there, and the update of the window.

**`SearchDuringLoad`** composes `ReadFiles` with `DirectoryWatcher::Find` on the window's thread, step
by step: `FindBegin`, `FindSelect`, `FindCommit` or, when the SQL fails, a message box and
`FindRollback`, then `CountQuery` and `CountStore` of `CountLines`. The search does not take the
mutex. BEGIN inside another thread's transaction fails; the thread that asked stands in
the box of `Exec` (`stuck`, `beginFailed`, `nestedFailed`), while the others go on, and
the process ends when the box is answered (`Answer`). A search sees the rows of its connection, uncommitted
ones too (`Visible`); COMMIT commits whatever the connection has written.

**`LogText`** says what the events of a log text are without the parser: which line breaks
end an event, which properties it has, which texts are malformed. A line, an event and a field are
pairs of positions of the text, and so is what the parser's rows are compared with. **`Parser`** is the automaton
of parser.cpp function by function (`Start`, `Minute` .. `Mvalue`, `EndValue`, `EndEvent`), its transition
table, the three loops of `Parse` (`FirstByte`, `MiddleBytes`, `LastByte`), the reader's chunks
(`NextChunk`) and the loader's taking of complete events (`TakeEvents`). A byte is a class of
bytes that the table or a value tells apart. Reading past the end of the buffer (`overrun`) is
undefined and ends a behaviour. A file that is still being written is another, shorter text.

**`SearchText`** goes from the text of the search field to the rows: `KeysTable`, `Replace`, `ReplaceTime`
rewrite the text, a sequence of tokens in which a key word is a token wherever its letters
stand, and the condition is evaluated as SQLite does. Of the seven key words of columns
two stand (`Event`, `Usr`), and `Time`. The values of a text are in double quotes, and SQLite, as it is built here, takes such a
token for a string only when no column of the joined tables (`ColumnsOf`, `TablesOf`) has its letters in either case (`LowerCase`).
`Usr="start"` compares the user with the number of journal.start, `Usr="name"` the name with itself, and `Usr="id"` is refused
because two tables have that column (`TablesNaming`, `Refused`, `NamedSatisfies`). The field `same` of a row says which columns
of the journal have the number that its user or event is called. A value with a key word or a quotation mark in it, or with the
letters of a column, is `Ambiguous`: it need not be compared as it was meant. A quotation mark in a value can make of the
condition what is not one of comparisons (`IsRead`); then any result is possible, and an error (`Outcomes`). The units of a stamp are constants: the powers of ten
of the code exceed TLC's integers. What counts of them is assumed: a unit is larger than the number all fields below it make
(`Below`), as two digits are left for each field but the microseconds, which have six. AND is a token between comparisons; the same
letters in a value mean nothing to the program or to SQLite and are a word (`Words`).

**`Locks`** has the lock objects as operators: the text of a lock (`LockTexts`), the object
that `ParseTLock` makes of it (`ParsedLock`), `IsLocking`, and the map of `AddLock`, together
with the meaning of the text (`Overlap`, `Exclude`) that the code is compared with.
**`LockConflict`** reads two lists of locks, lock by lock, in any order.

**`LockAnalysis`** has the three analyses as actions on a journal of typed events.
`BeginSearch` returns both results of the loop that looks for the beginning of a
transaction: the event found and what the loop leaves in the variable `id`. `AnalyzeTTimeOut`
resets `id` afterwards, the other two do not.

`ReadFilesProofs`, `SearchDuringLoadProofs`, `ParserProofs`, `SearchTextProofs`,
`LockConflictProofs`, `LockAnalysisProofs` and `ViewerProofs` hold the theorems, with lemmas about
data in `DataInduction`; the `MC*` modules hold the values of the constants for TLC. Definitions whose comment begins with "Wrong:", such as
`HandOverWithoutLock` before `HandOver`, are plausible bugs in that code: no action uses
them, and `PROJECT.json` ("mutants") names the property that each one breaks.

## What is checked

| run | distinct states | bounds | shows |
|---|---|---|---|
| `read_files` | 5,685 | 5 files in 3 hours, 2 servers, 5 events, at most 2 deaths | type correctness, `OneWriter`, `SortedByTime`, `LineChain`, `RowsResolve`, `CompleteWhenDone`; the refinement `ImplementsJournalIndex`; `LoadEnds` |
| `search_during_load` | 200,173 | 4 files in 3 hours, 2 of one hour, 5 events; 3 search texts (empty, one that every hour answers, failing), any number of searches | `OneOwner`, `SearchOfWholeHours`, `TotalsWithinHour`; `IndexByHours`; `LoadEndsOrTells` |
| `parser` | 446,998 | two events, four bytes of a value from 7 classes, read byte by byte and whole | `EventsBetweenBreaks`, `LinesCounted`, `RowsAreTheEvents` |
| `parser_edits` | 148,748 | an ordinary text with any one byte replaced, with empty lines, and every beginning of it, chunks of three sizes | `RowsAreTheEvents`, `RefusesOnlyMalformed`, `OverrunOnlyAtEmptyLine`, `CutTextIsRead`; `ParseEnds` |
| `search_text` | 105,273 | 10 rows, 5 stamps typed to any field, users called after key words and columns, texts of up to two comparisons | `FilterIsExact` |
| `menu_filter` | violation | 5 rows, users called after key words, one comparison | finding: `MenuShowsItsEvent` fails |
| `viewer` | 1,076,000 | 4 events of 1 and 2 lines, a window of 0 to 2 rows, 4 searches (empty, scattered matches, no key word, failing), wheel turns of +1 and -3 | `PageIsSlice`, `GreyIsCurrent`, `CurrentHasCaret`, `SearchIsExact`, `CopyIsClicked` |
| `lock_conflict` | 2,281 | one lock a side, up to 2 elements, 2 fields, 2 values | `NoKeptConflictMissed`, `NoFalseConflict` |
| `lock_lists` | 91,633 | two locks a side over 2 spaces, 1 field | type correctness of the map, `NoKeptConflictMissed` |
| `analyses` | 72,432 | all journals of 5 events of two connections, 1 register, 2 rows of it; all journals of 4 events before a deadlock, failed locks after it | `TimeoutCulpritsShown`, `TimeoutLockIsNearest`, `CulpritsInTransaction` (of waits too), `DeadlockSidesShown` |
| `wait` | violation | as `analyses`, no timeouts and no deadlocks | finding: `WaitCulpritsShown` fails |
| `deadlock_locks` | violation | the deadlocks of `analyses` | finding: `DeadlockLocksShown` fails |

Why the bounds are enough. In `read_files` the first hour has two servers whose events
interleave and share a time stamp, the second continues one process, and the last has a
file without a byte order mark, which is skipped, and an event with a new name. So every branch of
`ReadFiles` is taken, three hours are handed over in a chain, and the third waits for the
second. Two deaths reach an opening of an index left by an opening of a partial one. In
`search_during_load` the first hour has two files, so a search can come in the middle of an
hour's transaction, between two hours, before the list of files is committed and after the
last hour; each of three threads can collide with it. In `parser` four bytes are enough for an opening
quote, a doubled or a different one, a line break and a comma in a value; in `parser_edits` a chunk ends at every
place of an event. In `search_text` two comparisons of one key and two stamps in one text
are where replacing all occurrences at once could go wrong; the users are called after a column of one table,
of one table in another case, of two tables and by a number, so each way of SQLite to read a value is taken. In
`viewer` pages begin and end in the middle of an event, and the search's matches are not
neighbours, so a total of the journal used with the search's rows shows. In the lock
runs two fields are what one field cannot stand for, and two elements are where sets
of values and conjunctions differ, elements may leave out fields, and a list of two locks may name one space
twice; longer lists are covered by the theorems. Five events
hold a beginning, an unrelated SDBL event, a lock, the failed lock and the timeout.

Fairness: `ReadFiles` assumes weak fairness of the loading thread and of the committing threads
together, which is what Windows' scheduler gives a runnable thread. At most one
committing thread is past the mutex at a time, so one condition for all of
them is enough. In `Parser` the one action `Step` is weakly fair: the
loading thread never waits inside `Parse`. In `SearchDuringLoad` the loading thread, the committing threads
together, and the steps of a search on the window's thread are weakly fair; closing a message
box and beginning a search are the user's, and are not. Hence `LoadEndsOrTells` and not `LoadEnds`: a load
may be held up by an open box. `Kill` and the window's input have no fairness. `Ended` lets the finished
load stutter; the viewer never stops, and an analysis can be asked for again. `LockConflict`
stops when the lists have their bounded length, so its two runs do not check for deadlock.

### Findings

1. **`AnalyzeTLock` misses locks** (directory_watcher.cpp:675). The search for the beginning of the culprit's
   transaction moves `id` back over other SDBL events, and `PrevAll` then looks for locks only
   up to the last such event, not up to the event analysed. In the counterexample the culprit begins a transaction,
   logs another SDBL event, sets the lock, and the victim waits for it: the lock is not shown.
   `AnalyzeTTimeOut` resets `id` first (:602), and `TimeoutCulpritsShown` holds.
2. **`AnalyzeTDeadlock` misses locks** (:495, :506). Both queries begin at the first connection's transaction and end at the
   `id` left by the second search. In the counterexample that interval is empty, and the lock of
   the first connection that blocks the second is not shown.

3. **A filter by user misses the user's events** (db.cpp:632). Key words are replaced inside quoted
   values too: the filter the menu composes for a user whose name contains `Event` selects
   nothing, and for one that contains `Time` the code steps behind the end of its string_view.

Two more things the models show, of which no text of the repository says the opposite. A field of a stamp counts only when
the mark behind it is found (db.cpp:671), so a stamp typed without seconds loses its last field, as a date its year;
`FilterIsExact` says what remains (`Taken`). And an analysis misses a conflict of a lock that follows another of its space
(parser.cpp:500), or of an element that leaves out a field (parser.cpp:660); `NoKeptConflictMissed` says that there are no other misses.

## What is proved

`ParserProofs`, for any text, buffer size and names of the properties: `ParserTyped`, `EventsWhole` (`EventsBetweenBreaks`),
`LinesCountedAlways` (`LinesCounted`) and `OverrunAtEmptyLine` (`OverrunOnlyAtEmptyLine`). The invariant `ParserInv` behind them says where the
automaton stands in the text: the chunk lies inside it, the present event began behind a
line break, its lines so far are the breaks passed, and digits are read only where digits stand.

These speak of what the automaton does by itself. What it does with a text that `LogText` has divided into lines,
events and fields is told by `ReadingInv`, inductive with `ParserInv` (`ReadingInvariant`). It is needed because
the rows are complete only between two chunks, while a step is one byte:

- of the functions, whatever the text (`CallsInv`): between two chunks the last one called has consumed its byte
  (`ConsumedLast`), a quotation and its breaks belong to `Mvalue` (`ChosenByMark`), and a header begins with empty
  temporary members (`NothingKept`);
- of the text: the stack of quotes is the quotation open at `ch` (`QuotesOpen`), the line under way has no break yet
  (`LineUnderWay`), the events taken are those of the lines left (`EventsTaken`), only an empty line overruns
  (`EmptyLineLeft`), and inside an acceptable event the parser is in the function, and has kept the number, the name or the
  value, that the bytes before `ch` stand for (`EventRead`, with `Reading` for one function each).

The quotations, numbers and values of a text are recursive functions of its positions; that they are what their definitions
say is a lemma each, by `DataInduction`. `ReadingInv` is said of every text `t` that the file's text begins (`Extends`), so
that it holds of the file as it will be when the platform has written on. From it follow `RowsAreTheEventsAlways`
(`RowsAreTheEvents`), `RefusesOnlyMalformedAlways` (`RefusesOnlyMalformed`) and, with the rest of the text for `t`,
`CutTextIsAlwaysRead` (`CutTextIsRead`).

`LockConflictProofs`, for any fields, values, spaces and any length of the lists:

- `TypeCorrect`: the `Locks` objects are maps. `LockInv` adds to it that every lock object is the parse of
  a lock of the text, the first of its space, and that every space of the text has an object (`LocksFromTexts`); this is
  inductive (`LockInvInit`, `LockInvNext`) because `AddLock` keeps what is there.
- `MissesNoKeptConflict` (`NoKeptConflictMissed`), of any lists: from `LockInv`, the object of a space is the parse of the first lock of that
  space (`FirstOfSpace`), and two overlapping elements that have every field their locks share (`ComparedByOwn`) give
  each of these fields a common value, whatever the elements beside them (`ConflictIsSeen`).
- `ReportsNoFalseConflict`: for locks of one element, common values of all common fields make
  the elements overlap (`SeenIsConflict`).
- `ConflictMutual`: `IsLocking` is symmetric.

`ReadFilesProofs`, for any directory and number of deaths, from `LoaderAssumption`:

- `TypeCorrect`. `TypeOK` is not inductive: a row takes the id of the process from the
  dictionary, where -1 stands for a name that is not there. `ProcessHasId` adds that while a
  file's events are read its process has an id.
- `WritersTakeTurns`: `OneWriter`. The invariant `WriterInv` adds: no committing thread
  exists until files are read (`NoThreadYet`); at most one thread is not done, and only
  while the mutex is locked (`OneAtWork`); a transaction is open whenever
  the listing of files or that thread is inside one (`TxnHeld`); what is pending is what that
  thread has written (`PendingIsWritten`); and the process never ends by a failed BEGIN or COMMIT (`NeverFails`).
  `HandOver` keeps it because the mutex is free only when all threads are done;
  `Unlock` is the last step of a thread. `TurnInv` adds that nobody else opens a transaction, which is
  true without searches only; what follows from `WriterInv` alone holds with searches too.

From `WriterInv` follows `JournalInTimeOrder` (`SortedByTime`), in an index a death left
behind too. `OrderInv` follows a row on its way. The files are in the order of
their hours (`FilesInOrder`, `HoursAhead`), so what the loader has read lies in the present hour (`RecordsOfHour`) and what
is in the journal or with a thread lies before it (`WrittenBefore`). A thread's rows are sorted and
none of them precedes a row of the journal (`RowsFollowJournal`), what is pending are its rows
(`PendingAreRows`), and a new index begins empty (`EmptyAtFirst`). That `h * HourSpan` keeps hours
apart is the lemma `HoursApart`.

From `OrderInv` follows `TotalsWithoutGap` (`LineChain`). `ChainInv` adds where the total is on its way:
the loader has counted the rows of the hour on top of the journal's last total, a thread's rows are
numbered from the total it was given, and that total is the journal's last one when the thread is handed its hour.
Sorting an hour keeps its sum of lines because the sum is the number of pairs of a row and one of
its lines, and sorting maps these one to one.

`EveryRowResolves` (`RowsResolve`), from `OrderInv`. `ResolveInv` has three parts.

- Where the loader is: only the process that created an index builds it, and the status row is written when
  every thread is done.
- The ids: a name has its own (`IdsDistinct`), all that is saved, pending or on its way was given so
  (`EntsGiven`), and a name given is still with the loader, with a thread, or saved (`IdsKept`).
- The rows: a record locates its event and refers to names with ids (`RecordsGiven`), a thread's rows refer to names that are
  saved or that this thread will save (`RowsOnTheirWay`), so a commit leaves no row without its names.

`CompleteAtTheEnd` (`CompleteWhenDone`), from `ResolveInv`. `CompleteInv` says of each list of rows (journal, a thread's, the loader's)
which set of events it has and that it is as long as this set: the journal and the thread at work together have the hours
behind the loader (`HoursBehind`, `HoursWritten`), the loader has what it read of the present one (`HourRead`), each
file stands in the list once (`EveryFileOnce`), and the status row is there only when nothing is left (`StatusTrue`, `StatusShown`).
A set and a count survive the sorting, of which nothing else is needed.

`BuiltAsPromised`: every step implements `JournalIndex`, from `CompleteInv`. A commit of an hour is `AddHour` because the rows
pending are then all of the thread's (`PendingIsPrefix`), which are that hour's events in order of time, and no earlier
hour is without its rows (`NextHourWritten`). The loader's last step is `Finish` (`NoHourLeft`), a death is `Interrupt`
or a stutter, and all else stutters. The fairness of `JournalIndex` is left to the run's `ImplementsJournalIndex`.

`SearchDuringLoadProofs`, for any directory, any texts of searches and any number of them. `LiveInv` says what holds until a box
that tells of a failed BEGIN is answered and the process ends: `CompleteInv`, which does not speak of totals and so survives
that a search overwrites the loader's; the transaction is open exactly when the loader's threads or the search are inside one, and never
both (`OneInside`); names are pending only while a thread writes (`NothingLeft`); and the index is
one that this process builds (`BuiltHere`), `SearchSpec` having no deaths. The steps of the window's thread leave all that the load rests on
as it is (`Unnoticed`, `LiveWindow`), because a search that gets a transaction finds nothing pending in it
(`SearchIsAlone`), and the loader's threads begin one only when none is open. From this follow:

- `SearchTypesCorrect` (`SearchTypeOK`), with the lemma that the recursion of `ResultOf` gives a table (`ResultType`);
- `TransactionHasOneOwner` (`OneOwner`);
- `HoursHaveTotals` (`TotalsWithinHour`): `HourTotals` follows a total from the row that was written to the thread that
  counts on from it, and an hour that is committed is none that the journal has (`CommittedIsOther`);
- `SearchSeesWholeHours` (`SearchOfWholeHours`): between two transactions the journal has whole hours (`WholeBetween`), which is
  when the query is made (`SelectSeesWhole`), and what a search selects of rows that are there does not
  change when rows, names and files are added behind them (`NamesOfRows`, `ResultKept`, `SeenKept`);
- `BuiltDespiteSearches` (`IndexByHours`): every step implements `JournalIndex`, where the status row counts from its commit on,
  be it the loader's own or that of a search in whose transaction it was written (`StatusSeen`).

`LockAnalysisProofs`, for any journal: `AnalysesTyped`, and what each analysis shows of a transaction:
`NoCulpritMissed` (`TimeoutCulpritsShown`), `FailedLockIsNearest` (`TimeoutLockIsNearest`), `NoEarlierTransaction`
(`CulpritsInTransaction`) and `BothSidesShown` (`DeadlockSidesShown`). An analysis is one step, so the
invariant is the result of that step; the work is in the lemmas about `Prev`, `Next` and `BeginSearch`. The loop of
`BeginSearch` is a recursive function on the ids, and what it returns is proved by induction on the id.

`ViewerProofs`, for any events, lengths, searches and window: `ViewerTyped`, `PagesAreSlices`, `GreyShowsCurrent`,
`CaretInCurrent`, `SearchesExact` and `ClickedIsCopied`. `ViewInv` has five parts: the types (`TypeInv`); the tables are
those of the searches that filled them, with the totals of their lines (`TablesInv`); the page is what the query by totals gives
from the position at which it was painted (`PageInv`); the current event is the one whose interval of totals has
the caret (`CaretInv`); and the menu keeps the event it was opened on (`MenuInv`). That a query by running totals and a cut of the
first event give a slice of the whole text rests on the lemmas that the totals grow and that each line has
exactly one event whose interval contains it.

`SearchTextProofs`, for any journal, any number of comparisons, and stamps whose units have room for their fields
(`SearchTextAssumption`): `SearchTyped` (`TypeOK`: only an ambiguous value, be it a column's name, makes SQLite refuse a text or the code step behind its
end) and `FilterAlwaysExact` (`FilterIsExact`). The invariant `SearchInv` says that the text is that of the comparisons
meant, joined by AND (`TextIsWritten`), and that the rows are what the condition of the text selects (`Found`). The rest
is about the functions, and follows the text through them as a chain of parts joined by AND (`Chain`, `Joined`):

- `Replace` goes into the parts (`ReplaceJoined`) and changes of an unambiguous comparison its key word only (`KeyReplaced`).
- A piece that stands only where a part begins and ends is replaced in the parts equal to it, and nowhere else
  (`PieceJoined`). What one round of `ReplaceTime` cuts out is such a piece: the first part with a stamp (`Round`), because a
  stamp has no quotation mark and every `Time` left begins a comparison (`StampedApart`, `SameStart`).
- So a round finishes the first stamped part that is left and all equal to it (`OneRound`), and the loop ends with none left,
  a text being as long as it has parts at least (`AsLongAsParts`, `TimeReplaced`).
- The parts of the condition are then the finished comparisons (`PartsJoined`, `ConditionJoined`). Of an unambiguous one SQLite
  takes the value as a string (`NoColumn`). One with a stamp
  has the number of what is taken of its moment, however far it is typed (`EndsTyped`, `StampRead`), and numbers are in the order of moments
  (`MomentsInOrder`) because a unit is larger than all below it.

`DataInduction` has what these proofs need about data and the library's theorems cannot give here, since they take an
operator as a parameter. A set of natural numbers with 0 and with the successor of each of its elements is `Nat`: the well-foundedness of
the strict subset relation on finite sets says so of a set instead of a predicate, and a set is a constant. From it follow that a
function defined by recursion on the numbers up to a bound exists, that a recursive function has the value its definition says, and
that sums of lines can be told as cardinalities.

Every invariant the runs check is a theorem. Only model-checked:

- `LoadEnds`, `LoadEndsOrTells`, `ParseEnds` and the fairness of `JournalIndex` (liveness), which the prover does not treat.

## What is not modelled

- Opening another directory while one loads: `Close` destroys the database object the loader's
  threads use, and nothing can be said of the states after it.
- Calls of SQLite at the same moment: the library is built without mutexes (CMakeLists.txt:25), and two
  threads in it at once race on its data. `SearchDuringLoad` takes each call as atomic, and so
  the window's painting while a directory loads is left out too.
- Functions that nothing calls: `IsGuid`, `ReplaceGuid`, `FindStartPosition`, `ClearBuffer`.
- In the parser: the width of `msecond_`, the digits of a connection beyond what `stoll` reads.
- What SQLite makes of a condition that a quotation mark in a value has broken: any outcome is possible in `SearchText`.
- Four key words of searches that are replaced as `Event` and `Usr` are, and the columns of their tables; the operators
  other than `=`, `>=`, `<` and `AND`, which SQLite evaluates.
- `Db::Close`, formatting, colours, fonts, the horizontal scroll bar, window layout.
- `AnalyzeTDeadlock` when a failed lock is missing: the code then reads an event of an
  undefined file.

- SQLite is 237,946 of the repository's 242,713 lines; it is third-party code, and what
  the program relies on (transactions, what a connection sees, the order of a query) is modelled with its callers.

## Plan

Done: `JournalIndex`, `ReadFiles`, `Locks`, `LockConflict`, `Viewer`, `LockAnalysis`, `LogText`, `Parser`, `SearchDuringLoad`,
`SearchText`, in that order, with the theorems above.

What is left: the hazards of `PROJECT.json` that no property covers, each with its reason there.
