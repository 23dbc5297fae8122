------------------------------- MODULE Viewer -------------------------------
(***************************************************************************)
(* Viewing an indexed directory: the window Edit (its scroll position, the *)
(* lines it shows, the current event) over the reading operations of       *)
(* DirectoryWatcher (Find, LoadJournal, GetLines, GetEvent, CountLines)    *)
(* and the queries of Db behind them. The text of an event is abstracted   *)
(* to its number of lines and a line to its place <<id, k>>: line k of     *)
(* event id. Handlers run one at a time on the window's thread, in any     *)
(* order: WM_PAINT waits until the queue is empty, so that any input may   *)
(* come between an invalidation and the painting.                          *)
(***************************************************************************)
EXTENDS Integers, Sequences, SequencesExt, FiniteSets

CONSTANTS Lines,        \* Lines[id]: count_lines of the event id of the journal
          Queries,      \* the texts of the search field
          NoQuery,      \* the empty one
          Matches,      \* Matches[q]: the ids the SQL of q selects
          Failing,      \* the queries whose SQL fails while it is executed
          MaxRows,      \* bound: the window's height in lines
          ScrollPage,   \* nPage of the vertical scroll bar (10 in the code)
          WheelSteps    \* the turns of the wheel, in notches

Ids == DOMAIN Lines

ASSUME ViewerAssumption ==
  /\ Lines \in Seq(Nat \ {0})
  /\ NoQuery \in Queries \ Failing
  /\ Matches \in [Queries -> SUBSET Ids]
  /\ MaxRows \in Nat
  /\ ScrollPage \in Nat \ {0}
  /\ WheelSteps \subseteq Int \ {0}

(* The rows of journal and of find_result the viewer reads; agr is         *)
(* count_lines_agr.                                                        *)
Row(id, agr) == [id |-> id, lines |-> Lines[id], agr |-> agr]

NotSet       == [id |-> -1, lines |-> 0, agr |-> 0]   \* a null current_event_
DefaultEvent == [id |-> 0, lines |-> 0, agr |-> 0]    \* EventOut()

VARIABLES
  findStr,       \* find_str_
  findResult,    \* table mem.find_result: a sequence of rows in id order
  box,           \* the message box of a search that failed is open
  before,        \* findResult when that search began
  numLine,       \* num_line_: the number of the first line of the window
  vpos,          \* vpos_
  scrollPos,     \* nPos of the scroll bar, kept by Windows
  maxVpos,       \* max_vpos_
  caretLine,     \* caret_line_
  current,       \* current_event_
  display,       \* display_lines_
  invalid,       \* the window has an update region: a WM_PAINT will come
  clicked,       \* current_event_on_rbutton_click_
  menu,          \* the context menu: "none", "plain" or, with the command copy, "copy"
  copied,        \* the event the clipboard holds
  crashed        \* the process has ended: a null pointer, an uncaught exception

searchVars == <<findStr, findResult, box, before>>
scrollVars == <<numLine, vpos, scrollPos, maxVpos>>
menuVars   == <<clicked, menu, copied, crashed>>
vars == <<searchVars, scrollVars, menuVars, caretLine, current, display, invalid>>

-----------------------------------------------------------------------------
(* Running totals of lines over a sequence of ids.                         *)
Totals(ids) ==
  LET agr[i \in 0 .. Len(ids)] == IF i = 0 THEN 0 ELSE agr[i - 1] + Lines[ids[i]]
  IN  [i \in DOMAIN ids |-> Row(ids[i], agr[i])]

(* ORDER BY id.                                                            *)
InIdOrder(S) ==
  CHOOSE ids \in [1 .. Cardinality(S) -> S] : \A i, j \in DOMAIN ids : i < j => ids[i] < ids[j]

Journal == Totals(InIdOrder(Ids))

(* CountLines of a table: its last running total, 0 if it is empty.        *)
CountLines(table) == IF table = << >> THEN 0 ELSE Last(table).agr

(* The WHERE of LoadJournalAll and LoadJournalFind: from the first row     *)
(* whose total reaches start to the first one whose total reaches start +  *)
(* count, or to the end; no row reaching start selects nothing.            *)
LoadJournal(table, start, count) ==
  LET reaching(l) == {i \in DOMAIN table : table[i].agr >= l}
      first(l)    == CHOOSE i \in reaching(l) : \A j \in reaching(l) : i <= j
  IN  IF reaching(start) = {} THEN << >>
      ELSE SubSeq(table, first(start),
                  IF reaching(start + count) = {} THEN Len(table) ELSE first(start + count))

(* AsWStrings of a row.                                                    *)
AsWStrings(row) == [k \in 1 .. row.lines |-> <<row.id, k>>]

(* Wrong: the number of the first line is one less.                        *)
GetLinesNumberedFromZero(table, start, count) ==
  LET events  == LoadJournal(table, start, count)
      lines   == FlattenSeq([i \in DOMAIN events |-> AsWStrings(events[i])])
      curLine == Head(events).agr - Head(events).lines
  IN  IF events = << >> THEN << >>
      ELSE SubSeq(lines, start - curLine + 1,
                  Min({Len(lines), start + count - curLine + 1}))

(* GetLines: the lines of the loaded events, numbered from the first one's *)
(* total, cut to start .. start + count.                                   *)
GetLines(table, start, count) ==
  LET events  == LoadJournal(table, start, count)
      lines   == FlattenSeq([i \in DOMAIN events |-> AsWStrings(events[i])])
      curLine == Head(events).agr - Head(events).lines + 1
  IN  IF events = << >> THEN << >>
      ELSE SubSeq(lines, start - curLine + 1,
                  Min({Len(lines), start + count - curLine + 1}))

(* GetEvent: the event of a line, or an empty one.                         *)
GetEvent(table, line) ==
  LET events == LoadJournal(table, line, 0)
  IN  IF Len(events) = 1 THEN Head(events) ELSE DefaultEvent

(* The table LoadJournal and CountLines read.                              *)
TableOf(query, result) == IF query = NoQuery THEN Journal ELSE result

Table == TableOf(findStr, findResult)

-----------------------------------------------------------------------------
(* Windows keeps the position of a scroll bar within nMin .. nMax - nPage + 1. *)
Clamp(pos, max) ==
  LET last == IF max >= ScrollPage THEN max - ScrollPage + 1 ELSE 0
  IN  IF pos < 0 THEN 0 ELSE Min({pos, last})

Init ==
  /\ findStr = NoQuery /\ findResult = << >> /\ box = FALSE /\ before = << >>
  /\ numLine = 1 /\ vpos = 0 /\ scrollPos = 0 /\ maxVpos = CountLines(Journal)
  /\ caretLine = 1 /\ current = NotSet
  /\ display = << >> /\ invalid = TRUE
  /\ clicked = NotSet /\ menu = "none" /\ copied = NotSet /\ crashed = FALSE

(* Edit::OnPaint, over a window or an update region of the given rows: a   *)
(* current event is chosen if there is none (MarkCurrentEvent(0, 0), which *)
(* invalidates the window again).                                          *)
PaintFrom(first, rows) ==
  /\ display' = GetLines(Table, first, rows)
  /\ IF display' # << >> /\ current = NotSet
     THEN /\ caretLine' = first
          /\ current' = GetEvent(Table, first)
          /\ invalid' = TRUE
     ELSE /\ invalid' = FALSE
          /\ UNCHANGED <<caretLine, current>>

Paint ==
  /\ invalid
  /\ \E rows \in 0 .. MaxRows : PaintFrom(numLine, rows)
  /\ UNCHANGED <<searchVars, scrollVars, menuVars>>

(* Wrong: the scroll position of the last search stays.                    *)
UpdateDisplayWithoutScroll ==
  /\ caretLine' = 1
  /\ maxVpos' = CountLines(TableOf(findStr', findResult'))
  /\ current' = NotSet
  /\ invalid' = TRUE
  /\ UNCHANGED <<vpos, numLine, scrollPos>>

(* Edit::UpdateDisplay after a search.                                     *)
UpdateDisplay ==
  /\ vpos' = 0 /\ numLine' = 1 /\ caretLine' = 1
  /\ maxVpos' = CountLines(TableOf(findStr', findResult'))
  /\ scrollPos' = 0
  /\ current' = NotSet
  /\ invalid' = TRUE

(* WM_SIZE, or another window uncovers a part of this one.                 *)
Expose ==
  /\ invalid' = TRUE
  /\ UNCHANGED <<searchVars, scrollVars, menuVars, caretLine, current, display>>

(* Wrong: find_result is not cleared first.                                *)
FindRowsWithoutClear(q) ==
  findResult \o SelectSeq(Totals(InIdOrder(Matches[q])),
                          LAMBDA r : \A i \in DOMAIN findResult : findResult[i].id # r.id)

(* The rows a search puts into the cleared find_result, with their totals  *)
(* from count_lines_agr_find_ = 0; without a key word it selects nothing.  *)
FindRows(q) == Totals(InIdOrder(Matches[q]))

(* DirectoryWatcher::Find when its SQL succeeds, then UpdateDisplay.       *)
SearchEnds(q) ==
  /\ ~box /\ q \notin Failing
  /\ findStr' = q
  /\ findResult' = IF q = NoQuery THEN << >> ELSE FindRows(q)
  /\ UpdateDisplay
  /\ UNCHANGED <<box, before, crashed>>

(* The SQL fails after some rows: Exec shows its message box inside the    *)
(* transaction, before it throws.  The box has no owner and dispatches the *)
(* messages of the window, which stays as it was.                          *)
SearchFails(q) ==
  /\ ~box /\ q \in Failing
  /\ findStr' = q
  /\ \E n \in 0 .. Len(FindRows(q)) : findResult' = SubSeq(FindRows(q), 1, n)
  /\ box' = TRUE /\ before' = findResult
  /\ UNCHANGED <<scrollVars, caretLine, current, invalid, crashed>>

(* Another search under the box: its BEGIN fails inside the transaction,   *)
(* outside the try block.                                                  *)
SearchUnderBox(q) ==
  /\ box
  /\ findStr' = q
  /\ crashed' = TRUE
  /\ UNCHANGED <<findResult, box, before, scrollVars, caretLine, current, invalid>>

(* Wrong: after a failure the window is not updated.                       *)
CloseBoxWithoutUpdate ==
  /\ box /\ menu = "none"
  /\ box' = FALSE /\ before' = << >>
  /\ findResult' \in {findResult, before}
  /\ maxVpos' = CountLines(TableOf(findStr, findResult'))
  /\ UNCHANGED <<findStr, numLine, vpos, scrollPos, caretLine, current, invalid,
                 display, menuVars>>

(* The box is closed: the handler's ROLLBACK has no journal to undo with,  *)
(* so that the rows already inserted remain or the old ones come back.     *)
CloseBox ==
  /\ box /\ menu = "none"
  /\ box' = FALSE /\ before' = << >>
  /\ findResult' \in {findResult, before}
  /\ findStr' = findStr
  /\ UpdateDisplay
  /\ UNCHANGED <<display, menuVars>>

Search(q) == SearchEnds(q) \/ SearchFails(q) \/ SearchUnderBox(q)

(* Enter in the search field (MainWindow::OnEndInput, Edit::OnFind).       *)
Find(q) ==
  /\ menu = "none"
  /\ Search(q)
  /\ UNCHANGED <<display, clicked, menu, copied>>

(* Edit::OnVScroll: a line up or down from the position Windows keeps, or  *)
(* a drag; UpdateWindow paints before the handler returns.                 *)
Scroll(pos) ==
  /\ menu = "none"
  /\ scrollPos' = Clamp(pos, maxVpos)
  /\ vpos' = scrollPos' /\ numLine' = scrollPos' + 1
  /\ \E rows \in 0 .. MaxRows : PaintFrom(scrollPos' + 1, rows)
  /\ UNCHANGED <<searchVars, maxVpos, menuVars>>

VScroll ==
  \E pos \in {scrollPos - 1, scrollPos + 1} \cup 0 .. maxVpos : Scroll(pos)

(* Edit::OnMouseWheel: vpos_ has bounds of its own.                        *)
MouseWheel(delta) ==
  LET pos == vpos - delta
  IN
  /\ menu = "none"
  /\ vpos' = IF pos < 0 THEN 0 ELSE Min({pos, maxVpos})
  /\ numLine' = vpos' + 1
  /\ scrollPos' = Clamp(vpos', maxVpos)
  /\ \E rows \in 0 .. MaxRows : PaintFrom(vpos' + 1, rows)
  /\ UNCHANGED <<searchVars, maxVpos, menuVars>>

(* Wrong: the event of the next line becomes current.                      *)
LButtonDownOnNextLine(y) ==
  /\ menu = "none" /\ y < Len(display)
  /\ caretLine' = numLine + y
  /\ current' = GetEvent(Table, numLine + y + 1)
  /\ invalid' = TRUE
  /\ UNCHANGED <<searchVars, scrollVars, display, menuVars>>

(* Edit::OnLButtonDown, MarkCurrentEvent: row y of what is displayed.      *)
LButtonDown(y) ==
  /\ menu = "none" /\ y < Len(display)
  /\ caretLine' = numLine + y
  /\ current' = GetEvent(Table, numLine + y)
  /\ invalid' = TRUE
  /\ UNCHANGED <<searchVars, scrollVars, display, menuVars>>

(* Wrong: copying is offered on any event.                                 *)
ContextMenuAlwaysCopies(y) ==
  /\ menu = "none" /\ display # << >>
  /\ clicked' = IF y < Len(display) THEN GetEvent(Table, numLine + y) ELSE NotSet
  /\ crashed' = (clicked' # NotSet /\ current = NotSet)
  /\ menu' = IF clicked' # NotSet THEN "copy" ELSE "plain"
  /\ UNCHANGED <<searchVars, scrollVars, caretLine, current, display, invalid, copied>>

(* Edit::OnContextMenu: the event under the mouse is compared with         *)
(* *current_event_, whatever that pointer is.                              *)
ContextMenu(y) ==
  /\ menu = "none" /\ display # << >>
  /\ clicked' = IF y < Len(display) THEN GetEvent(Table, numLine + y) ELSE NotSet
  /\ crashed' = (clicked' # NotSet /\ current = NotSet)
  /\ menu' = IF clicked' # NotSet /\ clicked' = current THEN "copy" ELSE "plain"
  /\ UNCHANGED <<searchVars, scrollVars, caretLine, current, display, invalid, copied>>

(* Edit::OnCommand: copy the current event, or search what the menu or an  *)
(* analysis selects.                                                       *)
Copy ==
  /\ menu = "copy"
  /\ copied' = current
  /\ menu' = "none"
  /\ UNCHANGED <<searchVars, scrollVars, caretLine, current, display, invalid,
                 clicked, crashed>>

MenuSelection(q) ==
  /\ menu # "none"
  /\ Search(q)
  /\ menu' = "none"
  /\ UNCHANGED <<display, clicked, copied>>

CloseMenu ==
  /\ menu # "none"
  /\ menu' = "none"
  /\ UNCHANGED <<searchVars, scrollVars, caretLine, current, display, invalid,
                 clicked, copied, crashed>>

Input ==
  /\ ~crashed
  /\ \/ Paint \/ Expose
     \/ \E q \in Queries : Find(q) \/ MenuSelection(q)
     \/ VScroll
     \/ \E delta \in WheelSteps : MouseWheel(delta)
     \/ \E y \in 0 .. MaxRows : LButtonDown(y) \/ ContextMenu(y)
     \/ Copy \/ CloseMenu \/ CloseBox

Next == Input \/ (crashed /\ UNCHANGED vars)

Spec == Init /\ [][Next]_vars

-----------------------------------------------------------------------------
(* Properties                                                              *)

Rows == {NotSet, DefaultEvent} \cup [id : Ids, lines : Nat, agr : Nat]

TypeOK ==
  /\ findStr \in Queries
  /\ findResult \in Seq([id : Ids, lines : Nat, agr : Nat])
  /\ numLine = vpos + 1
  /\ box \in BOOLEAN /\ before \in Seq([id : Ids, lines : Nat, agr : Nat])
  /\ ~box => maxVpos = CountLines(Table)
  /\ vpos \in 0 .. maxVpos
  /\ scrollPos = Clamp(vpos, maxVpos)
  /\ caretLine \in Nat
  /\ current \in Rows
  /\ display \in Seq(Ids \X Nat)
  /\ invalid \in BOOLEAN
  /\ clicked \in Rows
  /\ menu \in {"none", "plain", "copy"}
  /\ copied \in Rows
  /\ crashed \in BOOLEAN

(* The events the search selects, and the number of line k of event id in  *)
(* their text: what the window should show, from the definition.           *)
Shown == IF findStr = NoQuery THEN Ids ELSE {findResult[i].id : i \in DOMAIN findResult}

LinesBefore(id) == UNION {{j} \X (1 .. Lines[j]) : j \in {j \in Shown : j < id}}

LineNumber(id, k) == Cardinality(LinesBefore(id)) + k

(* The painted window shows the lines numLine, numLine + 1, ... of the     *)
(* text of the shown events, with no line skipped, repeated or misplaced,  *)
(* after any search (a failed one too, and whatever is painted, clicked or *)
(* scrolled under its message box) and from any scroll position; it is     *)
(* empty only past the end.                                                *)
PageIsSlice ==
  ~invalid /\ ~box =>
    /\ \A i \in DOMAIN display :
         LET id == display[i][1]
             k  == display[i][2]
         IN  /\ id \in Shown /\ k \in 1 .. Lines[id]
             /\ LineNumber(id, k) = numLine + i - 1
    /\ display = << >> <=> numLine > maxVpos

(* The lines painted grey, which OnPaint finds by the totals of            *)
(* current_event_, are the lines of that event and no other's: the totals  *)
(* belong to the search that is displayed.                                 *)
GreyIsCurrent ==
  ~invalid /\ ~box /\ current # NotSet =>
    \A i \in DOMAIN display :
      (numLine + i - 1 \in current.agr - current.lines + 1 .. current.agr)
        <=> display[i][1] = current.id

(* The current event is the one the caret is in, in the numbering of the   *)
(* present search, or the empty event when the caret is past the end (a    *)
(* click on lines of the previous search, not yet painted over).           *)
CurrentHasCaret ==
  ~box =>
    /\ current = DefaultEvent => caretLine > maxVpos
    /\ current \notin {NotSet, DefaultEvent} =>
         /\ current.id \in Shown
         /\ \E k \in 1 .. Lines[current.id] : caretLine = LineNumber(current.id, k)

(* A search that does not fail shows every matching event and no other,    *)
(* whatever the searches before it left in the table.                      *)
SearchIsExact ==
  ~crashed /\ findStr \notin Failing /\ findStr # NoQuery => Shown = Matches[findStr]

(* "Copy the current event" copies the event the menu was opened on, though *)
(* the window may be painted, and the current event set, in between.       *)
CopyIsClicked == [][copied' # copied => copied' = clicked]_vars
=============================================================================
