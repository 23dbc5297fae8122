------------------------------- MODULE Parser -------------------------------
(***************************************************************************)
(* One log file from its opening to the rows of its events: the loop of    *)
(* DirectoryWatcher::ReadFiles over the chunks that Reader::Next reads,    *)
(* and Parser::Parse, an automaton whose states are functions that consume *)
(* one byte or none, and that keeps its state from one chunk to the next.  *)
(* A step is one call of such a function with the transition after it.     *)
(***************************************************************************)
EXTENDS LogText

CONSTANTS Texts,       \* what files hold after the byte order mark when Read is called
          BufferSizes, \* Reader::size_buffer_
          KeyName      \* the names of the properties the index keeps

(* The properties of an event that EventData keeps.                        *)
Columns == {"p_process_name", "usr", "session_id", "wait_connections"}
Keys    == Columns \cup {"t_connect_id"}

ASSUME ParserAssumption ==
  /\ Texts \subseteq Seq(Char)
  /\ BufferSizes \subseteq Nat \ {0}
  /\ KeyName \in [Keys -> Seq(Char)]
  /\ \A k, l \in Keys : KeyName[k] = KeyName[l] => k = l
  /\ \A k \in Keys : KeyName[k] # << >>

VARIABLES
  text,       \* the bytes from pos_ = 3 to pos_end_
  bom,        \* the file begins with a byte order mark
  sizeBuffer, \* size_buffer_
  pc,         \* where ReadFiles and Parse are
  pos,        \* Reader::pos_ less 3: the bytes read
  ch,         \* Parse's pointer ch, as a position in text
  end,        \* Parse's pointer end: the last byte of the chunk
  offset,     \* Parser::offset_
  fcn,        \* Parser::ptr_fcn
  quotes,     \* Parser::stack_quotes
  ev,         \* Parser::event_data
  keyTemp,    \* event_data.key_temp_
  valueTemp,  \* event_data.value_temp_
  events,     \* Parser::events_
  rows        \* the events of the file given to journal_records

fileVars  == <<text, bom, sizeBuffer>>
eventVars == <<ev, keyTemp, valueTemp, quotes, events>>
vars == <<fileVars, eventVars, pc, pos, ch, end, offset, fcn, rows>>

States ==
  {"Start", "Minute", "Second", "Msecond", "Duration", "Event", "Level", "Key",
   "Value", "EndValue", "EndEvent", "Mvalue", "Error"}

EventData ==
  [offset_start : Nat, offset_end : Nat, count_lines : Nat,
   minute : 0 .. 255, second : 0 .. 255, msecond : Nat, name : Seq(Char),
   t_connect_id : Seq(Char), kept : [Columns -> Seq(Char)]]

NewEventData ==
  [offset_start |-> 0, offset_end |-> 0, count_lines |-> 1,
   minute |-> 0, second |-> 0, msecond |-> 0, name |-> << >>,
   t_connect_id |-> << >>, kept |-> [c \in Columns |-> << >>]]

TypeOK ==
  /\ text \in Texts
  /\ bom \in BOOLEAN
  /\ sizeBuffer \in BufferSizes
  /\ pc \in {"open", "read", "first", "middle", "last", "rows", "done", "overrun", "terminated"}
  /\ pos \in 0 .. Len(text)
  /\ ch \in Nat \ {0}
  /\ end \in 0 .. Len(text)
  /\ offset \in Nat
  /\ fcn \in States
  /\ quotes \in Seq(QuoteMarks)
  /\ ev \in EventData
  /\ keyTemp \in Seq(Char)
  /\ valueTemp \in Seq(Char)
  /\ events \in Seq(EventData)
  /\ rows \in Seq(EventData)

Init ==
  /\ text \in Texts /\ bom \in BOOLEAN /\ sizeBuffer \in BufferSizes
  /\ pc = "open" /\ pos = 0 /\ ch = 1 /\ end = 0
  /\ offset = BomSize /\ fcn = "Start" /\ quotes = << >>
  /\ ev = NewEventData /\ keyTemp = << >> /\ valueTemp = << >>
  /\ events = << >> /\ rows = << >>

-----------------------------------------------------------------------------
(* The automaton                                                           *)

(* Wrong: the quotation is forgotten for the comma. *)
TypeCharCommaEnds(c, stack) ==
  LET inQuotes == stack # << >>
  IN  CASE c \in Digit    -> "Digit"
        [] c = ":"        -> "Colon"
        [] c = "."        -> "Dot"
        [] c = "-"        -> "Minus"
        [] c = Comma      -> "Comma"
        [] c = "="        -> "Equal"
        [] c \in QuoteMarks -> "Quote"
        [] c = NewLine    -> IF inQuotes THEN "NewLineInQ" ELSE "NewLine"
        [] OTHER          -> "Char"

(* A comma or a line break inside a quotation is a type of its own.        *)
TypeChar(c, stack) ==
  LET inQuotes == stack # << >>
  IN  CASE c \in Digit    -> "Digit"
        [] c = ":"        -> "Colon"
        [] c = "."        -> "Dot"
        [] c = "-"        -> "Minus"
        [] c = Comma      -> IF inQuotes THEN "CommaInQ" ELSE "Comma"
        [] c = "="        -> "Equal"
        [] c \in QuoteMarks -> "Quote"
        [] c = NewLine    -> IF inQuotes THEN "NewLineInQ" ELSE "NewLine"
        [] OTHER          -> "Char"

HeaderTable(f, type) ==
  CASE f = "Start" /\ type = "Digit"            -> "Minute"
    [] f \in {"Minute", "Second", "Msecond", "Duration", "Level"} /\ type = "Digit" -> f
    [] f = "Minute"   /\ type = "Colon"         -> "Second"
    [] f = "Second"   /\ type = "Dot"           -> "Msecond"
    [] f = "Msecond"  /\ type = "Minus"         -> "Duration"
    [] f = "Duration" /\ type = "Comma"         -> "Event"
    [] f = "Event"    /\ type = "Char"          -> "Event"
    [] f = "Event"    /\ type = "Comma"         -> "Level"
    [] f = "Level"    /\ type = "Comma"         -> "Key"
    [] OTHER                                    -> "Error"

(* Wrong: a value at the end of a line is ended again and again. *)
PropertyTableEndsAgain(f, type) ==
  CASE f = "Key" /\ type = "Equal" -> "Value"
    [] f = "Key" /\ type # "Equal" -> IF type = "Quote" THEN "Error" ELSE "Key"
    [] f = "Value" /\ type = "Quote" -> "Mvalue"
    [] f \in {"Value", "Mvalue", "EndValue"} /\ type = "NewLine" -> "EndValue"
    [] f \in {"Value", "Mvalue"} /\ type = "Comma" -> "EndValue"
    [] f = "EndValue" /\ type = "Comma" -> "Key"
    [] f \in {"Value", "Mvalue"} /\ type \notin {"Comma", "NewLine", "Quote"} -> f
    [] OTHER -> "Error"

PropertyTable(f, type) ==
  CASE f = "Key" /\ type = "Equal"              -> "Value"
    [] f = "Key" /\ type \in {"Digit", "Colon", "Dot", "Minus", "Comma", "Char"} -> "Key"
    [] f = "Value" /\ type \in {"Digit", "Colon", "Dot", "Minus", "Equal", "Char"} -> "Value"
    [] f = "Value" /\ type = "Quote"            -> "Mvalue"
    [] f \in {"Value", "Mvalue"} /\ type \in {"Comma", "NewLine"} -> "EndValue"
    [] f = "Mvalue" /\ type \notin {"Comma", "NewLine"} -> "Mvalue"
    [] f = "EndValue" /\ type = "Comma"         -> "Key"
    [] f = "EndValue" /\ type = "NewLine"       -> "EndEvent"
    [] f = "EndEvent" /\ type = "NewLine"       -> "Start"
    [] OTHER                                    -> "Error"

TransitionTable(f, type) ==
  IF f \in {"Key", "Value", "EndValue", "EndEvent", "Mvalue"}
  THEN PropertyTable(f, type) ELSE HeaderTable(f, type)

Consume == ch' = ch + 1 /\ offset' = offset + 1

(* What a function keeps of the byte: separators of the fields are skipped.*)
Pushed(s, skipped) == IF text[ch] \in skipped THEN s ELSE Append(s, text[ch])
Counted(n, skipped) == IF text[ch] \in skipped THEN n ELSE 10 * n + DigitValue(text[ch])

(* Wrong: any byte is consumed, not only the line break. *)
StartConsumes ==
  /\ Consume
  /\ ev' = [NewEventData EXCEPT !.offset_start = offset']
  /\ UNCHANGED <<keyTemp, valueTemp, quotes, events>>

(* event_data = {} leaves key_temp_ and value_temp_ as they are.           *)
Start ==
  /\ IF text[ch] = NewLine THEN Consume ELSE UNCHANGED <<ch, offset>>
  /\ ev' = [NewEventData EXCEPT !.offset_start = offset']
  /\ UNCHANGED <<keyTemp, valueTemp, quotes, events>>

Header(newEv) ==
  /\ Consume
  /\ ev' = newEv
  /\ UNCHANGED <<keyTemp, valueTemp, quotes, events>>

Minute  == Header([ev EXCEPT !.minute = Counted(@, {}) % 256])
Second  == Header([ev EXCEPT !.second = Counted(@, {":"}) % 256])
Msecond == Header([ev EXCEPT !.msecond = Counted(@, {"."})])
Duration == Header(ev)
Event   == Header([ev EXCEPT !.name = Pushed(@, {Comma})])
Level   == Header(ev)

Key ==
  /\ Consume
  /\ keyTemp' = Pushed(keyTemp, {Comma})
  /\ UNCHANGED <<ev, valueTemp, quotes, events>>

Value ==
  /\ Consume
  /\ valueTemp' = Pushed(valueTemp, {"=", Return})
  /\ UNCHANGED <<ev, keyTemp, quotes, events>>

(* The digits, and the sign before them, that stoll reads at the beginning *)
(* of a value; it throws when there is no digit.                           *)
Numeral(v) ==
  LET sign == IF v # << >> /\ v[1] = "-" THEN 1 ELSE 0
      last == CHOOSE n \in sign .. Len(v) :
                /\ \A i \in sign + 1 .. n : v[i] \in Digit
                /\ n < Len(v) => v[n + 1] \notin Digit
  IN  IF last = sign THEN << >> ELSE SubSeq(v, 1, last)

StollThrows == keyTemp = KeyName["t_connect_id"] /\ Numeral(valueTemp) = << >>

(* Wrong: the value of a property that is not kept stays in value_temp_. *)
EndValueKeepsTemp ==
  /\ ev' = [ev EXCEPT
       !.t_connect_id = IF keyTemp = KeyName["t_connect_id"] THEN Numeral(valueTemp) ELSE @,
       !.kept = [c \in Columns |->
         IF keyTemp = KeyName[c] /\ (c # "wait_connections" \/ valueTemp # << >>)
         THEN valueTemp ELSE @[c]]]
  /\ keyTemp' = << >>
  /\ valueTemp' = IF \E k \in Keys : KeyName[k] = keyTemp THEN << >> ELSE valueTemp
  /\ UNCHANGED <<ch, offset, quotes, events>>

(* A member is changed when the key is its name; an empty WaitConnections  *)
(* changes nothing.                                                        *)
EndValue ==
  /\ ev' = [ev EXCEPT
       !.t_connect_id = IF keyTemp = KeyName["t_connect_id"] THEN Numeral(valueTemp) ELSE @,
       !.kept = [c \in Columns |->
         IF keyTemp = KeyName[c] /\ (c # "wait_connections" \/ valueTemp # << >>)
         THEN valueTemp ELSE @[c]]]
  /\ keyTemp' = << >> /\ valueTemp' = << >>
  /\ UNCHANGED <<ch, offset, quotes, events>>

EndEvent ==
  /\ events' = Append(events, [ev EXCEPT !.offset_end = offset])
  /\ ev' = NewEventData
  /\ UNCHANGED <<ch, offset, keyTemp, valueTemp, quotes>>

(* Wrong: the line breaks inside a quotation are not counted. *)
MvalueCountsNoLines ==
  /\ Consume
  /\ quotes' = IF text[ch] \notin QuoteMarks THEN quotes
               ELSE IF quotes = << >> THEN <<text[ch]>>
               ELSE IF quotes[Len(quotes)] = text[ch] THEN SubSeq(quotes, 1, Len(quotes) - 1)
               ELSE quotes
  /\ valueTemp' = Append(valueTemp, text[ch])
  /\ UNCHANGED <<ev, keyTemp, events>>

Mvalue ==
  /\ Consume
  /\ quotes' = IF text[ch] \notin QuoteMarks THEN quotes
               ELSE IF quotes = << >> THEN <<text[ch]>>
               ELSE IF quotes[Len(quotes)] = text[ch] THEN SubSeq(quotes, 1, Len(quotes) - 1)
               ELSE quotes
  /\ ev' = IF text[ch] = NewLine THEN [ev EXCEPT !.count_lines = @ + 1] ELSE ev
  /\ valueTemp' = Append(valueTemp, text[ch])
  /\ UNCHANGED <<keyTemp, events>>

(* ptr_fcn(&ch, this)                                                      *)
Call ==
  \/ fcn = "Start" /\ Start
  \/ fcn = "Minute" /\ Minute
  \/ fcn = "Second" /\ Second
  \/ fcn = "Msecond" /\ Msecond
  \/ fcn = "Duration" /\ Duration
  \/ fcn = "Event" /\ Event
  \/ fcn = "Level" /\ Level
  \/ fcn = "Key" /\ Key
  \/ fcn = "Value" /\ Value
  \/ fcn = "EndValue" /\ ~StollThrows /\ EndValue
  \/ fcn = "EndEvent" /\ EndEvent
  \/ fcn = "Mvalue" /\ Mvalue

Transit == fcn' = TransitionTable(fcn, TypeChar(text[ch'], quotes'))

-----------------------------------------------------------------------------
(* Parser::Parse                                                           *)

(* Wrong: the first function is not called before the first transition. *)
FirstByteNoStart ==
  /\ pc = "first"
  /\ UNCHANGED <<eventVars, ch, offset>>
  /\ pc' = (IF ch = end THEN "last" ELSE "middle") /\ Transit
  /\ UNCHANGED <<fileVars, pos, end, rows>>

(* A chunk that begins an event calls Start before the first transition.   *)
(* When Start consumes the only byte of the chunk, ch is behind end and    *)
(* the loop up to end runs out of the buffer.                              *)
FirstByte ==
  /\ pc = "first"
  /\ IF fcn = "Start" THEN Start ELSE UNCHANGED <<eventVars, ch, offset>>
  /\ IF ch' > end THEN pc' = "overrun" /\ UNCHANGED fcn
     ELSE pc' = (IF ch' = end THEN "last" ELSE "middle") /\ Transit
  /\ UNCHANGED <<fileVars, pos, end, rows>>

MiddleBytes ==
  /\ pc = "middle"
  /\ Call
  /\ Transit
  /\ pc' = IF ch' = end THEN "last" ELSE "middle"
  /\ UNCHANGED <<fileVars, pos, end, rows>>

(* Wrong: the transition on the last byte of a chunk is made once more. *)
LastByteAgain ==
  /\ pc = "last"
  /\ Call
  /\ IF ch' = end + 1
     THEN pc' = "rows" /\ fcn' = TransitionTable(fcn, TypeChar(text[end], quotes'))
     ELSE pc' = pc /\ Transit
  /\ UNCHANGED <<fileVars, pos, end, rows>>

LastByte ==
  /\ pc = "last"
  /\ Call
  /\ IF ch' = end + 1 THEN pc' = "rows" /\ UNCHANGED fcn
     ELSE pc' = pc /\ Transit
  /\ UNCHANGED <<fileVars, pos, end, rows>>

(* Error throws, and so does stoll; nobody catches on the loading thread.  *)
Throw ==
  /\ pc \in {"middle", "last"}
  /\ fcn = "Error" \/ (fcn = "EndValue" /\ StollThrows)
  /\ pc' = "terminated"
  /\ UNCHANGED <<fileVars, eventVars, pos, ch, end, offset, fcn, rows>>

-----------------------------------------------------------------------------
(* The loop of ReadFiles over the chunks of a file                         *)

(* Reader::IsWorkingFile, Open and Read: the end of the file is taken once.*)
Open ==
  /\ pc = "open"
  /\ pc' = IF bom /\ text # << >> THEN "read" ELSE "done"
  /\ UNCHANGED <<fileVars, eventVars, pos, ch, end, offset, fcn, rows>>

(* Wrong: a whole buffer is read where less is left. *)
NextChunkFull ==
  /\ pc = "read"
  /\ IF pos >= Len(text) THEN pc' = "done" /\ UNCHANGED <<pos, ch, end>>
     ELSE /\ pc' = "first" /\ pos' = pos + sizeBuffer
          /\ ch' = pos + 1 /\ end' = pos + sizeBuffer
  /\ UNCHANGED <<fileVars, eventVars, offset, fcn, rows>>

(* Reader::Next, and Parse is called on what it read.                      *)
NextChunk ==
  /\ pc = "read"
  /\ LET left == Len(text) - pos
         size == IF left > sizeBuffer THEN sizeBuffer ELSE left
     IN  /\ pos' = pos + size
         /\ IF size = 0 THEN pc' = "done" /\ UNCHANGED <<ch, end>>
            ELSE pc' = "first" /\ ch' = pos + 1 /\ end' = pos + size
  /\ UNCHANGED <<fileVars, eventVars, offset, fcn, rows>>

(* MoveEvents, and a row of journal_records for every event.               *)
TakeEvents ==
  /\ pc = "rows"
  /\ rows' = rows \o events /\ events' = << >>
  /\ pc' = "read"
  /\ UNCHANGED <<fileVars, ev, keyTemp, valueTemp, quotes, pos, ch, end, offset, fcn>>

Ended ==
  /\ pc \in {"done", "overrun", "terminated"}
  /\ UNCHANGED vars

Step == Open \/ NextChunk \/ FirstByte \/ MiddleBytes \/ LastByte \/ Throw \/ TakeEvents

Next == Step \/ Ended

(* The loading thread goes on as long as it is not waiting: Parse and the  *)
(* loop around it never wait.                                              *)
Fairness == WF_vars(Step)

Spec == Init /\ [][Next]_vars /\ Fairness

-----------------------------------------------------------------------------
(* Properties                                                              *)

PositionOf(o) == o - BomSize + 1

(* The bytes of an event, as the pair (start, lenght) of its row tells.    *)
Positions(e) == PositionOf(e.offset_start) .. PositionOf(e.offset_end) - 1

Taken == Range(rows) \cup Range(events)

(* What a row says of an event is where the event lies: its bytes begin    *)
(* with the text or behind a line break and end before one.  Reader::Read  *)
(* of (start, lenght) gives the viewer just these bytes.                   *)
EventsBetweenBreaks ==
  \A e \in Taken :
    /\ PositionOf(e.offset_end) \in DOMAIN text
    /\ text[PositionOf(e.offset_end)] = NewLine
    /\ PositionOf(e.offset_start) \in 1 .. PositionOf(e.offset_end)
    /\ \/ PositionOf(e.offset_start) = 1
       \/ text[PositionOf(e.offset_start) - 1] = NewLine

(* count_lines_ of a row is the number of lines into which the viewer cuts *)
(* the event's text (EventOut::AsWStrings), also when quotations hold line *)
(* breaks and however the chunks fall.  The paging of the window numbers   *)
(* its lines with it.                                                      *)
LinesCounted ==
  \A e \in Taken :
    e.count_lines = 1 + Cardinality({i \in Positions(e) : text[i] = NewLine})

(* An event whose t:connectID is no number ends the program.               *)
Acceptable(t, p) ==
  /\ IsEvent(t, p)
  /\ \A f \in PropertyFields(t, p) :
       PropertyName(t, f) = KeyName["t_connect_id"] => Numeral(PropertyValue(t, f)) # << >>

(* A text that acceptable events fill.                                     *)
WellFormed(t) ==
  /\ t = << >> \/ Len(t) \in Breaks(t)
  /\ \A p \in Lines(t) : Acceptable(t, p)

(* The values of the columns, by the properties fields of t.               *)
KeptOf(t, fields) ==
  [c \in Columns |->
     LastValue(t, fields, KeyName[c],
               IF c = "wait_connections" THEN Seq(Char) \ {<< >>} ELSE Seq(Char))]

(* The row of an event, said by its text alone.  The members minute and    *)
(* second are bytes.                                                       *)
EventAt(t, p) ==
  LET c == Header3(t, p)
      m == TimeOf(t, p)
      fields == PropertyFields(t, p)
  IN  [offset_start |-> OffsetOf(p[1]), offset_end |-> OffsetOf(p[2] + 1),
       count_lines |-> 1 + Cardinality({i \in p[1] .. p[2] : t[i] = NewLine}),
       minute  |-> NumberEnding(t)[m[1] - 1] % 256,
       second  |-> NumberEnding(t)[m[2] - 1] % 256,
       msecond |-> NumberEnding(t)[m[3] - 1],
       name    |-> SubSeq(t, c[1] + 1, c[2] - 1),
       t_connect_id |-> Numeral(LastValue(t, fields, KeyName["t_connect_id"], Seq(Char))),
       kept |-> KeptOf(t, fields)]

(* Where a row says that its event lies.                                   *)
Place(e) == <<PositionOf(e.offset_start), PositionOf(e.offset_end) - 1>>

(* After every chunk the rows are, in order, the complete events of the    *)
(* bytes read, each with the values of its own properties, whatever the    *)
(* size of the chunks and wherever a chunk ends; and when the file is read *)
(* they are all of the text's.                                             *)
RowsAreTheEvents ==
  pc \in {"read", "done"} =>
    /\ {Place(rows[k]) : k \in DOMAIN rows} = {p \in CompleteEvents(text) : p[2] + 1 <= pos}
    /\ \A j, k \in DOMAIN rows : j < k => Place(rows[j])[2] < Place(rows[k])[1]
    /\ \A k \in DOMAIN rows :
         Acceptable(text, Place(rows[k])) => rows[k] = EventAt(text, Place(rows[k]))
    /\ pc = "done" /\ bom => \A p \in CompleteEvents(text) : p[2] + 1 <= pos

BlankLine(i) == text[i] = NewLine /\ (i = 1 \/ text[i - 1] = NewLine)

(* The parser stops the program only inside an event that is not what the  *)
(* platform writes, behind the last complete event or at an empty line.    *)
RefusesOnlyMalformed ==
  pc = "terminated" =>
    \/ \E p \in CompleteEvents(text) : ch \in p[1] .. p[2] + 1 /\ ~Acceptable(text, p)
    \/ \A p \in CompleteEvents(text) : ch > p[2] + 1
    \/ BlankLine(ch)

(* The loop that reads up to the last byte of a chunk leaves the buffer    *)
(* only when an empty line is all the chunk holds.                         *)
OverrunOnlyAtEmptyLine == pc = "overrun" => pos = end /\ BlankLine(end)

(* A file may be opened while the platform writes it: however much of the  *)
(* text is there when Read looks, it does not stop the program as long as  *)
(* the whole text will be well formed.                                     *)
CutTextIsRead ==
  pc \in {"terminated", "overrun"} =>
    \A whole \in Texts : IsPrefix(text, whole) => ~WellFormed(whole)

(* Every file is read to its end, or the program stops: no state of the    *)
(* automaton that consumes nothing is called for ever.                     *)
ParseEnds == <>(pc \in {"done", "overrun", "terminated"})

=============================================================================
