---------------------------- MODULE ParserProofs ----------------------------
(***************************************************************************)
(* Theorems of Parser, for any text, any size of the reader's buffer and   *)
(* any names of the kept properties.                                       *)
(*                                                                         *)
(* From the invariant ParserInv: the automaton is well typed, the offset   *)
(* it counts is the position it reads at, every event it takes lies        *)
(* between two line breaks, and the lines it counts are those of the       *)
(* event's bytes.                                                          *)
(*                                                                         *)
(* From the invariant ReadingInv, over what LogText says of the text: the  *)
(* events taken are those of the lines left, the line under way holds no   *)
(* break yet, and in an acceptable event the automaton is in the function  *)
(* and has kept the values that the bytes before ch stand for.  It is said *)
(* of every text that the file's text begins, so that it also tells what   *)
(* happens to a file that is still being written.                          *)
(***************************************************************************)
EXTENDS Parser, DataInduction, FiniteSetTheorems, SequenceTheorems, TLAPS

(* The types of bytes.                                                     *)
Types == {"Digit", "Colon", "Dot", "Minus", "Comma", "CommaInQ", "Equal", "Quote",
          "NewLine", "NewLineInQ", "Char"}

(* The types of the bytes the proof tells apart.                           *)
LEMMA TypeOfByte ==
  ASSUME NEW c, NEW q
  PROVE  /\ TypeChar(c, q) \in Types
         /\ TypeChar(c, q) = "Digit" => c \in Digit
         /\ TypeChar(c, q) = "Colon" => c = ":"
         /\ TypeChar(c, q) = "Dot" => c = "."
         /\ TypeChar(c, q) = "NewLine" => c = NewLine /\ q = << >>
         /\ c = NewLine => TypeChar(c, q) = IF q = << >> THEN "NewLine" ELSE "NewLineInQ"
         /\ q # << >> => TypeChar(c, q) # "Comma"
BY DEF TypeChar, Types, NewLine, QuoteMarks, Digit

(* What the transition table says of a function by the byte it waits for.  *)
LEMMA TableFacts ==
  ASSUME NEW f \in States, NEW t \in Types
  PROVE  /\ TransitionTable(f, t) \in States
         /\ t = "NewLine" => TransitionTable(f, t) \in {"EndValue", "EndEvent", "Start", "Error"}
         /\ t = "NewLineInQ" => TransitionTable(f, t) \in {"Mvalue", "Error"}
         /\ TransitionTable(f, t) \in {"EndEvent", "Start"} => t = "NewLine"
         /\ TransitionTable(f, t) = "Minute" => t = "Digit"
         /\ TransitionTable(f, t) = "Second" => t \in {"Digit", "Colon"}
         /\ TransitionTable(f, t) = "Msecond" => t \in {"Digit", "Dot"}
         /\ TransitionTable(f, t) = "Start" <=> f = "EndEvent" /\ t = "NewLine"
         /\ f = "Mvalue" /\ t \notin {"Comma", "NewLine"} => TransitionTable(f, t) = "Mvalue"
BY DEF TransitionTable, HeaderTable, PropertyTable, States, Types

(* The numbers of an event.                                                *)
LEMMA EventFields ==
  ASSUME NEW e \in EventData
  PROVE  /\ e.minute \in Nat /\ e.second \in Nat /\ e.msecond \in Nat
         /\ e.offset_start \in Nat /\ e.offset_end \in Nat /\ e.count_lines \in Nat
<1>1. e.minute \in 0 .. 255 /\ e.second \in 0 .. 255
  BY Zenon DEF EventData
<1>2. /\ e.msecond \in Nat /\ e.offset_start \in Nat /\ e.offset_end \in Nat
      /\ e.count_lines \in Nat
  BY Zenon DEF EventData
<1>. QED BY <1>1, <1>2

(* The value of a digit.                                                   *)
LEMMA DigitType ==
  ASSUME NEW c \in Digit
  PROVE  DigitValue(c) \in 0 .. 9
<1>. DEFINE D == <<"0", "1", "2", "3", "4", "5", "6", "7", "8", "9">>
<1>1. \E n \in 0 .. 9 : D[n + 1] = c
  <2>1. /\ D[0 + 1] = "0" /\ D[1 + 1] = "1" /\ D[2 + 1] = "2" /\ D[3 + 1] = "3"
        /\ D[4 + 1] = "4" /\ D[5 + 1] = "5" /\ D[6 + 1] = "6" /\ D[7 + 1] = "7"
        /\ D[8 + 1] = "8" /\ D[9 + 1] = "9"
    OBVIOUS
  <2>. HIDE DEF D
  <2>. QED BY <2>1 DEF Digit
<1>. QED BY <1>1 DEF DigitValue

(* What stoll reads is a piece of the value.                               *)
LEMMA NumeralType ==
  ASSUME NEW v \in Seq(Char)
  PROVE  Numeral(v) \in Seq(Char)
<1>. DEFINE sign == IF v # << >> /\ v[1] = "-" THEN 1 ELSE 0
            Stop(n) == n < Len(v) => v[n + 1] \notin Digit
            last == CHOOSE n \in sign .. Len(v) :
                      /\ \A i \in sign + 1 .. n : v[i] \in Digit
                      /\ n < Len(v) => v[n + 1] \notin Digit
<1>1. Len(v) \in Nat /\ sign \in 0 .. Len(v)
  BY LenProperties, EmptySeq
<1>2. PICK n \in {m \in sign .. Len(v) : Stop(m)} :
            \A m \in {k \in sign .. Len(v) : Stop(k)} : n <= m
  <2>1. {m \in sign .. Len(v) : Stop(m)} \in SUBSET Nat
    BY <1>1
  <2>2. Len(v) \in {m \in sign .. Len(v) : Stop(m)}
    BY <1>1
  <2>. QED BY <2>1, <2>2, LeastElement
<1>3. \A i \in sign + 1 .. n : v[i] \in Digit
  <2>. TAKE i \in sign + 1 .. n
  <2>1. i - 1 \in sign .. Len(v) /\ ~(n <= i - 1)
    BY <1>1, <1>2
  <2>2. ~Stop(i - 1)
    BY <1>2, <2>1
  <2>. QED BY <1>1, <2>1, <2>2
<1>4. last \in 0 .. Len(v)
  BY <1>1, <1>2, <1>3
<1>5. Numeral(v) = IF last = sign THEN << >> ELSE SubSeq(v, 1, last)
  BY DEF Numeral
<1>. HIDE DEF last
<1>6. \A i \in 1 .. last : v[i] \in Char
  BY <1>1, <1>4, ElementOfSeq
<1>7. SubSeq(v, 1, last) \in Seq(Char)
  BY <1>4, <1>6, SubSeqProperties
<1>. QED BY <1>5, <1>7, EmptySeq

-----------------------------------------------------------------------------
(* The line breaks from i to j, in quotations or not.                      *)
LinesIn(i, j) == {k \in i .. j : text[k] = NewLine}

(* A byte behind a line break.                                             *)
LineStart(i) == i = 1 \/ text[i - 1] = NewLine

(* One more byte is one more line when it is a line break.                 *)
LEMMA OneMoreByte ==
  ASSUME NEW i \in Nat, NEW j \in Nat, i <= j + 1
  PROVE  /\ Cardinality(LinesIn(i, j)) \in Nat
         /\ i <= j => Cardinality(LinesIn(i, j)) =
              Cardinality(LinesIn(i, j - 1)) + IF text[j] = NewLine THEN 1 ELSE 0
         /\ i = j + 1 => Cardinality(LinesIn(i, j)) = 0
<1>1. \A k, l \in Int : IsFiniteSet(LinesIn(k, l)) /\ Cardinality(LinesIn(k, l)) \in Nat
  <2>. TAKE k \in Int, l \in Int
  <2>1. IsFiniteSet(k .. l)
    BY FS_Interval
  <2>2. LinesIn(k, l) \subseteq k .. l
    BY DEF LinesIn
  <2>. QED BY <2>1, <2>2, FS_Subset, FS_CardinalityType
<1>2. ASSUME i <= j, text[j] = NewLine
      PROVE  Cardinality(LinesIn(i, j)) = Cardinality(LinesIn(i, j - 1)) + 1
  <2>1. LinesIn(i, j) = LinesIn(i, j - 1) \cup {j} /\ j \notin LinesIn(i, j - 1)
    BY <1>2 DEF LinesIn
  <2>2. IsFiniteSet(LinesIn(i, j - 1))
    BY <1>1
  <2>. QED BY <2>1, <2>2, FS_AddElement
<1>3. ASSUME i <= j, text[j] # NewLine
      PROVE  LinesIn(i, j) = LinesIn(i, j - 1)
  BY <1>3 DEF LinesIn
<1>4. ASSUME i = j + 1
      PROVE  Cardinality(LinesIn(i, j)) = 0
  <2>1. LinesIn(i, j) = {}
    BY <1>4 DEF LinesIn
  <2>. QED BY <2>1, FS_EmptySet
<1>5. Cardinality(LinesIn(i, j - 1)) \in Nat /\ Cardinality(LinesIn(i, j)) \in Nat
  BY <1>1
<1>. HIDE DEF LinesIn
<1>. QED BY <1>2, <1>3, <1>4, <1>5

-----------------------------------------------------------------------------
(* The inductive invariant                                                 *)

(* Where Parse is in its chunk, and the chunk in the text.                 *)
ChunkInText ==
  /\ offset = OffsetOf(ch)
  /\ pc = "open" => ch = 1 /\ pos = 0
  /\ pc \in {"read", "rows"} => ch = pos + 1
  /\ pc \in {"first", "middle", "last"} => end = pos /\ ch <= end
  /\ pc = "middle" => ch < end
  /\ pc = "last" => ch = end

(* The function to call next was chosen by the byte it is called on.       *)
ChosenByByte ==
  pc \in {"middle", "last"} =>
    /\ text[ch] = NewLine => fcn \in {"EndValue", "EndEvent", "Start", "Mvalue", "Error"}
    /\ fcn \in {"EndEvent", "Start"} => text[ch] = NewLine
    /\ fcn = "Minute" => text[ch] \in Digit
    /\ fcn = "Second" => text[ch] \in Digit \cup {":"}
    /\ fcn = "Msecond" => text[ch] \in Digit \cup {"."}

(* Quotations are open only in Mvalue.                                     *)
QuotationsInMvalue == quotes # << >> => fcn = "Mvalue"

(* What is known of an event e of which the bytes before i are read.       *)
Begun(e, i) ==
  /\ PositionOf(e.offset_start) \in 1 .. i
  /\ LineStart(PositionOf(e.offset_start))
  /\ e.count_lines = 1 + Cardinality(LinesIn(PositionOf(e.offset_start), i - 1))

(* The event under way, and the place where the next one will begin.       *)
EventUnderWay ==
  /\ fcn # "Start" => Begun(ev, ch)
  /\ fcn = "Start" /\ pc \in {"open", "read", "first", "rows"} => LineStart(ch)

(* An event taken: it begins behind a line break and ends before one.      *)
Whole(e) ==
  /\ PositionOf(e.offset_end) \in DOMAIN text
  /\ text[PositionOf(e.offset_end)] = NewLine
  /\ Begun(e, PositionOf(e.offset_end))

(* The invariant of the places and the lines.                              *)
ParserInv ==
  /\ TypeOK
  /\ ChunkInText
  /\ ChosenByByte
  /\ QuotationsInMvalue
  /\ EventUnderWay
  /\ \A e \in Range(rows) \cup Range(events) : Whole(e)

-----------------------------------------------------------------------------
(* A call reads one byte of the text, and consumes one or none.            *)
LEMMA CallFacts ==
  ASSUME ParserInv, pc \in {"middle", "last"}, Call
  PROVE  /\ ch \in DOMAIN text /\ text[ch] \in Char
         /\ fcn # "Error"
         /\ ch' = IF fcn \in {"EndValue", "EndEvent"} THEN ch ELSE ch + 1
         /\ offset' = OffsetOf(ch')
         /\ ~(fcn = "Mvalue") => quotes = << >> /\ quotes' = << >>
         /\ fcn # "EndEvent" => events' = events
<1>1. text \in Seq(Char) /\ ch \in 1 .. Len(text)
  BY ParserAssumption DEF ParserInv, TypeOK, ChunkInText
<1>2. ch \in DOMAIN text /\ text[ch] \in Char
  BY <1>1, ElementOfSeq, LenProperties
<1>3. fcn = "Start" => text[ch] = NewLine
  BY DEF ParserInv, ChosenByByte
<1>4. offset = OffsetOf(ch)
  BY DEF ParserInv, ChunkInText
<1>5. ~(fcn = "Mvalue") => quotes = << >>
  BY DEF ParserInv, QuotationsInMvalue
<1>. USE <1>1, <1>2, <1>3, <1>4, <1>5 DEF OffsetOf, BomSize, Consume
<1>6. CASE fcn = "Start" /\ Start
  BY <1>6 DEF Start
<1>7. CASE fcn \in {"Minute", "Second", "Msecond", "Duration", "Event", "Level"} /\ \E e : Header(e)
  BY <1>7 DEF Header
<1>8. CASE fcn = "Key" /\ Key
  <2>1. ch' = ch + 1 /\ offset' = offset + 1 /\ quotes' = quotes /\ events' = events
    BY <1>8 DEF Key
  <2>. QED BY <1>8, <2>1
<1>9. CASE fcn = "Value" /\ Value
  BY <1>9 DEF Value
<1>10. CASE fcn = "EndValue" /\ EndValue
  BY <1>10 DEF EndValue
<1>11. CASE fcn = "EndEvent" /\ EndEvent
  BY <1>11 DEF EndEvent
<1>12. CASE fcn = "Mvalue" /\ Mvalue
  BY <1>12 DEF Mvalue
<1>. QED BY <1>6, <1>7, <1>8, <1>9, <1>10, <1>11, <1>12
         DEF Call, Minute, Second, Msecond, Duration, Event, Level

(* The next function suits the byte it will be called on.                  *)
LEMMA TransitFacts ==
  ASSUME ParserInv, Transit, quotes' # << >> => fcn = "Mvalue",
         NEW c, c = text[ch']
  PROVE  /\ fcn' \in States
         /\ c = NewLine => fcn' \in {"EndValue", "EndEvent", "Start", "Mvalue", "Error"}
         /\ fcn' \in {"EndEvent", "Start"} => c = NewLine
         /\ fcn' = "Minute" => c \in Digit
         /\ fcn' = "Second" => c \in Digit \cup {":"}
         /\ fcn' = "Msecond" => c \in Digit \cup {"."}
         /\ quotes' # << >> => fcn' = "Mvalue"
         /\ fcn' = "Start" => fcn = "EndEvent"
         /\ fcn = "EndEvent" /\ c = NewLine => fcn' = "Start"
<1>. DEFINE type == TypeChar(c, quotes')
<1>1. fcn \in States
  BY DEF ParserInv, TypeOK
<1>2. fcn' = TransitionTable(fcn, type)
  BY DEF Transit
<1>3. /\ type \in Types
      /\ type = "Digit" => c \in Digit
      /\ type = "Colon" => c = ":"
      /\ type = "Dot" => c = "."
      /\ type = "NewLine" => c = NewLine /\ quotes' = << >>
      /\ c = NewLine => type = IF quotes' = << >> THEN "NewLine" ELSE "NewLineInQ"
      /\ quotes' # << >> => type # "Comma"
  BY TypeOfByte
<1>. HIDE DEF type
<1>. QED BY <1>1, <1>2, <1>3, TableFacts

(* A call keeps the parser's data well typed.                              *)
LEMMA CallTypes ==
  ASSUME ParserInv, pc \in {"middle", "last"}, Call
  PROVE  /\ ev' \in EventData
         /\ keyTemp' \in Seq(Char) /\ valueTemp' \in Seq(Char)
         /\ quotes' \in Seq(QuoteMarks)
         /\ events' \in Seq(EventData)
<1>. DEFINE c == text[ch]
<1>1. /\ ev \in EventData
      /\ keyTemp \in Seq(Char) /\ valueTemp \in Seq(Char)
      /\ quotes \in Seq(QuoteMarks)
      /\ events \in Seq(EventData)
      /\ offset \in Nat /\ ch \in Nat
  BY DEF ParserInv, TypeOK
<1>2. c \in Char /\ offset' \in Nat
  BY <1>1, CallFacts DEF OffsetOf, BomSize
<1>3. fcn = "Minute" => c \in Digit
  BY DEF ParserInv, ChosenByByte
<1>4. fcn = "Second" => c \in Digit \cup {":"}
  BY DEF ParserInv, ChosenByByte
<1>5. fcn = "Msecond" => c \in Digit \cup {"."}
  BY DEF ParserInv, ChosenByByte
<1>6. \A skipped : \A s \in Seq(Char) : Pushed(s, skipped) \in Seq(Char)
  BY <1>2, AppendProperties DEF Pushed
<1>7. NewEventData \in EventData
  <2>1. << >> \in Seq(Char)
    BY EmptySeq
  <2>. QED BY <2>1 DEF NewEventData, EventData
<1>8. ASSUME NEW n \in Nat, NEW skipped, c \in Digit \/ c \in skipped
      PROVE  Counted(n, skipped) \in Nat
  <2>1. c \notin skipped => DigitValue(c) \in Nat
    BY <1>8, DigitType
  <2>. QED BY <2>1 DEF Counted
<1>. HIDE DEF c
<1>9. CASE fcn = "Start" /\ Start
  BY <1>1, <1>2, <1>7, <1>9 DEF Start, EventData
<1>10. CASE fcn = "Minute" /\ Minute
  <2>1. Counted(ev.minute, {}) % 256 \in 0 .. 255
    <3>1. ev.minute \in Nat
      BY <1>1, EventFields
    <3>2. Counted(ev.minute, {}) \in Nat
      BY <1>3, <1>8, <1>10, <3>1
    <3>. QED BY <3>2
  <2>2. PICK m \in 0 .. 255 : ev' = [ev EXCEPT !.minute = m]
    BY <1>10, <2>1 DEF Minute, Header
  <2>3. ev' \in EventData
    BY <1>1, <2>2 DEF EventData
  <2>. QED BY <1>1, <1>10, <2>3 DEF Minute, Header
<1>11. CASE fcn = "Second" /\ Second
  <2>1. Counted(ev.second, {":"}) % 256 \in 0 .. 255
    <3>1. ev.second \in Nat
      BY <1>1, EventFields
    <3>2. Counted(ev.second, {":"}) \in Nat
      BY <1>4, <1>8, <1>11, <3>1
    <3>. QED BY <3>2
  <2>2. PICK m \in 0 .. 255 : ev' = [ev EXCEPT !.second = m]
    BY <1>11, <2>1 DEF Second, Header
  <2>3. ev' \in EventData
    BY <1>1, <2>2 DEF EventData
  <2>. QED BY <1>1, <1>11, <2>3 DEF Second, Header
<1>12. CASE fcn = "Msecond" /\ Msecond
  <2>1. Counted(ev.msecond, {"."}) \in Nat
    BY <1>1, <1>5, <1>8, <1>12 DEF EventData
  <2>. QED BY <1>1, <1>12, <2>1 DEF Msecond, Header, EventData
<1>13. CASE fcn = "Event" /\ Event
  <2>1. Pushed(ev.name, {Comma}) \in Seq(Char)
    BY <1>1, <1>6 DEF EventData
  <2>. QED BY <1>1, <1>13, <2>1 DEF Event, Header, EventData
<1>14. CASE fcn \in {"Duration", "Level"} /\ Header(ev)
  BY <1>1, <1>14 DEF Header
<1>15. CASE fcn = "Key" /\ Key
  BY <1>1, <1>6, <1>15 DEF Key
<1>16. CASE fcn = "Value" /\ Value
  BY <1>1, <1>6, <1>16 DEF Value
<1>17. CASE fcn = "EndValue" /\ EndValue
  <2>1. Numeral(valueTemp) \in Seq(Char)
    BY <1>1, NumeralType
  <2>. DEFINE id == IF keyTemp = KeyName["t_connect_id"] THEN Numeral(valueTemp)
                    ELSE ev.t_connect_id
              kept == [k \in Columns |->
                IF keyTemp = KeyName[k] /\ (k # "wait_connections" \/ valueTemp # << >>)
                THEN valueTemp ELSE ev.kept[k]]
  <2>2. id \in Seq(Char) /\ kept \in [Columns -> Seq(Char)]
    BY <1>1, <2>1 DEF EventData
  <2>3. ev' = [ev EXCEPT !.t_connect_id = id, !.kept = kept]
    BY <1>17 DEF EndValue
  <2>. HIDE DEF id, kept
  <2>4. ev' \in EventData
    BY <1>1, <2>2, <2>3 DEF EventData
  <2>. QED BY <1>1, <1>17, <2>4, EmptySeq DEF EndValue
<1>18. CASE fcn = "EndEvent" /\ EndEvent
  <2>1. [ev EXCEPT !.offset_end = offset] \in EventData
    BY <1>1 DEF EventData
  <2>. QED BY <1>1, <1>7, <1>18, <2>1, AppendProperties DEF EndEvent
<1>19. CASE fcn = "Mvalue" /\ Mvalue
  <2>1. quotes' \in Seq(QuoteMarks)
    <3>1. Len(quotes) \in Nat
      BY <1>1, LenProperties
    <3>2. quotes # << >> => SubSeq(quotes, 1, Len(quotes) - 1) \in Seq(QuoteMarks)
      BY <1>1, <3>1, SubSeqProperties, EmptySeq
    <3>3. c \in QuoteMarks => <<c>> \in Seq(QuoteMarks)
      OBVIOUS
    <3>. QED BY <1>1, <1>19, <3>2, <3>3 DEF Mvalue, c
  <2>2. ev' \in EventData
    <3>1. ev.count_lines + 1 \in Nat
      BY <1>1, EventFields
    <3>2. [ev EXCEPT !.count_lines = ev.count_lines + 1] \in EventData
      BY <1>1, <3>1 DEF EventData
    <3>. QED BY <1>1, <1>19, <3>2 DEF Mvalue
  <2>3. valueTemp' \in Seq(Char)
    BY <1>1, <1>2, <1>19, AppendProperties DEF Mvalue, c
  <2>. QED BY <1>1, <1>19, <2>1, <2>2, <2>3 DEF Mvalue
<1>. QED BY <1>9, <1>10, <1>11, <1>12, <1>13, <1>14, <1>15, <1>16, <1>17, <1>18, <1>19
         DEF Call, Duration, Level

(* The event under way after a call that neither fails nor ends it.        *)
LEMMA CallBegun ==
  ASSUME ParserInv, pc \in {"middle", "last"}, Call, fcn # "EndEvent"
  PROVE  Begun(ev', ch')
<1>. DEFINE s == PositionOf(ev.offset_start)
            newLine == IF text[ch] = NewLine THEN 1 ELSE 0
<1>1. /\ ev \in EventData /\ offset \in Nat /\ ch \in Nat \ {0}
      /\ fcn \in States
  BY DEF ParserInv, TypeOK
<1>2. /\ fcn # "Error"
      /\ ch' = IF fcn \in {"EndValue", "EndEvent"} THEN ch ELSE ch + 1
      /\ offset' = OffsetOf(ch')
  BY CallFacts
<1>3. /\ text[ch] = NewLine => fcn \in {"EndValue", "Start", "Mvalue"}
      /\ fcn = "Start" => text[ch] = NewLine
  BY <1>2 DEF ParserInv, ChosenByByte
<1>4. CASE fcn = "Start"
  <2>1. ch' = ch + 1 /\ ev' = [NewEventData EXCEPT !.offset_start = offset']
    BY <1>4, <1>2 DEF Call, Start
  <2>2. ev'.offset_start = OffsetOf(ch + 1) /\ ev'.count_lines = 1
    BY <2>1, <1>2 DEF NewEventData
  <2>3. PositionOf(ev'.offset_start) = ch + 1
    BY <1>1, <2>2 DEF PositionOf, OffsetOf, BomSize
  <2>4. Cardinality(LinesIn(ch + 1, ch)) = 0
    BY <1>1, OneMoreByte
  <2>5. LineStart(ch + 1)
    BY <1>1, <1>3, <1>4 DEF LineStart
  <2>. QED BY <1>1, <2>1, <2>2, <2>3, <2>4, <2>5 DEF Begun
<1>5. CASE fcn # "Start"
  <2>1. /\ s \in 1 .. ch /\ LineStart(s)
        /\ ev.count_lines = 1 + Cardinality(LinesIn(s, ch - 1))
    BY <1>5 DEF ParserInv, EventUnderWay, Begun
  <2>2. ev'.offset_start = ev.offset_start
    BY <1>1, <1>2, <1>5
       DEF Call, Header, Minute, Second, Msecond, Duration, Event, Level, Key, Value,
           EndValue, Mvalue, EventData
  <2>3. ev'.count_lines = ev.count_lines + (IF fcn = "Mvalue" THEN newLine ELSE 0)
    <3>1. ev.count_lines \in Nat
      BY <1>1, EventFields
    <3>2. CASE fcn = "Mvalue"
      BY <1>1, <3>1, <3>2 DEF Call, Mvalue, EventData
    <3>3. CASE fcn # "Mvalue"
      <4>1. ev'.count_lines = ev.count_lines
        BY <1>1, <1>2, <1>5, <3>3
           DEF Call, Header, Minute, Second, Msecond, Duration, Event, Level, Key, Value,
               EndValue, EventData
      <4>. QED BY <3>1, <3>3, <4>1
    <3>. QED BY <3>2, <3>3
  <2>4. PositionOf(ev'.offset_start) = s
    BY <2>2 DEF PositionOf
  <2>5. CASE fcn = "EndValue"
    BY <1>1, <1>2, <2>1, <2>3, <2>4, <2>5 DEF Begun, EventData
  <2>6. CASE fcn # "EndValue"
    <3>1. ch' = ch + 1
      BY <1>2, <2>6
    <3>2. ev'.count_lines = ev.count_lines + newLine
      BY <1>1, <1>3, <1>5, <2>3, <2>6 DEF EventData
    <3>3. /\ Cardinality(LinesIn(s, ch)) = Cardinality(LinesIn(s, ch - 1)) + newLine
          /\ Cardinality(LinesIn(s, ch - 1)) \in Nat
      BY <1>1, <2>1, OneMoreByte
    <3>4. ev'.count_lines = 1 + Cardinality(LinesIn(s, ch))
      BY <2>1, <3>2, <3>3
    <3>. QED BY <1>1, <2>1, <2>4, <3>1, <3>4 DEF Begun
  <2>. QED BY <2>5, <2>6
<1>. QED BY <1>4, <1>5

(* An event that a call ends is whole.                                     *)
LEMMA CallWhole ==
  ASSUME ParserInv, pc \in {"middle", "last"}, Call
  PROVE  \A e \in Range(events') : Whole(e)
<1>1. /\ ev \in EventData /\ offset \in Nat /\ ch \in Nat \ {0}
      /\ events \in Seq(EventData)
      /\ \A e \in Range(events) : Whole(e)
  BY DEF ParserInv, TypeOK
<1>2. CASE fcn # "EndEvent"
  BY <1>1, <1>2, CallFacts
<1>3. CASE fcn = "EndEvent"
  <2>. DEFINE new == [ev EXCEPT !.offset_end = offset]
  <2>1. events' = Append(events, new)
    BY <1>3 DEF Call, EndEvent
  <2>2. /\ ch \in DOMAIN text /\ offset = OffsetOf(ch) /\ text[ch] = NewLine
    BY <1>3, CallFacts DEF ParserInv, ChosenByByte, ChunkInText
  <2>3. /\ new.offset_end = offset /\ new.offset_start = ev.offset_start
        /\ new.count_lines = ev.count_lines /\ new \in EventData
    BY <1>1 DEF EventData
  <2>4. Begun(ev, ch)
    BY <1>3 DEF ParserInv, EventUnderWay
  <2>5. PositionOf(new.offset_end) = ch
    BY <1>1, <2>2, <2>3 DEF PositionOf, OffsetOf, BomSize
  <2>. HIDE DEF new
  <2>6. Begun(new, ch)
    BY <2>3, <2>4 DEF Begun
  <2>7. Whole(new)
    BY <2>2, <2>5, <2>6 DEF Whole
  <2>8. \A e \in Range(events') : e \in Range(events) \/ e = new
    <3>1. \A i \in DOMAIN events' :
            events'[i] = new \/ (i \in DOMAIN events /\ events'[i] = events[i])
      BY <1>1, <2>1, <2>3, AppendProperties, LenProperties
    <3>. QED BY <3>1 DEF Range
  <2>. QED BY <1>1, <2>7, <2>8
<1>. QED BY <1>2, <1>3

-----------------------------------------------------------------------------
(* The theorems                                                            *)

(* A file that is not opened yet satisfies it.                             *)
LEMMA InitInv == Init => ParserInv
<1>. SUFFICES ASSUME Init PROVE ParserInv
  OBVIOUS
<1>. USE DEF Init
<1>1. text \in Seq(Char)
  BY ParserAssumption
<1>2. << >> \in Seq(Char) /\ << >> \in Seq(EventData) /\ << >> \in Seq(QuoteMarks)
  BY EmptySeq
<1>3. ev \in EventData
  BY <1>2 DEF NewEventData, EventData
<1>4. TypeOK
  BY <1>1, <1>2, <1>3, LenProperties DEF TypeOK, States, BomSize
<1>5. ChunkInText /\ ChosenByByte /\ QuotationsInMvalue /\ EventUnderWay
  BY DEF ChunkInText, ChosenByByte, QuotationsInMvalue, EventUnderWay, OffsetOf, BomSize,
         LineStart
<1>6. \A e \in Range(rows) \cup Range(events) : Whole(e)
  BY DEF Range
<1>. QED BY <1>4, <1>5, <1>6 DEF ParserInv

(* A call, the transition after it and the rest of its step keep the       *)
(* invariant.                                                              *)
LEMMA CallInv ==
  ASSUME ParserInv, pc \in {"middle", "last"}, Call,
         UNCHANGED <<fileVars, pos, end, rows>>,
         \/ Transit /\ ch' <= end /\ pc' = (IF ch' = end THEN "last" ELSE "middle")
         \/ pc' = "rows" /\ UNCHANGED fcn /\ ch' = end + 1
  PROVE  ParserInv'
<1>1. /\ ch \in DOMAIN text /\ fcn # "Error"
      /\ ch' = IF fcn \in {"EndValue", "EndEvent"} THEN ch ELSE ch + 1
      /\ offset' = OffsetOf(ch')
      /\ ~(fcn = "Mvalue") => quotes' = << >>
  BY CallFacts
<1>2. /\ ev' \in EventData
      /\ keyTemp' \in Seq(Char) /\ valueTemp' \in Seq(Char)
      /\ quotes' \in Seq(QuoteMarks) /\ events' \in Seq(EventData)
  BY CallTypes
<1>3. \A e \in Range(rows') \cup Range(events') : Whole(e)'
  BY CallWhole DEF ParserInv, fileVars, Whole, Begun, LineStart, LinesIn
<1>4. /\ text' = text /\ bom' = bom /\ sizeBuffer' = sizeBuffer
      /\ pos' = pos /\ end' = end /\ rows' = rows
  BY DEF fileVars
<1>5. /\ TypeOK /\ ChunkInText /\ ChosenByByte /\ ch \in Nat \ {0} /\ Len(text) \in Nat
      /\ end \in 0 .. Len(text) /\ pos = end /\ ch <= end /\ text \in Seq(Char)
  BY ParserAssumption, LenProperties DEF ParserInv, TypeOK, ChunkInText
<1>6. ch' \in Nat \ {0} /\ offset' \in Nat
  BY <1>1, <1>5 DEF OffsetOf, BomSize
<1>7. fcn # "EndEvent" => Begun(ev, ch)'
  <2>1. ASSUME fcn # "EndEvent" PROVE Begun(ev', ch')
    BY <2>1, CallBegun
  <2>. QED BY <1>4, <2>1 DEF Begun, LineStart, LinesIn
<1>8. CASE Transit /\ ch' <= end /\ pc' = (IF ch' = end THEN "last" ELSE "middle")
  <2>1. /\ fcn' \in States
        /\ text[ch'] = NewLine => fcn' \in {"EndValue", "EndEvent", "Start", "Mvalue", "Error"}
        /\ fcn' \in {"EndEvent", "Start"} => text[ch'] = NewLine
        /\ fcn' = "Minute" => text[ch'] \in Digit
        /\ fcn' = "Second" => text[ch'] \in Digit \cup {":"}
        /\ fcn' = "Msecond" => text[ch'] \in Digit \cup {"."}
        /\ quotes' # << >> => fcn' = "Mvalue"
        /\ fcn' = "Start" => fcn = "EndEvent"
        /\ fcn = "EndEvent" /\ text[ch'] = NewLine => fcn' = "Start"
    BY <1>1, <1>8, TransitFacts
  <2>2. TypeOK'
    BY <1>2, <1>4, <1>5, <1>6, <1>8, <2>1 DEF TypeOK, ParserInv
  <2>3. ChunkInText'
    BY <1>1, <1>4, <1>5, <1>6, <1>8 DEF ChunkInText, OffsetOf, BomSize
  <2>4. ChosenByByte' /\ QuotationsInMvalue'
    BY <1>4, <2>1 DEF ChosenByByte, QuotationsInMvalue
  <2>5. fcn = "EndEvent" => fcn' = "Start"
    BY <1>1, <1>5, <2>1 DEF ChosenByByte
  <2>6. EventUnderWay'
    BY <1>7, <1>8, <2>1, <2>5 DEF EventUnderWay
  <2>. QED BY <1>3, <1>4, <2>2, <2>3, <2>4, <2>6 DEF ParserInv
<1>9. CASE pc' = "rows" /\ UNCHANGED fcn /\ ch' = end + 1
  <2>1. ch' = ch + 1 /\ fcn # "EndEvent"
    BY <1>1, <1>5, <1>9
  <2>2. TypeOK'
    BY <1>2, <1>4, <1>5, <1>6, <1>9 DEF TypeOK, ParserInv
  <2>3. ChunkInText' /\ ChosenByByte'
    BY <1>1, <1>4, <1>5, <1>9 DEF ChunkInText, ChosenByByte
  <2>4. QuotationsInMvalue'
    BY <1>1, <1>9 DEF QuotationsInMvalue
  <2>5. fcn = "Start" => LineStart(ch)'
    BY <1>4, <1>5, <2>1 DEF LineStart, ChosenByByte
  <2>6. EventUnderWay'
    BY <1>7, <1>9, <2>1, <2>5 DEF EventUnderWay
  <2>. QED BY <1>3, <1>4, <2>2, <2>3, <2>4, <2>6 DEF ParserInv
<1>. QED BY <1>8, <1>9

(* The beginning of a chunk keeps it: Start when an event begins, and the  *)
(* transition on the first byte.                                           *)
LEMMA FirstByteInv ==
  ASSUME ParserInv, FirstByte
  PROVE  ParserInv'
<1>1. /\ text' = text /\ bom' = bom /\ sizeBuffer' = sizeBuffer
      /\ pos' = pos /\ end' = end /\ rows' = rows
  BY DEF FirstByte, fileVars
<1>2. /\ pc = "first" /\ TypeOK /\ offset = OffsetOf(ch) /\ QuotationsInMvalue
      /\ ch \in Nat \ {0} /\ Len(text) \in Nat /\ offset \in Nat
      /\ end \in 0 .. Len(text) /\ pos = end /\ ch <= end
  BY ParserAssumption, LenProperties DEF ParserInv, TypeOK, ChunkInText, FirstByte
<1>3. /\ ch' \in {ch, ch + 1} /\ offset' = OffsetOf(ch') /\ offset' \in Nat
      /\ keyTemp' = keyTemp /\ valueTemp' = valueTemp /\ quotes' = quotes
      /\ events' = events
  BY <1>2 DEF FirstByte, Start, Consume, OffsetOf, BomSize, eventVars
<1>4. \A e \in Range(rows') \cup Range(events') : Whole(e)'
  BY <1>1, <1>3 DEF ParserInv, Whole, Begun, LineStart, LinesIn
<1>5. ev' \in EventData
  <2>1. CASE fcn = "Start"
    <3>1. NewEventData \in EventData
      BY EmptySeq DEF NewEventData, EventData
    <3>2. ev' = [NewEventData EXCEPT !.offset_start = offset']
      BY <2>1 DEF FirstByte, Start
    <3>. QED BY <1>3, <3>1, <3>2 DEF EventData
  <2>2. CASE fcn # "Start"
    BY <1>2, <2>2 DEF FirstByte, eventVars, TypeOK
  <2>. QED BY <2>1, <2>2
<1>6. Begun(ev, ch)'
  <2>1. CASE fcn = "Start"
    <3>1. ev' = [NewEventData EXCEPT !.offset_start = offset']
      BY <2>1 DEF FirstByte, Start
    <3>2. ev'.offset_start = OffsetOf(ch') /\ ev'.count_lines = 1
      BY <1>3, <3>1 DEF NewEventData
    <3>. DEFINE next == ch'
    <3>6. next \in Nat /\ next - 1 \in Nat /\ next = (next - 1) + 1
      <4>1. ch \in Nat \ {0} /\ next \in {ch, ch + 1}
        BY <1>2, <1>3
      <4>. HIDE DEF next
      <4>. QED BY <4>1
    <3>3. PositionOf(ev'.offset_start) = next
      <4>1. ev'.offset_start = OffsetOf(next)
        BY <3>2
      <4>. HIDE DEF next
      <4>. QED BY <3>6, <4>1 DEF PositionOf, OffsetOf, BomSize
    <3>4. Cardinality(LinesIn(next, next - 1)) = 0
      <4>. HIDE DEF next
      <4>. QED BY <3>6, OneMoreByte
    <3>5. LineStart(ch')
      <4>1. CASE ch' = ch
        BY <1>2, <2>1, <4>1 DEF ParserInv, EventUnderWay
      <4>2. CASE ch' # ch
        BY <1>2, <1>3, <2>1, <4>2 DEF FirstByte, Start, LineStart
      <4>. QED BY <4>1, <4>2
    <3>. QED BY <1>1, <1>2, <1>3, <3>2, <3>3, <3>4, <3>5 DEF Begun, LineStart, LinesIn
  <2>2. CASE fcn # "Start"
    <3>1. ev' = ev /\ ch' = ch
      BY <2>2 DEF FirstByte, eventVars
    <3>2. Begun(ev, ch)
      BY <2>2 DEF ParserInv, EventUnderWay
    <3>. QED BY <1>1, <3>1, <3>2 DEF Begun, LineStart, LinesIn
  <2>. QED BY <2>1, <2>2
<1>7. CASE pc' = "overrun" /\ fcn' = fcn
  <2>1. TypeOK'
    BY <1>1, <1>2, <1>3, <1>5, <1>7 DEF TypeOK
  <2>2. ChunkInText' /\ ChosenByByte' /\ QuotationsInMvalue' /\ EventUnderWay'
    BY <1>2, <1>3, <1>6, <1>7
       DEF ChunkInText, ChosenByByte, QuotationsInMvalue, EventUnderWay
  <2>. QED BY <1>4, <2>1, <2>2 DEF ParserInv
<1>8. CASE ch' <= end /\ pc' = (IF ch' = end THEN "last" ELSE "middle") /\ Transit
  <2>1. /\ fcn' \in States
        /\ text[ch'] = NewLine => fcn' \in {"EndValue", "EndEvent", "Start", "Mvalue", "Error"}
        /\ fcn' \in {"EndEvent", "Start"} => text[ch'] = NewLine
        /\ fcn' = "Minute" => text[ch'] \in Digit
        /\ fcn' = "Second" => text[ch'] \in Digit \cup {":"}
        /\ fcn' = "Msecond" => text[ch'] \in Digit \cup {"."}
        /\ quotes' # << >> => fcn' = "Mvalue"
    BY <1>2, <1>3, <1>8, TransitFacts DEF QuotationsInMvalue
  <2>2. TypeOK'
    BY <1>1, <1>2, <1>3, <1>5, <1>8, <2>1 DEF TypeOK
  <2>3. ChunkInText' /\ ChosenByByte' /\ QuotationsInMvalue' /\ EventUnderWay'
    BY <1>1, <1>2, <1>3, <1>6, <1>8, <2>1
       DEF ChunkInText, ChosenByByte, QuotationsInMvalue, EventUnderWay
  <2>. QED BY <1>4, <2>2, <2>3 DEF ParserInv
<1>. QED BY <1>2, <1>3, <1>7, <1>8 DEF FirstByte

(* Every step of the loop over the chunks keeps it.                        *)
LEMMA StepInv == ParserInv /\ [Next]_vars => ParserInv'
<1>. SUFFICES ASSUME ParserInv, [Next]_vars PROVE ParserInv'
  OBVIOUS
<1>. USE DEF ParserInv
<1>1. CASE Open
  <2>1. TypeOK'
    BY <1>1 DEF Open, TypeOK, fileVars, eventVars
  <2>2. ChunkInText' /\ ChosenByByte' /\ QuotationsInMvalue' /\ EventUnderWay'
    BY <1>1 DEF Open, fileVars, eventVars, ChunkInText, ChosenByByte, QuotationsInMvalue,
                EventUnderWay, Begun, LineStart, LinesIn
  <2>3. \A e \in Range(rows') \cup Range(events') : Whole(e)'
    BY <1>1 DEF Open, fileVars, eventVars, Whole, Begun, LineStart, LinesIn
  <2>. QED BY <2>1, <2>2, <2>3
<1>2. CASE NextChunk
  <2>1. /\ text' = text /\ bom' = bom /\ sizeBuffer' = sizeBuffer /\ rows' = rows
        /\ ev' = ev /\ keyTemp' = keyTemp /\ valueTemp' = valueTemp /\ quotes' = quotes
        /\ events' = events /\ offset' = offset /\ fcn' = fcn
    BY <1>2 DEF NextChunk, fileVars, eventVars
  <2>2. /\ Len(text) \in Nat /\ pos \in 0 .. Len(text) /\ sizeBuffer \in Nat \ {0}
        /\ ch = pos + 1 /\ end \in 0 .. Len(text)
    BY <1>2, ParserAssumption, LenProperties DEF TypeOK, NextChunk, ChunkInText
  <2>3. \/ pc' = "done" /\ pos' = pos /\ ch' = ch /\ end' = end
        \/ pc' = "first" /\ pos' \in pos + 1 .. Len(text) /\ ch' = ch /\ end' = pos'
    BY <1>2, <2>2 DEF NextChunk
  <2>4. TypeOK'
    BY <2>1, <2>2, <2>3 DEF TypeOK
  <2>5. ChunkInText' /\ ChosenByByte' /\ QuotationsInMvalue'
    BY <2>1, <2>2, <2>3 DEF ChunkInText, ChosenByByte, QuotationsInMvalue
  <2>6. EventUnderWay'
    BY <1>2, <2>1, <2>3 DEF NextChunk, EventUnderWay, Begun, LineStart, LinesIn
  <2>7. \A e \in Range(rows') \cup Range(events') : Whole(e)'
    BY <2>1 DEF Whole, Begun, LineStart, LinesIn
  <2>. QED BY <2>4, <2>5, <2>6, <2>7
<1>3. CASE FirstByte
  BY <1>3, FirstByteInv
<1>4. CASE MiddleBytes
  <2>1. ch' \in {ch, ch + 1}
    BY <1>4, CallFacts DEF MiddleBytes
  <2>2. ch < end /\ ch \in Nat /\ end \in Nat
    BY <1>4, LenProperties DEF MiddleBytes, ChunkInText, TypeOK
  <2>. QED BY <1>4, <2>1, <2>2, CallInv DEF MiddleBytes
<1>5. CASE LastByte
  <2>1. ch' \in {ch, ch + 1}
    BY <1>5, CallFacts DEF LastByte
  <2>2. ch = end /\ end \in Nat
    BY <1>5, LenProperties DEF LastByte, ChunkInText, TypeOK
  <2>3. ch' # end + 1 => ch' <= end /\ ch' = end
    BY <2>1, <2>2
  <2>. QED BY <1>5, <2>3, CallInv DEF LastByte
<1>6. CASE Throw
  <2>1. TypeOK'
    BY <1>6 DEF Throw, TypeOK, fileVars, eventVars
  <2>2. ChunkInText' /\ ChosenByByte' /\ QuotationsInMvalue' /\ EventUnderWay'
    BY <1>6 DEF Throw, fileVars, eventVars, ChunkInText, ChosenByByte, QuotationsInMvalue,
                EventUnderWay, Begun, LineStart, LinesIn
  <2>3. \A e \in Range(rows') \cup Range(events') : Whole(e)'
    BY <1>6 DEF Throw, fileVars, eventVars, Whole, Begun, LineStart, LinesIn
  <2>. QED BY <2>1, <2>2, <2>3
<1>7. CASE TakeEvents
  <2>1. rows \in Seq(EventData) /\ events \in Seq(EventData)
    BY DEF TypeOK
  <2>2. rows' = rows \o events /\ events' = << >>
    BY <1>7 DEF TakeEvents
  <2>3. rows' \in Seq(EventData) /\ events' \in Seq(EventData)
    BY <2>1, <2>2, ConcatProperties, EmptySeq
  <2>4. TypeOK'
    BY <1>7, <2>3 DEF TakeEvents, TypeOK, fileVars
  <2>5. ChunkInText' /\ ChosenByByte' /\ QuotationsInMvalue' /\ EventUnderWay'
    BY <1>7 DEF TakeEvents, fileVars, ChunkInText, ChosenByByte, QuotationsInMvalue,
                EventUnderWay, Begun, LineStart, LinesIn
  <2>6. \A e \in Range(rows') \cup Range(events') : e \in Range(rows) \cup Range(events)
    <3>1. \A i \in DOMAIN rows' : rows'[i] \in Range(rows) \cup Range(events)
      <4>. TAKE i \in DOMAIN rows'
      <4>1. /\ Len(rows) \in Nat /\ Len(events) \in Nat
            /\ DOMAIN rows = 1 .. Len(rows) /\ DOMAIN events = 1 .. Len(events)
            /\ i \in 1 .. Len(rows) + Len(events)
            /\ rows'[i] = IF i <= Len(rows) THEN rows[i] ELSE events[i - Len(rows)]
        BY <2>1, <2>2, LenProperties, ConcatProperties
      <4>2. CASE i <= Len(rows)
        BY <4>1, <4>2 DEF Range
      <4>3. CASE i > Len(rows)
        <5>1. i - Len(rows) \in DOMAIN events /\ rows'[i] = events[i - Len(rows)]
          BY <4>1, <4>3
        <5>. QED BY <5>1 DEF Range
      <4>. QED BY <4>1, <4>2, <4>3
    <3>. QED BY <2>2, <3>1 DEF Range
  <2>7. \A e \in Range(rows') \cup Range(events') : Whole(e)'
    BY <1>7, <2>6 DEF TakeEvents, fileVars, Whole, Begun, LineStart, LinesIn
  <2>. QED BY <2>4, <2>5, <2>7
<1>8. CASE UNCHANGED vars
  <2>1. TypeOK'
    BY <1>8 DEF vars, TypeOK, fileVars, eventVars
  <2>2. ChunkInText' /\ ChosenByByte' /\ QuotationsInMvalue' /\ EventUnderWay'
    BY <1>8 DEF vars, fileVars, eventVars, ChunkInText, ChosenByByte, QuotationsInMvalue,
                EventUnderWay, Begun, LineStart, LinesIn
  <2>3. \A e \in Range(rows') \cup Range(events') : Whole(e)'
    BY <1>8 DEF vars, fileVars, eventVars, Whole, Begun, LineStart, LinesIn
  <2>. QED BY <2>1, <2>2, <2>3
<1>. QED BY <1>1, <1>2, <1>3, <1>4, <1>5, <1>6, <1>7, <1>8 DEF Next, Step, Ended

(* The invariant of the reading of a file.                                 *)
LEMMA Invariant == Spec => []ParserInv
<1>1. Init => ParserInv
  BY InitInv
<1>2. ParserInv /\ [Next]_vars => ParserInv'
  BY StepInv
<1>. QED BY <1>1, <1>2, PTL DEF Spec

(* Every step of the parser keeps its data typed: the bytes of minute and  *)
(* second do not leave a byte, and a digit is read only where one stands.  *)
THEOREM ParserTyped == Spec => []TypeOK
<1>1. ParserInv => TypeOK
  BY DEF ParserInv
<1>. QED BY <1>1, Invariant, PTL

(* Whatever the chunks, the event a row names begins with the text or      *)
(* behind a line break and ends before a line break.                       *)
THEOREM EventsWhole == Spec => []EventsBetweenBreaks
<1>1. ParserInv => EventsBetweenBreaks
  <2>. SUFFICES ASSUME ParserInv, NEW e \in Range(rows) \cup Range(events)
                PROVE  Whole(e) => /\ PositionOf(e.offset_end) \in DOMAIN text
                                   /\ text[PositionOf(e.offset_end)] = NewLine
                                   /\ PositionOf(e.offset_start) \in 1 .. PositionOf(e.offset_end)
                                   /\ \/ PositionOf(e.offset_start) = 1
                                      \/ text[PositionOf(e.offset_start) - 1] = NewLine
    BY DEF ParserInv, EventsBetweenBreaks, Taken
  <2>. QED BY DEF Whole, Begun, LineStart
<1>. QED BY <1>1, Invariant, PTL

(* Whatever the chunks, an event counts the lines of its own bytes.        *)
THEOREM LinesCountedAlways == Spec => []LinesCounted
<1>1. ParserInv => LinesCounted
  BY DEF ParserInv, LinesCounted, Taken, Whole, Begun, LinesIn, Positions
<1>. QED BY <1>1, Invariant, PTL

(* Parse leaves its buffer only on a chunk that holds nothing but the      *)
(* line break of an empty line.                                            *)
THEOREM OverrunAtEmptyLine == Spec => []OverrunOnlyAtEmptyLine
<1>1. Init => OverrunOnlyAtEmptyLine
  BY DEF Init, OverrunOnlyAtEmptyLine
<1>2. ParserInv /\ OverrunOnlyAtEmptyLine /\ [Next]_vars => OverrunOnlyAtEmptyLine'
  <2>. SUFFICES ASSUME ParserInv, OverrunOnlyAtEmptyLine, [Next]_vars, pc' = "overrun"
                PROVE  pos' = end' /\ BlankLine(end)'
    BY DEF OverrunOnlyAtEmptyLine
  <2>1. CASE FirstByte
    <3>1. UNCHANGED <<text, pos, end>> /\ pc = "first"
      BY <2>1 DEF FirstByte, fileVars
    <3>2. end = pos /\ ch <= end /\ ch \in Nat /\ end \in Nat
      BY <3>1, LenProperties, ParserAssumption DEF ParserInv, ChunkInText, TypeOK
    <3>3. ch' > end
      BY <2>1, <3>1 DEF FirstByte
    <3>4. fcn = "Start" /\ text[ch] = NewLine /\ ch' = ch + 1
      BY <2>1, <3>2, <3>3 DEF FirstByte, Start, Consume
    <3>5. LineStart(ch)
      BY <3>1, <3>4 DEF ParserInv, EventUnderWay
    <3>6. ch = end
      BY <3>2, <3>3, <3>4
    <3>. QED BY <3>1, <3>2, <3>4, <3>5, <3>6 DEF BlankLine, LineStart
  <2>2. CASE Ended \/ UNCHANGED vars
    BY <2>2 DEF Ended, vars, fileVars, OverrunOnlyAtEmptyLine, BlankLine
  <2>3. CASE Open \/ NextChunk \/ MiddleBytes \/ LastByte \/ Throw \/ TakeEvents
    BY <2>3 DEF Open, NextChunk, MiddleBytes, LastByte, Throw, TakeEvents
  <2>. QED BY <2>1, <2>2, <2>3 DEF Next, Step
<1>. QED BY <1>1, <1>2, Invariant, PTL DEF Spec

-----------------------------------------------------------------------------
(* The recursions of LogText                                               *)

(* The quotation open before every byte of a text.                         *)
LEMMA QuotesOfText ==
  ASSUME NEW t \in Seq(Char)
  PROVE  /\ \A i \in 1 .. Len(t) + 1 : QuoteBefore(t)[i] \in QuoteMarks \cup {NoQuote}
         /\ QuoteBefore(t)[1] = NoQuote
         /\ \A i \in 1 .. Len(t) :
              QuoteBefore(t)[i + 1] = QuoteAfter(QuoteBefore(t)[i], t[i])
<1>. DEFINE n == Len(t) + 1
            V == QuoteMarks \cup {NoQuote}
            Solves(f) == f = [i \in 1 .. n |->
                                IF i = 1 THEN NoQuote ELSE QuoteAfter(f[i - 1], t[i - 1])]
            step == [x \in V \X Int |-> QuoteAfter(x[1], t[x[2] - 1])]
<1>1. n \in Nat /\ n = Len(t) + 1 /\ NoQuote \in V /\ Len(t) \in Nat
  BY LenProperties
<1>2. step \in [V \X Int -> V]
  BY DEF QuoteAfter
<1>3. PICK f \in [1 .. n -> V] : Recursion(f, 1, n, NoQuote, step)
  <2>1. 1 \in Int /\ n \in Int
    BY <1>1
  <2>. HIDE DEF step, n, V
  <2>. QED BY <1>1, <1>2, <2>1, RangeRecursion
<1>4. ASSUME NEW i \in 1 .. n
      PROVE  f[i] = IF i = 1 THEN NoQuote ELSE QuoteAfter(f[i - 1], t[i - 1])
  <2>1. CASE i = 1
    BY <1>3, <2>1 DEF Recursion
  <2>2. CASE i # 1
    <3>1. i - 1 \in 1 .. n /\ i \in Int
      BY <1>1, <2>2
    <3>2. f[i] = step[<<f[i - 1], i>>]
      <4>. HIDE DEF step, n
      <4>. QED BY <1>3, <2>2 DEF Recursion
    <3>3. <<f[i - 1], i>> \in V \X Int
      BY <1>3, <3>1
    <3>. QED BY <2>2, <3>2, <3>3
  <2>. QED BY <2>1, <2>2
<1>5. Solves(f)
  <2>. HIDE DEF V, step, n
  <2>. QED BY <1>3, <1>4
<1>6. Solves(QuoteBefore(t))
  <2>1. QuoteBefore(t) = CHOOSE g : Solves(g)
    BY DEF QuoteBefore
  <2>. HIDE DEF Solves
  <2>. QED BY <1>5, <2>1
<1>7. \A i \in 1 .. n : QuoteBefore(t)[i] =
        IF i = 1 THEN NoQuote ELSE QuoteAfter(QuoteBefore(t)[i - 1], t[i - 1])
  <2>. DEFINE g == QuoteBefore(t)
  <2>1. g = [i \in 1 .. n |-> IF i = 1 THEN NoQuote ELSE QuoteAfter(g[i - 1], t[i - 1])]
    BY <1>6
  <2>. HIDE DEF g, n
  <2>. QED BY <2>1 DEF g
<1>. HIDE DEF n
<1>8. QuoteBefore(t)[1] = NoQuote
  BY <1>1, <1>7
<1>9. ASSUME NEW i \in 1 .. Len(t)
      PROVE  QuoteBefore(t)[i + 1] = QuoteAfter(QuoteBefore(t)[i], t[i])
  <2>1. i + 1 \in 1 .. n /\ i + 1 # 1 /\ (i + 1) - 1 = i
    BY <1>1
  <2>. QED BY <1>7, <2>1
<1>10. 1 .. n \subseteq {i \in Int : QuoteBefore(t)[i] \in V}
  <2>. DEFINE T == {i \in Int : QuoteBefore(t)[i] \in V}
  <2>1. 1 \in T
    BY <1>8
  <2>2. \A i \in 1 .. n - 1 : i \in T => i + 1 \in T
    BY <1>1, <1>9 DEF QuoteAfter
  <2>3. 1 .. n \subseteq T
    <3>1. 1 \in Int /\ n \in Int
      BY <1>1
    <3>. HIDE DEF T
    <3>. QED BY <2>1, <2>2, <3>1, RangeInduction
  <2>. QED BY <2>3
<1>. QED BY <1>1, <1>8, <1>9, <1>10

(* The number of the digits that end at a byte.                            *)
LEMMA NumbersOfText ==
  ASSUME NEW t \in Seq(Char)
  PROVE  /\ \A i \in 0 .. Len(t) : NumberEnding(t)[i] \in Nat
         /\ NumberEnding(t)[0] = 0
         /\ \A i \in 1 .. Len(t) : NumberEnding(t)[i] =
              IF t[i] \notin Digit THEN 0 ELSE 10 * NumberEnding(t)[i - 1] + DigitValue(t[i])
<1>. DEFINE n == Len(t)
            More(v, i) == IF t[i] \notin Digit THEN 0 ELSE 10 * v + DigitValue(t[i])
            Solves(f) == f = [i \in 0 .. n |->
              IF i = 0 \/ t[i] \notin Digit THEN 0 ELSE 10 * f[i - 1] + DigitValue(t[i])]
            step == [x \in Nat \X Int |-> More(x[1], x[2])]
<1>1. n \in Nat /\ n = Len(t)
  BY LenProperties
<1>2. step \in [Nat \X Int -> Nat]
  <2>1. \A v \in Nat, i \in Int : More(v, i) \in Nat
    BY DigitType
  <2>. HIDE DEF More
  <2>. QED BY <2>1
<1>3. PICK f \in [0 .. n -> Nat] : Recursion(f, 0, n, 0, step)
  <2>1. 0 \in Int /\ 0 \in Nat /\ n \in Int
    BY <1>1
  <2>. HIDE DEF step, n
  <2>. QED BY <1>2, <2>1, RangeRecursion
<1>4. ASSUME NEW i \in 0 .. n
      PROVE  f[i] = IF i = 0 THEN 0 ELSE More(f[i - 1], i)
  <2>1. CASE i = 0
    BY <1>3, <2>1 DEF Recursion
  <2>2. CASE i # 0
    <3>1. i - 1 \in 0 .. n /\ i \in Int
      BY <1>1, <2>2
    <3>2. f[i] = step[<<f[i - 1], i>>]
      <4>. HIDE DEF step, n
      <4>. QED BY <1>3, <2>2 DEF Recursion
    <3>3. <<f[i - 1], i>> \in Nat \X Int
      BY <1>3, <3>1
    <3>. HIDE DEF More
    <3>. QED BY <2>2, <3>2, <3>3
  <2>. QED BY <2>1, <2>2
<1>5. Solves(f)
  <2>. HIDE DEF step, n
  <2>. QED BY <1>3, <1>4
<1>6. Solves(NumberEnding(t))
  <2>1. NumberEnding(t) = CHOOSE g : Solves(g)
    BY DEF NumberEnding
  <2>. HIDE DEF Solves
  <2>. QED BY <1>5, <2>1
<1>7. \A i \in 0 .. n : NumberEnding(t)[i] =
        IF i = 0 \/ t[i] \notin Digit THEN 0 ELSE 10 * NumberEnding(t)[i - 1] + DigitValue(t[i])
  <2>. DEFINE g == NumberEnding(t)
  <2>1. g = [i \in 0 .. n |->
              IF i = 0 \/ t[i] \notin Digit THEN 0 ELSE 10 * g[i - 1] + DigitValue(t[i])]
    BY <1>6
  <2>. HIDE DEF g, n
  <2>. QED BY <2>1 DEF g
<1>. HIDE DEF n, More
<1>8. NumberEnding(t)[0] = 0
  BY <1>1, <1>7
<1>9. ASSUME NEW i \in 1 .. Len(t)
      PROVE  NumberEnding(t)[i] =
               IF t[i] \notin Digit THEN 0 ELSE 10 * NumberEnding(t)[i - 1] + DigitValue(t[i])
  <2>1. i \in 0 .. n /\ i # 0
    BY <1>1
  <2>. QED BY <1>7, <2>1
<1>10. 0 .. n \subseteq {i \in Nat : NumberEnding(t)[i] \in Nat}
  <2>. DEFINE T == {i \in Nat : NumberEnding(t)[i] \in Nat}
  <2>1. 0 \in T
    BY <1>8
  <2>2. ASSUME NEW i \in 0 .. n - 1, i \in T
        PROVE  i + 1 \in T
    <3>1. /\ i + 1 \in 1 .. Len(t) /\ (i + 1) - 1 = i
          /\ NumberEnding(t)[i] \in Nat
      BY <1>1, <2>2
    <3>2. t[i + 1] \in Digit => DigitValue(t[i + 1]) \in Nat
      BY DigitType
    <3>3. NumberEnding(t)[i + 1] \in Nat
      BY <1>9, <3>1, <3>2
    <3>. QED BY <3>1, <3>3
  <2>3. 0 .. n \subseteq T
    <3>1. 0 \in Int /\ n \in Int
      BY <1>1
    <3>. HIDE DEF T
    <3>. QED BY <2>1, <2>2, <3>1, RangeInduction
  <2>. QED BY <2>3
<1>. QED BY <1>1, <1>8, <1>9, <1>10

(* The value of a property, up to every byte of the text.                  *)
LEMMA ValuesOfText ==
  ASSUME NEW t \in Seq(Char), NEW e \in 1 .. Len(t)
  PROVE  /\ \A i \in 0 .. Len(t) : ValueUpTo(t, e)[i] \in Seq(Char)
         /\ \A i \in 0 .. e : ValueUpTo(t, e)[i] = << >>
         /\ \A i \in e + 1 .. Len(t) : ValueUpTo(t, e)[i] =
              IF t[i] \in {"=", Return} /\ \A j \in e + 1 .. i : t[j] \notin QuoteMarks
              THEN ValueUpTo(t, e)[i - 1] ELSE Append(ValueUpTo(t, e)[i - 1], t[i])
<1>. DEFINE n == Len(t)
            V == Seq(Char)
            Dropped(i) == t[i] \in {"=", Return} /\ \A j \in e + 1 .. i : t[j] \notin QuoteMarks
            More(v, i) == IF i <= e \/ i \notin 1 .. n THEN << >>
                          ELSE IF Dropped(i) THEN v ELSE Append(v, t[i])
            Solves(f) == f = [i \in 0 .. n |->
              IF i <= e THEN << >>
              ELSE IF t[i] \in {"=", Return} /\ \A j \in e + 1 .. i : t[j] \notin QuoteMarks
              THEN f[i - 1] ELSE Append(f[i - 1], t[i])]
            step == [x \in V \X Int |-> More(x[1], x[2])]
<1>1. n \in Nat /\ n = Len(t) /\ << >> \in V /\ \A i \in 1 .. n : t[i] \in Char
  BY LenProperties, EmptySeq, ElementOfSeq
<1>2. step \in [V \X Int -> V]
  <2>1. \A v \in V, i \in Int : More(v, i) \in V
    <3>. HIDE DEF Dropped, n
    <3>. QED BY <1>1, AppendProperties
  <2>. HIDE DEF More, V
  <2>. QED BY <2>1
<1>3. PICK f \in [0 .. n -> V] : Recursion(f, 0, n, << >>, step)
  <2>1. 0 \in Int /\ n \in Int
    BY <1>1
  <2>. HIDE DEF step, n, V
  <2>. QED BY <1>1, <1>2, <2>1, RangeRecursion
<1>4. ASSUME NEW i \in 0 .. n
      PROVE  f[i] = IF i = 0 THEN << >> ELSE More(f[i - 1], i)
  <2>1. CASE i = 0
    BY <1>3, <2>1 DEF Recursion
  <2>2. CASE i # 0
    <3>1. i - 1 \in 0 .. n /\ i \in Int
      BY <1>1, <2>2
    <3>2. f[i] = step[<<f[i - 1], i>>]
      <4>. HIDE DEF step, n
      <4>. QED BY <1>3, <2>2 DEF Recursion
    <3>3. <<f[i - 1], i>> \in V \X Int
      BY <1>3, <3>1
    <3>. HIDE DEF More, V
    <3>. QED BY <2>2, <3>2, <3>3
  <2>. QED BY <2>1, <2>2
<1>5. Solves(f)
  <2>1. \A i \in 0 .. n : f[i] =
          IF i <= e THEN << >> ELSE IF Dropped(i) THEN f[i - 1] ELSE Append(f[i - 1], t[i])
    <3>. HIDE DEF Dropped
    <3>. QED BY <1>1, <1>4
  <2>. HIDE DEF step, n, V
  <2>. QED BY <1>3, <2>1
<1>6. Solves(ValueUpTo(t, e))
  <2>1. ValueUpTo(t, e) = CHOOSE g : Solves(g)
    BY DEF ValueUpTo
  <2>. HIDE DEF Solves
  <2>. QED BY <1>5, <2>1
<1>7. \A i \in 0 .. n : ValueUpTo(t, e)[i] =
        IF i <= e THEN << >>
        ELSE IF Dropped(i) THEN ValueUpTo(t, e)[i - 1] ELSE Append(ValueUpTo(t, e)[i - 1], t[i])
  <2>. DEFINE g == ValueUpTo(t, e)
  <2>1. g = [i \in 0 .. n |->
              IF i <= e THEN << >> ELSE IF Dropped(i) THEN g[i - 1] ELSE Append(g[i - 1], t[i])]
    BY <1>6
  <2>. HIDE DEF g, n, Dropped
  <2>. QED BY <2>1 DEF g
<1>8. \A i \in 0 .. e : ValueUpTo(t, e)[i] = << >>
  <2>. HIDE DEF Dropped
  <2>. QED BY <1>1, <1>7
<1>9. \A i \in e + 1 .. Len(t) : ValueUpTo(t, e)[i] =
        IF Dropped(i) THEN ValueUpTo(t, e)[i - 1] ELSE Append(ValueUpTo(t, e)[i - 1], t[i])
  <2>. HIDE DEF Dropped
  <2>. QED BY <1>1, <1>7
<1>10. 0 .. n \subseteq {i \in Nat : ValueUpTo(t, e)[i] \in V}
  <2>. DEFINE T == {i \in Nat : ValueUpTo(t, e)[i] \in V}
  <2>1. 0 \in T
    BY <1>1, <1>8
  <2>2. ASSUME NEW i \in 0 .. n - 1, i \in T
        PROVE  i + 1 \in T
    <3>1. i + 1 \in 1 .. n /\ (i + 1) - 1 = i /\ t[i + 1] \in Char /\ i + 1 \in Nat
      BY <1>1
    <3>. DEFINE before == ValueUpTo(t, e)[i]
                value  == ValueUpTo(t, e)[i + 1]
    <3>2. CASE i + 1 <= e
      <4>1. value = << >>
        BY <1>8, <3>1, <3>2
      <4>. HIDE DEF value, V
      <4>. QED BY <1>1, <3>1, <4>1 DEF value
    <3>3. CASE i + 1 > e
      <4>1. i + 1 \in e + 1 .. Len(t)
        BY <1>1, <3>1, <3>3
      <4>2. value = IF Dropped(i + 1) THEN before ELSE Append(before, t[i + 1])
        <5>. HIDE DEF Dropped
        <5>. QED BY <1>9, <3>1, <4>1
      <4>3. before \in Seq(Char)
        BY <2>2
      <4>4. value \in Seq(Char)
        <5>. HIDE DEF Dropped, value, before
        <5>. QED BY <3>1, <4>2, <4>3, AppendProperties
      <4>. QED BY <3>1, <4>4
    <3>. QED BY <3>1, <3>2, <3>3
  <2>3. 0 .. n \subseteq T
    <3>1. 0 \in Int /\ n \in Int
      BY <1>1
    <3>. HIDE DEF T, V
    <3>. QED BY <2>1, <2>2, <3>1, RangeInduction
  <2>. QED BY <2>3
<1>. QED BY <1>1, <1>8, <1>9, <1>10

-----------------------------------------------------------------------------
(* The stretches of a text                                                 *)

(* A line begins behind a break that ends one.                             *)
LineBegins(t, i) == i = 1 \/ i - 1 \in Breaks(t)

(* A stretch lies between two cuts and holds none.                         *)
LEMMA StretchFacts ==
  ASSUME NEW first \in Nat, NEW last \in Int, NEW cuts, cuts \subseteq first .. last,
         first <= last + 1, NEW s
  PROVE  s \in Stretches(first, last, cuts) <=>
           /\ s = <<s[1], s[2]>> /\ s[1] \in first .. last + 1 /\ s[2] \in first - 1 .. last
           /\ s[1] = first \/ s[1] - 1 \in cuts
           /\ s[2] = last \/ s[2] + 1 \in cuts
           /\ s[1] <= s[2] + 1
           /\ \A i \in s[1] .. s[2] : i \notin cuts
<1>. DEFINE starts == {first} \cup {i + 1 : i \in cuts}
            ends   == {last} \cup {i - 1 : i \in cuts}
<1>1. \A i : i \in starts <=> i \in first .. last + 1 /\ (i = first \/ i - 1 \in cuts)
  OBVIOUS
<1>2. \A i : i \in ends <=> i \in first - 1 .. last /\ (i = last \/ i + 1 \in cuts)
  OBVIOUS
<1>3. s \in Stretches(first, last, cuts) <=>
        s \in starts \X ends /\ s[1] <= s[2] + 1 /\ \A i \in s[1] .. s[2] : i \notin cuts
  BY DEF Stretches
<1>. HIDE DEF starts, ends
<1>4. s \in starts \X ends <=> s = <<s[1], s[2]>> /\ s[1] \in starts /\ s[2] \in ends
  OBVIOUS
<1>. QED BY <1>1, <1>2, <1>3, <1>4

(* Behind every cut, and at the beginning, a stretch begins.               *)
LEMMA StretchFrom ==
  ASSUME NEW first \in Nat, NEW last \in Int, NEW cuts \in SUBSET (first .. last),
         first <= last + 1, NEW a \in Int, a = first \/ a - 1 \in cuts
  PROVE  \E s \in Stretches(first, last, cuts) : s[1] = a
<1>. DEFINE T == {i \in cuts : i >= a}
<1>1. T \in SUBSET Nat /\ a \in first .. last + 1
  <2>1. \A i \in cuts : i \in Nat /\ i \in first .. last
    OBVIOUS
  <2>2. a \in first .. last + 1
    <3>1. a # first => a - 1 \in first .. last
      BY <2>1
    <3>. QED BY <3>1
  <2>. QED BY <2>1, <2>2
<1>2. CASE T = {}
  <2>1. <<a, last>> \in Stretches(first, last, cuts)
    BY <1>1, <1>2, StretchFacts
  <2>. QED BY <2>1
<1>3. CASE T # {}
  <2>1. PICK m \in T : \A i \in T : m <= i
    <3>. HIDE DEF T
    <3>. QED BY <1>1, <1>3, LeastElement
  <2>2. m \in cuts /\ m \in first .. last /\ a <= m /\ \A i \in a .. m - 1 : i \notin cuts
    BY <2>1
  <2>3. <<a, m - 1>> \in Stretches(first, last, cuts)
    <3>. DEFINE s == <<a, m - 1>>
    <3>1. /\ s[1] = a /\ s[2] = m - 1 /\ s[2] + 1 = m
          /\ s[1] \in first .. last + 1 /\ s[2] \in first - 1 .. last
          /\ s = <<s[1], s[2]>>
      BY <1>1, <2>2
    <3>. HIDE DEF s
    <3>2. s \in Stretches(first, last, cuts)
      BY <1>1, <2>2, <3>1, StretchFacts
    <3>. QED BY <3>2 DEF s
  <2>. QED BY <2>3
<1>. QED BY <1>2, <1>3

(* A byte that no quotation holds.                                         *)
LEMMA SeparatorFacts ==
  ASSUME NEW t \in Seq(Char), NEW c, NEW i
  PROVE  i \in Separators(t, c) <=>
           i \in 1 .. Len(t) /\ t[i] = c /\ QuoteBefore(t)[i] = NoQuote
BY LenProperties DEF Separators

(* A line of a text, and an event, which is a line that is not empty.      *)
LEMMA LineFacts ==
  ASSUME NEW t \in Seq(Char), NEW p
  PROVE  /\ p \in Lines(t) <=>
              /\ p = <<p[1], p[2]>> /\ p[1] \in 1 .. Len(t) /\ p[2] \in 0 .. Len(t) - 1
              /\ LineBegins(t, p[1])
              /\ p[2] + 1 \in Breaks(t)
              /\ p[1] <= p[2] + 1
              /\ \A i \in p[1] .. p[2] : i \notin Breaks(t)
         /\ p \in CompleteEvents(t) <=> p \in Lines(t) /\ p[1] <= p[2]
<1>1. Len(t) \in Nat /\ Breaks(t) \subseteq 1 .. Len(t)
  BY LenProperties, SeparatorFacts DEF Breaks
<1>2. p \in Stretches(1, Len(t), Breaks(t)) <=>
           /\ p = <<p[1], p[2]>> /\ p[1] \in 1 .. Len(t) + 1 /\ p[2] \in 1 - 1 .. Len(t)
           /\ p[1] = 1 \/ p[1] - 1 \in Breaks(t)
           /\ p[2] = Len(t) \/ p[2] + 1 \in Breaks(t)
           /\ p[1] <= p[2] + 1
           /\ \A i \in p[1] .. p[2] : i \notin Breaks(t)
  <2>1. 1 \in Nat /\ Len(t) \in Int /\ 1 <= Len(t) + 1
    BY <1>1
  <2>. QED BY <1>1, <2>1, StretchFacts
<1>3. p \in Lines(t) <=> p \in Stretches(1, Len(t), Breaks(t)) /\ p[2] + 1 \in Breaks(t)
  BY DEF Lines
<1>4. p \in CompleteEvents(t) <=> p \in Lines(t) /\ p[1] <= p[2]
  BY DEF CompleteEvents
<1>. QED BY <1>1, <1>2, <1>3, <1>4 DEF LineBegins

(* Two lines with a byte, or a line break, in common are one.              *)
LEMMA LinesApart ==
  ASSUME NEW t \in Seq(Char), NEW p \in Lines(t), NEW a \in Nat, LineBegins(t, a),
         NEW i \in p[1] .. p[2] + 1, a <= i, \A j \in a .. i - 1 : j \notin Breaks(t)
  PROVE  p[1] = a
<1>1. /\ p[1] \in Nat /\ p[2] \in Int /\ LineBegins(t, p[1]) /\ p[1] >= 1
      /\ \A j \in p[1] .. p[2] : j \notin Breaks(t)
  BY LineFacts
<1>2. ASSUME a < p[1] PROVE FALSE
  <2>1. p[1] - 1 \in a .. i - 1 /\ p[1] - 1 \notin Breaks(t)
    BY <1>1, <1>2
  <2>2. a = 0
    BY <1>1, <2>1 DEF LineBegins
  <2>3. a - 1 \in Breaks(t)
    BY <2>2 DEF LineBegins
  <2>. QED BY <2>2, <2>3, SeparatorFacts DEF Breaks
<1>3. ASSUME p[1] < a PROVE FALSE
  <2>1. a - 1 \in p[1] .. p[2]
    BY <1>1, <1>3
  <2>. QED BY <1>1, <2>1 DEF LineBegins
<1>. QED BY <1>1, <1>2, <1>3

-----------------------------------------------------------------------------
(* The fields of an event                                                  *)

(* A comma that ends a field.                                              *)
LEMMA CommaFacts ==
  ASSUME NEW t \in Seq(Char), NEW p, NEW i
  PROVE  i \in Commas(t, p) <=>
           i \in 1 .. Len(t) /\ i \in p[1] .. p[2] /\ t[i] = Comma /\ QuoteBefore(t)[i] = NoQuote
BY SeparatorFacts DEF Commas

(* The commas behind the time, the name and the level, and what stands     *)
(* between them.                                                           *)
LEMMA HeaderFacts ==
  ASSUME NEW t \in Seq(Char), NEW p \in CompleteEvents(t), IsEvent(t, p),
         NEW c, c = Header3(t, p), NEW m, m = TimeOf(t, p)
  PROVE  /\ c[1] \in Commas(t, p) /\ c[2] \in Commas(t, p) /\ c[3] \in Commas(t, p)
         /\ c[1] \in Nat /\ c[2] \in Nat /\ c[3] \in Nat
         /\ m[1] \in Nat /\ m[2] \in Nat /\ m[3] \in Nat
         /\ p[1] < m[1] /\ m[1] + 1 < m[2] /\ m[2] + 1 < m[3] /\ m[3] < c[1] - 1
         /\ c[1] + 1 < c[2] /\ c[2] + 1 < c[3] /\ c[3] <= p[2]
         /\ \A i \in Commas(t, p) : i \in {c[1], c[2]} \/ i >= c[3]
         /\ t[m[1]] = ":" /\ t[m[2]] = "." /\ t[m[3]] = "-"
         /\ \A i \in p[1] .. c[1] - 1 : i \in {m[1], m[2], m[3]} \/ t[i] \in Digit
         /\ \A i \in c[1] + 1 .. c[2] - 1 : t[i] \in Letter
         /\ \A i \in c[2] + 1 .. c[3] - 1 : t[i] \in Digit
<1>1. p[1] \in Nat /\ p[2] \in Nat
  BY LineFacts
<1>2. c \in HeaderCommas(t, p)
  BY DEF IsEvent, Header3
<1>3. /\ c[1] \in Commas(t, p) /\ c[2] \in Commas(t, p) /\ c[3] \in Commas(t, p)
      /\ \A i \in Commas(t, p) : i \in {c[1], c[2]} \/ i >= c[3]
  BY <1>2 DEF HeaderCommas
<1>4. /\ c[1] \in Nat /\ c[2] \in Nat /\ c[3] \in Nat /\ c[3] <= p[2]
  <2>1. \A i \in Commas(t, p) : i \in Nat /\ i <= p[2]
    BY <1>1 DEF Commas
  <2>. QED BY <1>3, <2>1
<1>5. m \in TimeMarks(t, p[1], c[1] - 1)
  BY DEF IsEvent, TimeOf
<1>6. /\ m[1] \in p[1] .. c[1] - 1 /\ m[2] \in p[1] .. c[1] - 1 /\ m[3] \in p[1] .. c[1] - 1
      /\ t[m[1]] = ":" /\ t[m[2]] = "." /\ t[m[3]] = "-"
      /\ p[1] < m[1] /\ m[1] + 1 < m[2] /\ m[2] + 1 < m[3] /\ m[3] < c[1] - 1
      /\ \A i \in p[1] .. c[1] - 1 : i \in {m[1], m[2], m[3]} \/ t[i] \in Digit
  BY <1>5 DEF TimeMarks
<1>7. /\ c[1] + 1 < c[2] /\ \A i \in c[1] + 1 .. c[2] - 1 : t[i] \in Letter
      /\ c[2] + 1 < c[3] /\ \A i \in c[2] + 1 .. c[3] - 1 : t[i] \in Digit
  BY DEF IsEvent
<1>. QED BY SMTT(30), <1>1, <1>3, <1>4, <1>6, <1>7

(* The fields behind the header are properties, divided by the commas.     *)
LEMMA FieldFacts ==
  ASSUME NEW t \in Seq(Char), NEW p \in CompleteEvents(t), IsEvent(t, p),
         NEW f \in PropertyFields(t, p), NEW e, e = EqualSign(t, f)
  PROVE  /\ f = <<f[1], f[2]>> /\ f[1] \in Nat /\ f[2] \in Nat /\ e \in Nat
         /\ Header3(t, p)[3] < f[1] /\ f[1] < e /\ e <= f[2] /\ f[2] <= p[2]
         /\ f[1] - 1 \in Commas(t, p)
         /\ f[2] = p[2] \/ f[2] + 1 \in Commas(t, p)
         /\ \A i \in f[1] .. f[2] : i \notin Commas(t, p)
         /\ t[e] = "="
         /\ \A i \in f[1] .. e - 1 : t[i] \in Letter \cup Digit \cup {":", ".", "-"}
<1>. DEFINE c == Header3(t, p)
            behind == c[3]
            cuts == {i \in Commas(t, p) : i > behind}
<1>1. p[1] \in Nat /\ p[2] \in Nat /\ behind \in Nat /\ behind <= p[2]
      /\ behind \in Commas(t, p)
  BY LineFacts, HeaderFacts
<1>2. /\ behind + 1 \in Nat /\ p[2] \in Int /\ behind + 1 <= p[2] + 1
      /\ cuts \subseteq behind + 1 .. p[2]
  <2>1. \A i \in Commas(t, p) : i \in Nat /\ i <= p[2]
    BY <1>1 DEF Commas
  <2>2. \A i \in cuts : i \in Int /\ i > behind /\ i <= p[2]
    BY <2>1
  <2>. HIDE DEF behind, cuts
  <2>. QED BY <1>1, <2>2
<1>3. f \in Stretches(behind + 1, p[2], cuts)
  BY DEF PropertyFields
<1>4. /\ f = <<f[1], f[2]>> /\ f[1] \in behind + 1 .. p[2] + 1
      /\ f[2] \in (behind + 1) - 1 .. p[2]
      /\ f[1] = behind + 1 \/ f[1] - 1 \in cuts
      /\ f[2] = p[2] \/ f[2] + 1 \in cuts
      /\ \A i \in f[1] .. f[2] : i \notin cuts
  <2>. HIDE DEF cuts, behind
  <2>. QED BY <1>2, <1>3, StretchFacts
<1>5. e \in EqualSigns(t, f)
  BY DEF IsEvent, EqualSign
<1>6. /\ e \in f[1] + 1 .. f[2] /\ t[e] = "="
      /\ \A i \in f[1] .. e - 1 : t[i] \in Letter \cup Digit \cup {":", ".", "-"}
  BY <1>5 DEF EqualSigns
<1>7. /\ f[1] - 1 \in Commas(t, p)
      /\ f[2] = p[2] \/ f[2] + 1 \in Commas(t, p)
      /\ \A i \in f[1] .. f[2] : i \notin Commas(t, p)
  BY <1>1, <1>4
<1>8. /\ f[1] \in Nat /\ f[2] \in Nat /\ behind < f[1]
  BY <1>1, <1>4
<1>. QED BY <1>4, <1>6, <1>7, <1>8

(* The first property and the one behind each comma.                       *)
LEMMA FieldFrom ==
  ASSUME NEW t \in Seq(Char), NEW p \in CompleteEvents(t), IsEvent(t, p),
         NEW i \in Commas(t, p), i >= Header3(t, p)[3]
  PROVE  \E f \in PropertyFields(t, p) : f[1] = i + 1
<1>. DEFINE c == Header3(t, p)
            behind == c[3]
            cuts == {j \in Commas(t, p) : j > behind}
<1>1. p[1] \in Nat /\ p[2] \in Nat /\ behind \in Nat /\ behind <= p[2] /\ i \in Nat
  <2>1. p[1] \in Nat /\ p[2] \in Nat /\ behind \in Nat /\ behind <= p[2]
    BY LineFacts, HeaderFacts
  <2>2. i \in p[1] .. p[2]
    BY DEF Commas
  <2>. QED BY <2>1, <2>2
<1>2. /\ behind + 1 \in Nat /\ p[2] \in Int /\ behind + 1 <= p[2] + 1
      /\ cuts \subseteq behind + 1 .. p[2]
      /\ i + 1 \in Int /\ (i + 1 = behind + 1 \/ (i + 1) - 1 \in cuts)
  <2>1. \A j \in Commas(t, p) : j \in Nat /\ j <= p[2]
    BY <1>1 DEF Commas
  <2>2. i >= behind
    OBVIOUS
  <2>3. \A j \in cuts : j \in Int /\ j > behind /\ j <= p[2]
    BY <2>1
  <2>4. i = behind \/ i \in cuts
    <3>. HIDE DEF behind
    <3>. QED BY <1>1, <2>2
  <2>5. i + 1 = behind + 1 \/ (i + 1) - 1 \in cuts
    <3>1. (i + 1) - 1 = i
      BY <1>1
    <3>. HIDE DEF cuts, behind
    <3>. QED BY <2>4, <3>1
  <2>. HIDE DEF behind, cuts
  <2>. QED BY <1>1, <2>3, <2>5
<1>3. \E f \in Stretches(behind + 1, p[2], cuts) : f[1] = i + 1
  <2>1. PICK u \in Nat : u = behind + 1
    BY <1>2
  <2>2. PICK v \in Int : v = p[2]
    BY <1>2
  <2>3. PICK C : C = cuts
    OBVIOUS
  <2>4. PICK a \in Int : a = i + 1
    BY <1>2
  <2>5. C \in SUBSET (u .. v) /\ u <= v + 1 /\ (a = u \/ a - 1 \in C)
    <3>. HIDE DEF cuts, behind
    <3>. QED BY <1>2, <2>1, <2>2, <2>3, <2>4
  <2>6. \E s \in Stretches(u, v, C) : s[1] = a
    BY SMTT(30), <2>1, <2>2, <2>4, <2>5, StretchFrom
  <2>. HIDE DEF cuts, behind
  <2>. QED BY <2>1, <2>2, <2>3, <2>4, <2>6
<1>. QED BY <1>3 DEF PropertyFields

(* Of two properties one ends before the other begins.                     *)
LEMMA FieldsApart ==
  ASSUME NEW t \in Seq(Char), NEW p \in CompleteEvents(t), IsEvent(t, p),
         NEW f \in PropertyFields(t, p), NEW g \in PropertyFields(t, p)
  PROVE  f = g \/ f[2] + 1 < g[1] \/ g[2] + 1 < f[1]
<1>1. ASSUME NEW h \in PropertyFields(t, p)
      PROVE  /\ h = <<h[1], h[2]>> /\ h[1] \in Nat /\ h[2] \in Nat /\ h[1] <= h[2]
             /\ h[1] - 1 \in Commas(t, p) /\ h[2] <= p[2]
             /\ h[2] = p[2] \/ h[2] + 1 \in Commas(t, p)
             /\ \A i \in h[1] .. h[2] : i \notin Commas(t, p)
  BY FieldFacts
<1>2. p[2] \in Nat
  BY LineFacts
<1>3. \A h, k \in PropertyFields(t, p) : h[1] < k[1] => h[2] + 1 < k[1]
  <2>. SUFFICES ASSUME NEW h \in PropertyFields(t, p), NEW k \in PropertyFields(t, p),
                       h[1] < k[1]
                PROVE  h[2] + 1 < k[1]
    OBVIOUS
  <2>1. k[1] - 1 \notin h[1] .. h[2]
    BY <1>1
  <2>. QED BY <1>1, <2>1
<1>4. ASSUME f[1] = g[1] PROVE f[2] = g[2]
  <2>1. ~(f[2] < g[2])
    BY SMTT(30), <1>1, <1>2, <1>4
  <2>2. ~(g[2] < f[2])
    BY <1>1, <1>2, <1>4
  <2>. QED BY <1>1, <2>1, <2>2
<1>. QED BY <1>1, <1>3, <1>4

-----------------------------------------------------------------------------
(* The values of an event                                                  *)

(* One more property, the last one so far: it decides when it has the name *)
(* and a value that is kept.                                               *)
LEMMA OneMoreField ==
  ASSUME NEW t, NEW D, NEW f, f[1] \in Int, \A g \in D : g[1] \in Int /\ g[1] < f[1],
         NEW name, NEW values
  PROVE  LastValue(t, D \cup {f}, name, values) =
           IF PropertyName(t, f) = name /\ PropertyValue(t, f) \in values
           THEN PropertyValue(t, f) ELSE LastValue(t, D, name, values)
<1>. DEFINE Called(E) == {g \in E : PropertyName(t, g) = name /\ PropertyValue(t, g) \in values}
            ValueOf(S) == IF S = {} THEN << >>
                          ELSE PropertyValue(t, CHOOSE h \in S : \A g \in S : g[1] <= h[1])
<1>1. \A E : LastValue(t, E, name, values) = ValueOf(Called(E))
  BY DEF LastValue
<1>2. CASE ~(PropertyName(t, f) = name /\ PropertyValue(t, f) \in values)
  <2>1. Called(D \cup {f}) = Called(D)
    BY <1>2
  <2>. HIDE DEF Called, ValueOf
  <2>. QED BY <1>1, <1>2, <2>1
<1>3. CASE PropertyName(t, f) = name /\ PropertyValue(t, f) \in values
  <2>. DEFINE S == Called(D \cup {f})
  <2>1. f \in S /\ \A g \in S : g = f \/ (g[1] \in Int /\ g[1] < f[1])
    BY <1>3
  <2>2. \A h \in S : (\A g \in S : g[1] <= h[1]) <=> h = f
    <3>. HIDE DEF S
    <3>. QED BY <2>1
  <2>3. (CHOOSE h \in S : \A g \in S : g[1] <= h[1]) = f
    <3>. HIDE DEF S
    <3>. QED BY <2>1, <2>2
  <2>4. ValueOf(S) = PropertyValue(t, f)
    <3>. HIDE DEF S
    <3>. QED BY <2>1, <2>3
  <2>. HIDE DEF Called, ValueOf
  <2>. QED BY <1>1, <1>3, <2>4
<1>. QED BY <1>2, <1>3

(* No property, no value.                                                  *)
LEMMA NoField ==
  ASSUME NEW t
  PROVE  /\ \A name, values : LastValue(t, {}, name, values) = << >>
         /\ Numeral(<< >>) = << >>
         /\ KeptOf(t, {}) = [k \in Columns |-> << >>]
<1>1. \A name, values : LastValue(t, {}, name, values) = << >>
  BY DEF LastValue
<1>2. Numeral(<< >>) = << >>
  <2>. DEFINE last == CHOOSE n \in 0 .. 0 :
                /\ \A i \in 0 + 1 .. n : << >>[i] \in Digit
                /\ n < 0 => << >>[n + 1] \notin Digit
  <2>1. last = 0
    OBVIOUS
  <2>. QED BY <2>1 DEF Numeral
<1>. QED BY <1>1, <1>2 DEF KeptOf

(* A byte more of a piece.                                                 *)
LEMMA OneMoreOfPiece ==
  ASSUME NEW t \in Seq(Char), NEW a \in 1 .. Len(t), NEW i \in a .. Len(t)
  PROVE  SubSeq(t, a, i) = Append(SubSeq(t, a, i - 1), t[i])
<1>1. Len(t) \in Nat /\ \A j \in 1 .. Len(t) : t[j] \in Char
  BY LenProperties, ElementOfSeq
<1>2. SubSeq(t, a, i) = SubSeq(t, a, i - 1) \o <<t[i]>>
  BY SubSeqRecursiveSecond
<1>3. SubSeq(t, a, i - 1) \in Seq(Char) /\ t[i] \in Char
  <2>1. \A j \in a .. i - 1 : t[j] \in Char
    BY <1>1
  <2>2. a \in Int /\ i - 1 \in Int
    OBVIOUS
  <2>. QED BY <1>1, <2>1, <2>2, SubSeqProperties
<1>. QED BY <1>2, <1>3, AppendIsConcat

-----------------------------------------------------------------------------
(* What the parser has read of an event p of t when function g is to be    *)
(* called on byte i, e is the event under way and key and value are its    *)
(* temporary members.                                                      *)

(* The position i, but not beyond j.                                       *)
UpTo(i, j) == IF i <= j THEN i ELSE j

(* Which function belongs to which byte of the header.                     *)
InHeader(t, p, g, i) ==
  LET c == Header3(t, p)
      m == TimeOf(t, p)
  IN  \/ p[1] <= i /\ i < m[1] /\ g = "Minute"
      \/ m[1] <= i /\ i < m[2] /\ g = "Second"
      \/ m[2] <= i /\ i < m[3] /\ g = "Msecond"
      \/ m[3] <= i /\ i < c[1] /\ g = "Duration"
      \/ c[1] <= i /\ i < c[2] /\ g = "Event"
      \/ c[2] <= i /\ i < c[3] /\ g = "Level"

(* A quotation has begun in the value of the property f.                   *)
Quoted(t, f, i) == \E j \in EqualSign(t, f) + 1 .. i : t[j] \in QuoteMarks

(* A property begins with the comma before it and ends with the byte       *)
(* behind it, which is not consumed.                                       *)
InProperty(t, f, g, i, key, value) ==
  LET e == EqualSign(t, f)
  IN  /\ \/ f[1] - 1 <= i /\ i < e /\ g = "Key"
         \/ e <= i /\ i <= f[2] /\ ~Quoted(t, f, i) /\ g = "Value"
         \/ e <= i /\ i <= f[2] /\ Quoted(t, f, i) /\ g = "Mvalue"
         \/ i = f[2] + 1 /\ g = "EndValue"
      /\ key = SubSeq(t, f[1], UpTo(i, e) - 1)
      /\ value = ValueUpTo(t, e)[i - 1]

(* The properties of p before f.                                           *)
FieldsBefore(t, p, f) == {h \in PropertyFields(t, p) : h[1] < f[1]}

(* The values of the bytes of the header before i.                         *)
HeaderValues(t, p, i, e) ==
  LET c == Header3(t, p)
      m == TimeOf(t, p)
  IN  /\ e.minute = NumberEnding(t)[UpTo(i, m[1]) - 1] % 256
      /\ e.second = IF i <= m[1] THEN 0 ELSE NumberEnding(t)[UpTo(i, m[2]) - 1] % 256
      /\ e.msecond = IF i <= m[2] THEN 0 ELSE NumberEnding(t)[UpTo(i, m[3]) - 1]
      /\ e.name = SubSeq(t, c[1] + 1, UpTo(i, c[2]) - 1)

(* The values of the properties that have ended.                           *)
FieldValues(t, fields, e) ==
  /\ e.t_connect_id = Numeral(LastValue(t, fields, KeyName["t_connect_id"], Seq(Char)))
  /\ e.kept = KeptOf(t, fields)

(* In the header, in a property, or behind the last one.                   *)
Reading(t, p, g, i, e, key, value) ==
  /\ HeaderValues(t, p, i, e)
  /\ \/ InHeader(t, p, g, i) /\ FieldValues(t, {}, e)
     \/ \E f \in PropertyFields(t, p) :
          InProperty(t, f, g, i, key, value) /\ FieldValues(t, FieldsBefore(t, p, f), e)
     \/ i = p[2] + 1 /\ g = "EndEvent" /\ FieldValues(t, PropertyFields(t, p), e)

-----------------------------------------------------------------------------
(* The function that the next byte chooses                                 *)

(* The type of every byte.                                                 *)
LEMMA ByteTypes ==
  ASSUME NEW c, NEW q
  PROVE  /\ c \in Digit => TypeChar(c, q) = "Digit"
         /\ c = ":" => TypeChar(c, q) = "Colon"
         /\ c = "." => TypeChar(c, q) = "Dot"
         /\ c = "-" => TypeChar(c, q) = "Minus"
         /\ c = "=" => TypeChar(c, q) = "Equal"
         /\ c = Comma => TypeChar(c, q) = IF q = << >> THEN "Comma" ELSE "CommaInQ"
         /\ c = NewLine => TypeChar(c, q) = IF q = << >> THEN "NewLine" ELSE "NewLineInQ"
         /\ c \in QuoteMarks <=> TypeChar(c, q) = "Quote"
         /\ TypeChar(c, q) = "Comma" => c = Comma /\ q = << >>
         /\ TypeChar(c, q) = "NewLine" => c = NewLine /\ q = << >>
         /\ c \in Letter => TypeChar(c, q) = "Char"
         /\ TypeChar(c, q) \in Types
<1>. USE DEF TypeChar, Digit, Letter, QuoteMarks, NewLine, Comma
<1>1. c \in Digit => TypeChar(c, q) = "Digit"
  BY Zenon
<1>2. /\ c = ":" => TypeChar(c, q) = "Colon"
      /\ c = "." => TypeChar(c, q) = "Dot"
      /\ c = "-" => TypeChar(c, q) = "Minus"
      /\ c = "=" => TypeChar(c, q) = "Equal"
  BY Zenon
<1>3. c = Comma => TypeChar(c, q) = IF q = << >> THEN "Comma" ELSE "CommaInQ"
  BY Zenon
<1>4. c = NewLine => TypeChar(c, q) = IF q = << >> THEN "NewLine" ELSE "NewLineInQ"
  BY Zenon
<1>5. c \in QuoteMarks => TypeChar(c, q) = "Quote"
  BY Zenon
<1>6. /\ TypeChar(c, q) = "Comma" => c = Comma /\ q = << >>
      /\ TypeChar(c, q) = "NewLine" => c = NewLine /\ q = << >>
      /\ TypeChar(c, q) = "Quote" => c \in QuoteMarks
  BY Zenon
<1>7. c \in Letter => TypeChar(c, q) = "Char"
  BY Zenon
<1>8. TypeChar(c, q) \in Types
  BY TypeOfByte
<1>. QED BY <1>1, <1>2, <1>3, <1>4, <1>5, <1>6, <1>7, <1>8

(* A digit more of a number that is kept in a byte.                        *)
LEMMA ModStep ==
  ASSUME NEW n \in Nat, NEW d \in Nat
  PROVE  (10 * (n % 256) + d) % 256 = (10 * n + d) % 256
OBVIOUS

(* Outside quotations an event holds no break, and its commas end fields.  *)
LEMMA SeparatorsInEvent ==
  ASSUME NEW t \in Seq(Char), NEW p \in CompleteEvents(t), NEW i \in p[1] .. p[2] + 1,
         QuoteBefore(t)[i] = NoQuote
  PROVE  /\ i \in 1 .. Len(t)
         /\ t[i] = NewLine <=> i = p[2] + 1
         /\ t[i] = Comma => i \in Commas(t, p)
<1>1. /\ p[1] \in 1 .. Len(t) /\ p[2] \in Nat /\ p[2] + 1 \in Breaks(t)
      /\ \A j \in p[1] .. p[2] : j \notin Breaks(t)
  BY LineFacts
<1>2. p[2] + 1 \in 1 .. Len(t) /\ t[p[2] + 1] = NewLine
  BY <1>1, SeparatorFacts DEF Breaks
<1>3. i \in 1 .. Len(t)
  BY <1>1, <1>2
<1>4. t[i] = NewLine => i \in Breaks(t)
  BY <1>3, SeparatorFacts DEF Breaks
<1>5. t[i] = NewLine <=> i = p[2] + 1
  BY <1>1, <1>2, <1>4
<1>6. ASSUME t[i] = Comma PROVE i \in Commas(t, p)
  <2>1. NewLine # Comma
    BY DEF NewLine, Comma
  <2>2. i \in p[1] .. p[2]
    BY <1>1, <1>5, <1>6, <2>1
  <2>. QED BY <1>3, <1>6, <2>2, CommaFacts
<1>. QED BY <1>3, <1>5, <1>6

(* Where the header of p has its marks and commas.                         *)
HeaderAt(t, p, p1, m1, m2, m3, c1, c2, c3, p2) ==
  /\ p[1] = p1 /\ p[2] = p2
  /\ TimeOf(t, p)[1] = m1 /\ TimeOf(t, p)[2] = m2 /\ TimeOf(t, p)[3] = m3
  /\ Header3(t, p)[1] = c1 /\ Header3(t, p)[2] = c2 /\ Header3(t, p)[3] = c3
  /\ 1 <= p1 /\ p1 < m1 /\ m1 + 1 < m2 /\ m2 + 1 < m3 /\ m3 + 1 < c1
  /\ c1 + 1 < c2 /\ c2 + 1 < c3 /\ c3 <= p2 /\ p2 < Len(t)
  /\ t[m1] = ":" /\ t[m2] = "." /\ t[m3] = "-" /\ t[c1] = Comma
  /\ {c1, c2, c3} \subseteq Commas(t, p)
  /\ \A j \in p1 .. c1 - 1 : j \in {m1, m2, m3} \/ t[j] \in Digit
  /\ \A j \in c1 + 1 .. c2 - 1 : t[j] \in Letter
  /\ \A j \in c2 + 1 .. c3 - 1 : t[j] \in Digit

(* The places of the marks and the commas of the header, as numbers.       *)
LEMMA HeaderPlaces ==
  ASSUME NEW t \in Seq(Char), NEW p \in CompleteEvents(t), IsEvent(t, p)
  PROVE  \E p1, m1, m2, m3, c1, c2, c3, p2 \in Nat :
           HeaderAt(t, p, p1, m1, m2, m3, c1, c2, c3, p2)
<1>. DEFINE c == Header3(t, p)
            m == TimeOf(t, p)
<1>1. /\ c[1] \in Commas(t, p) /\ c[2] \in Commas(t, p) /\ c[3] \in Commas(t, p)
      /\ c[1] \in Nat /\ c[2] \in Nat /\ c[3] \in Nat
      /\ m[1] \in Nat /\ m[2] \in Nat /\ m[3] \in Nat
      /\ p[1] < m[1] /\ m[1] + 1 < m[2] /\ m[2] + 1 < m[3] /\ m[3] < c[1] - 1
      /\ c[1] + 1 < c[2] /\ c[2] + 1 < c[3] /\ c[3] <= p[2]
      /\ t[m[1]] = ":" /\ t[m[2]] = "." /\ t[m[3]] = "-"
      /\ \A j \in p[1] .. c[1] - 1 : j \in {m[1], m[2], m[3]} \/ t[j] \in Digit
      /\ \A j \in c[1] + 1 .. c[2] - 1 : t[j] \in Letter
      /\ \A j \in c[2] + 1 .. c[3] - 1 : t[j] \in Digit
  BY HeaderFacts
<1>2. p[1] \in Nat /\ p[2] \in Nat /\ 1 <= p[1] /\ p[2] < Len(t)
  <2>1. p[1] \in 1 .. Len(t) /\ p[2] \in 0 .. Len(t) - 1 /\ p[1] <= p[2] /\ Len(t) \in Nat
    BY LineFacts, LenProperties
  <2>. QED BY <2>1
<1>3. t[c[1]] = Comma
  BY <1>1, CommaFacts
<1>4. m[3] + 1 < c[1]
  <2>. HIDE DEF c, m
  <2>. QED BY <1>1
<1>5. HeaderAt(t, p, p[1], m[1], m[2], m[3], c[1], c[2], c[3], p[2])
  BY <1>1, <1>2, <1>3, <1>4 DEF HeaderAt
<1>. HIDE DEF c, m
<1>. USE <1>1, <1>2
<1>. WITNESS p[1] \in Nat, m[1] \in Nat, m[2] \in Nat, m[3] \in Nat,
             c[1] \in Nat, c[2] \in Nat, c[3] \in Nat, p[2] \in Nat
<1>. QED BY <1>5

(* The types of the bytes of a header.                                     *)
HeaderTypes(type, i, m1, m2, m3, c1, c2, c3) ==
  /\ i < m1 => type = "Digit"
  /\ i = m1 => type = "Colon"
  /\ m1 < i /\ i < m2 => type = "Digit"
  /\ i = m2 => type = "Dot"
  /\ m2 < i /\ i < m3 => type = "Digit"
  /\ i = m3 => type = "Minus"
  /\ m3 < i /\ i < c1 => type = "Digit"
  /\ i \in {c1, c2, c3} => type = "Comma"
  /\ c1 < i /\ i < c2 => type = "Char"
  /\ c2 < i /\ i < c3 => type = "Digit"

(* In the header of an event every byte has its function.                  *)
LEMMA HeaderNext ==
  ASSUME NEW t \in Seq(Char), NEW p \in CompleteEvents(t),
         NEW p1 \in Nat, NEW m1 \in Nat, NEW m2 \in Nat, NEW m3 \in Nat,
         NEW c1 \in Nat, NEW c2 \in Nat, NEW c3 \in Nat, NEW p2 \in Nat,
         HeaderAt(t, p, p1, m1, m2, m3, c1, c2, c3, p2),
         NEW i \in p1 .. c3, NEW q, q = << >> <=> QuoteBefore(t)[i] = NoQuote
  PROVE  HeaderTypes(TypeChar(t[i], q), i, m1, m2, m3, c1, c2, c3)
<1>. DEFINE type == TypeChar(t[i], q)
<1>1. /\ p1 < m1 /\ m1 + 1 < m2 /\ m2 + 1 < m3 /\ m3 + 1 < c1 /\ c1 + 1 < c2 /\ c2 + 1 < c3
      /\ t[m1] = ":" /\ t[m2] = "." /\ t[m3] = "-"
      /\ {c1, c2, c3} \subseteq Commas(t, p)
      /\ \A j \in p1 .. c1 - 1 : j \in {m1, m2, m3} \/ t[j] \in Digit
      /\ \A j \in c1 + 1 .. c2 - 1 : t[j] \in Letter
      /\ \A j \in c2 + 1 .. c3 - 1 : t[j] \in Digit
  BY DEF HeaderAt
<1>2. i \in {c1, c2, c3} => type = "Comma"
  <2>1. i \in {c1, c2, c3} => i \in Commas(t, p)
    BY <1>1
  <2>2. i \in Commas(t, p) => t[i] = Comma /\ q = << >>
    BY CommaFacts
  <2>. QED BY <2>1, <2>2, ByteTypes
<1>3. /\ t[i] \in Digit => type = "Digit"
      /\ t[i] \in Letter => type = "Char"
  BY ByteTypes
<1>4. /\ i = m1 => type = "Colon"
      /\ i = m2 => type = "Dot"
      /\ i = m3 => type = "Minus"
  BY <1>1, ByteTypes
<1>5. i < c1 => i \in {m1, m2, m3} \/ t[i] \in Digit
  BY <1>1
<1>6. c1 < i /\ i < c2 => t[i] \in Letter
  BY <1>1
<1>7. c2 < i /\ i < c3 => t[i] \in Digit
  BY <1>1
<1>. HIDE DEF type
<1>8. /\ i < m1 => type = "Digit"
      /\ m1 < i /\ i < m2 => type = "Digit"
      /\ m2 < i /\ i < m3 => type = "Digit"
      /\ m3 < i /\ i < c1 => type = "Digit"
  BY <1>1, <1>3, <1>5
<1>. QED BY <1>2, <1>3, <1>4, <1>6, <1>7, <1>8 DEF type, HeaderTypes

(* The types of the bytes of a property and of the byte behind it.         *)
FieldTypes(type, c, q, i, e, f2, p2) ==
  /\ i < e => type \in {"Digit", "Colon", "Dot", "Minus", "Char"}
  /\ i = e => type = "Equal"
  /\ i <= f2 => type \notin {"Comma", "NewLine"}
  /\ type \in Types
  /\ type = "Quote" <=> c \in QuoteMarks
  /\ q = << >> => type \notin {"CommaInQ", "NewLineInQ"}
  /\ i = f2 + 1 => type = (IF f2 = p2 THEN "NewLine" ELSE "Comma") /\ q = << >>

(* In a property and on the byte behind it.                                *)
LEMMA FieldNext ==
  ASSUME NEW t \in Seq(Char), NEW p \in CompleteEvents(t), IsEvent(t, p),
         NEW f \in PropertyFields(t, p),
         NEW i \in f[1] .. f[2] + 1, NEW q, q = << >> <=> QuoteBefore(t)[i] = NoQuote
  PROVE  FieldTypes(TypeChar(t[i], q), t[i], q, i, EqualSign(t, f), f[2], p[2])
<1>. DEFINE e == EqualSign(t, f)
            type == TypeChar(t[i], q)
<1>1. /\ f[1] \in Nat /\ f[2] \in Nat /\ e \in Nat
      /\ Header3(t, p)[3] < f[1] /\ f[1] < e /\ e <= f[2] /\ f[2] <= p[2]
      /\ f[2] = p[2] \/ f[2] + 1 \in Commas(t, p)
      /\ \A j \in f[1] .. f[2] : j \notin Commas(t, p)
      /\ t[e] = "="
      /\ \A j \in f[1] .. e - 1 : t[j] \in Letter \cup Digit \cup {":", ".", "-"}
  BY FieldFacts
<1>2. p[1] \in Nat /\ p[2] \in Nat /\ p[2] + 1 \in Breaks(t) /\ f[1] - 1 \in Commas(t, p)
  BY LineFacts, FieldFacts
<1>3. i \in Nat /\ i \in p[1] .. p[2] + 1
  <2>1. f[1] - 1 \in p[1] .. p[2]
    BY <1>2 DEF Commas
  <2>. QED BY <1>1, <1>2, <2>1
<1>4. ASSUME i < e PROVE type \in {"Digit", "Colon", "Dot", "Minus", "Char"}
  <2>1. t[i] \in Letter \cup Digit \cup {":", ".", "-"}
    BY <1>1, <1>4
  <2>. QED BY <2>1, ByteTypes
<1>5. i = e => type = "Equal"
  BY <1>1, ByteTypes
<1>6. /\ type = "Comma" => t[i] = Comma /\ q = << >>
      /\ type = "NewLine" => t[i] = NewLine /\ q = << >>
      /\ type = "Quote" <=> t[i] \in QuoteMarks
      /\ type \in Types
  BY ByteTypes
<1>7. q = << >> => /\ t[i] = NewLine <=> i = p[2] + 1
                   /\ t[i] = Comma => i \in Commas(t, p)
  BY <1>3, SeparatorsInEvent
<1>8. i <= f[2] => type \notin {"Comma", "NewLine"}
  BY <1>1, <1>2, <1>3, <1>6, <1>7
<1>9. q = << >> => type \notin {"CommaInQ", "NewLineInQ"}
  BY Zenon DEF TypeChar
<1>10. ASSUME i = f[2] + 1
       PROVE  type = (IF f[2] = p[2] THEN "NewLine" ELSE "Comma") /\ q = << >>
  <2>1. CASE f[2] = p[2]
    <3>1. t[i] = NewLine /\ q = << >>
      BY <1>2, <1>10, <2>1, SeparatorFacts DEF Breaks
    <3>. QED BY <2>1, <3>1, ByteTypes
  <2>2. CASE f[2] # p[2]
    <3>1. t[i] = Comma /\ q = << >>
      BY <1>1, <1>10, <2>2, CommaFacts
    <3>. QED BY <2>2, <3>1, ByteTypes
  <2>. QED BY <2>1, <2>2
<1>. HIDE DEF e, type
<1>11. FieldTypes(type, t[i], q, i, e, f[2], p[2])
  BY <1>4, <1>5, <1>6, <1>8, <1>9, <1>10 DEF FieldTypes
<1>. QED BY <1>11 DEF e, type

-----------------------------------------------------------------------------
(* A byte more of the header                                               *)

(* The function called on the next byte of the header.                     *)
LEMMA HeaderFcn ==
  ASSUME NEW t \in Seq(Char), NEW p \in CompleteEvents(t), IsEvent(t, p),
         NEW g, NEW i \in Nat, InHeader(t, p, g, i),
         NEW q, q = << >> <=> QuoteBefore(t)[i + 1] = NoQuote,
         NEW g2, g2 = TransitionTable(g, TypeChar(t[i + 1], q))
  PROVE  \/ InHeader(t, p, g2, i + 1)
         \/ i + 1 = Header3(t, p)[3] /\ g2 = "Key"
<1>. DEFINE c == Header3(t, p)
            m == TimeOf(t, p)
            type == TypeChar(t[i + 1], q)
<1>0. PICK p1, m1, m2, m3, c1, c2, c3, p2 \in Nat :
        HeaderAt(t, p, p1, m1, m2, m3, c1, c2, c3, p2)
  BY HeaderPlaces
<1>1. /\ p[1] = p1 /\ p[2] = p2 /\ m[1] = m1 /\ m[2] = m2 /\ m[3] = m3
      /\ c[1] = c1 /\ c[2] = c2 /\ c[3] = c3
      /\ 1 <= p1 /\ p1 < m1 /\ m1 + 1 < m2 /\ m2 + 1 < m3 /\ m3 + 1 < c1
      /\ c1 + 1 < c2 /\ c2 + 1 < c3 /\ c3 <= p2
  BY <1>0 DEF HeaderAt
<1>2. \A j, f : InHeader(t, p, f, j) <=>
           \/ p1 <= j /\ j < m1 /\ f = "Minute"
           \/ m1 <= j /\ j < m2 /\ f = "Second"
           \/ m2 <= j /\ j < m3 /\ f = "Msecond"
           \/ m3 <= j /\ j < c1 /\ f = "Duration"
           \/ c1 <= j /\ j < c2 /\ f = "Event"
           \/ c2 <= j /\ j < c3 /\ f = "Level"
  BY <1>1 DEF InHeader
<1>3. i + 1 \in p1 .. c3
  BY SMTT(30), <1>1, <1>2
<1>4. /\ i + 1 < m1 => type = "Digit"
      /\ i + 1 = m1 => type = "Colon"
      /\ m1 < i + 1 /\ i + 1 < m2 => type = "Digit"
      /\ i + 1 = m2 => type = "Dot"
      /\ m2 < i + 1 /\ i + 1 < m3 => type = "Digit"
      /\ i + 1 = m3 => type = "Minus"
      /\ m3 < i + 1 /\ i + 1 < c1 => type = "Digit"
      /\ i + 1 \in {c1, c2, c3} => type = "Comma"
      /\ c1 < i + 1 /\ i + 1 < c2 => type = "Char"
      /\ c2 < i + 1 /\ i + 1 < c3 => type = "Digit"
  <2>1. PICK n \in p1 .. c3 : n = i + 1 /\ (q = << >> <=> QuoteBefore(t)[n] = NoQuote)
    BY <1>3
  <2>2. HeaderTypes(TypeChar(t[n], q), n, m1, m2, m3, c1, c2, c3)
    BY <1>0, <2>1, HeaderNext
  <2>. QED BY <2>1, <2>2 DEF HeaderTypes
<1>5. g2 = TransitionTable(g, type)
  OBVIOUS
<1>. HIDE DEF c, m, type
<1>7. /\ TransitionTable("Minute", "Digit") = "Minute"
      /\ TransitionTable("Minute", "Colon") = "Second"
      /\ TransitionTable("Second", "Digit") = "Second"
      /\ TransitionTable("Second", "Dot") = "Msecond"
      /\ TransitionTable("Msecond", "Digit") = "Msecond"
      /\ TransitionTable("Msecond", "Minus") = "Duration"
      /\ TransitionTable("Duration", "Digit") = "Duration"
      /\ TransitionTable("Duration", "Comma") = "Event"
      /\ TransitionTable("Event", "Char") = "Event"
      /\ TransitionTable("Event", "Comma") = "Level"
      /\ TransitionTable("Level", "Digit") = "Level"
      /\ TransitionTable("Level", "Comma") = "Key"
  BY DEF TransitionTable, HeaderTable
<1>8. CASE p1 <= i /\ i < m1 /\ g = "Minute"
  BY <1>1, <1>2, <1>4, <1>5, <1>7, <1>8
<1>9. CASE m1 <= i /\ i < m2 /\ g = "Second"
  BY <1>1, <1>2, <1>4, <1>5, <1>7, <1>9
<1>10. CASE m2 <= i /\ i < m3 /\ g = "Msecond"
  BY <1>1, <1>2, <1>4, <1>5, <1>7, <1>10
<1>11. CASE m3 <= i /\ i < c1 /\ g = "Duration"
  BY <1>1, <1>2, <1>4, <1>5, <1>7, <1>11
<1>12. CASE c1 <= i /\ i < c2 /\ g = "Event"
  BY <1>1, <1>2, <1>4, <1>5, <1>7, <1>12
<1>13. CASE c2 <= i /\ i < c3 /\ g = "Level"
  <2>1. i + 1 < c3 \/ i + 1 = c3
    BY <1>1, <1>13
  <2>. QED BY <1>1, <1>2, <1>4, <1>5, <1>7, <1>13, <2>1 DEF c
<1>. QED BY <1>2, <1>8, <1>9, <1>10, <1>11, <1>12, <1>13

(* A byte more of a number.                                                *)
LEMMA OneMoreDigit ==
  ASSUME NEW t \in Seq(Char), NEW i \in 1 .. Len(t)
  PROVE  /\ NumberEnding(t)[i] \in Nat
         /\ t[i] \in Digit =>
              /\ NumberEnding(t)[i] = 10 * NumberEnding(t)[i - 1] + DigitValue(t[i])
              /\ NumberEnding(t)[i] % 256 =
                   (10 * (NumberEnding(t)[i - 1] % 256) + DigitValue(t[i])) % 256
         /\ t[i] \notin Digit => NumberEnding(t)[i] = 0
<1>1. /\ i - 1 \in 0 .. Len(t) /\ i \in 0 .. Len(t)
  BY LenProperties
<1>2. NumberEnding(t)[i] \in Nat /\ NumberEnding(t)[i - 1] \in Nat
  BY <1>1, NumbersOfText
<1>3. NumberEnding(t)[i] =
        IF t[i] \notin Digit THEN 0 ELSE 10 * NumberEnding(t)[i - 1] + DigitValue(t[i])
  BY NumbersOfText
<1>4. ASSUME t[i] \in Digit
      PROVE  NumberEnding(t)[i] % 256 =
               (10 * (NumberEnding(t)[i - 1] % 256) + DigitValue(t[i])) % 256
  <2>1. DigitValue(t[i]) \in Nat
    BY <1>4, DigitType
  <2>2. NumberEnding(t)[i] = 10 * NumberEnding(t)[i - 1] + DigitValue(t[i])
    BY <1>3, <1>4
  <2>3. PICK n \in Nat, d \in Nat : n = NumberEnding(t)[i - 1] /\ d = DigitValue(t[i])
    BY <1>2, <2>1
  <2>4. (10 * (n % 256) + d) % 256 = (10 * n + d) % 256
    BY ModStep
  <2>. QED BY <2>2, <2>3, <2>4
<1>. QED BY <1>2, <1>3, <1>4

(* Each function of the header adds its byte to its value and leaves the   *)
(* others.                                                                 *)
LEMMA HeaderStep ==
  ASSUME NEW t \in Seq(Char), NEW p \in CompleteEvents(t), IsEvent(t, p),
         NEW g, NEW i \in Nat, InHeader(t, p, g, i),
         NEW e \in EventData, HeaderValues(t, p, i, e), NEW e2,
         g = "Minute" => e2 = [e EXCEPT !.minute = (10 * e.minute + DigitValue(t[i])) % 256],
         g = "Second" => e2 = [e EXCEPT !.second =
           (IF t[i] \in {":"} THEN e.second ELSE 10 * e.second + DigitValue(t[i])) % 256],
         g = "Msecond" => e2 = [e EXCEPT !.msecond =
           IF t[i] \in {"."} THEN e.msecond ELSE 10 * e.msecond + DigitValue(t[i])],
         g = "Event" => e2 = [e EXCEPT !.name =
           IF t[i] \in {Comma} THEN e.name ELSE Append(e.name, t[i])],
         g \in {"Duration", "Level"} => e2 = e
  PROVE  /\ HeaderValues(t, p, i + 1, e2)
         /\ e2.t_connect_id = e.t_connect_id /\ e2.kept = e.kept
<1>. DEFINE N == NumberEnding(t)
<1>0. PICK p1, m1, m2, m3, c1, c2, c3, p2 \in Nat :
        HeaderAt(t, p, p1, m1, m2, m3, c1, c2, c3, p2)
  BY HeaderPlaces
<1>. DEFINE Name(j) == SubSeq(t, c1 + 1, UpTo(j, c2) - 1)
<1>places. /\ p[1] = p1 /\ p[2] = p2
           /\ TimeOf(t, p)[1] = m1 /\ TimeOf(t, p)[2] = m2 /\ TimeOf(t, p)[3] = m3
           /\ Header3(t, p)[1] = c1 /\ Header3(t, p)[2] = c2 /\ Header3(t, p)[3] = c3
  BY <1>0 DEF HeaderAt
<1>1. /\ 1 <= p1 /\ p1 < m1 /\ m1 + 1 < m2 /\ m2 + 1 < m3 /\ m3 + 1 < c1
      /\ c1 + 1 < c2 /\ c2 + 1 < c3 /\ c3 <= p2 /\ p2 < Len(t) /\ Len(t) \in Nat
  BY <1>0, LenProperties DEF HeaderAt
<1>2. \/ p1 <= i /\ i < m1 /\ g = "Minute"
      \/ m1 <= i /\ i < m2 /\ g = "Second"
      \/ m2 <= i /\ i < m3 /\ g = "Msecond"
      \/ m3 <= i /\ i < c1 /\ g = "Duration"
      \/ c1 <= i /\ i < c2 /\ g = "Event"
      \/ c2 <= i /\ i < c3 /\ g = "Level"
  BY <1>places DEF InHeader
<1>3. /\ t[m1] = ":" /\ t[m2] = "." /\ t[c1] = Comma
      /\ \A j \in p1 .. c1 - 1 : j \in {m1, m2, m3} \/ t[j] \in Digit
      /\ \A j \in c1 + 1 .. c2 - 1 : t[j] \in Letter
  BY <1>0 DEF HeaderAt
<1>bytes. /\ \A j \in Nat : p1 <= j /\ j < c1 /\ j # m1 /\ j # m2 /\ j # m3 => t[j] \in Digit
          /\ \A j \in Nat : c1 < j /\ j < c2 => t[j] \in Letter
  <2>1. ASSUME NEW j \in Nat, p1 <= j, j < c1, j # m1, j # m2, j # m3
        PROVE  t[j] \in Digit
    <3>1. j \in p1 .. c1 - 1 /\ j \notin {m1, m2, m3}
      BY <1>1, <2>1
    <3>. QED BY <1>3, <3>1
  <2>2. ASSUME NEW j \in Nat, c1 < j, j < c2 PROVE t[j] \in Letter
    <3>1. j \in c1 + 1 .. c2 - 1
      BY <1>1, <2>2
    <3>. QED BY <1>3, <3>1
  <2>. QED BY <2>1, <2>2
<1>4. \A j : HeaderValues(t, p, j, e) <=>
        /\ e.minute = N[UpTo(j, m1) - 1] % 256
        /\ e.second = IF j <= m1 THEN 0 ELSE N[UpTo(j, m2) - 1] % 256
        /\ e.msecond = IF j <= m2 THEN 0 ELSE N[UpTo(j, m3) - 1]
        /\ e.name = Name(j)
  BY <1>places DEF HeaderValues
<1>5. HeaderValues(t, p, i + 1, e2) <=>
        /\ e2.minute = N[UpTo(i + 1, m1) - 1] % 256
        /\ e2.second = IF i + 1 <= m1 THEN 0 ELSE N[UpTo(i + 1, m2) - 1] % 256
        /\ e2.msecond = IF i + 1 <= m2 THEN 0 ELSE N[UpTo(i + 1, m3) - 1]
        /\ e2.name = Name(i + 1)
  BY <1>places DEF HeaderValues
<1>6. \A j \in Nat : j <= c1 => Name(j) = << >>
  <2>1. \A j \in Nat : j <= c1 => UpTo(j, c2) - 1 \in Int /\ UpTo(j, c2) - 1 < c1 + 1
    BY <1>1 DEF UpTo
  <2>. QED BY SMTT(30), <1>1, <2>1, SubSeqEmpty
<1>7. i \in 1 .. Len(t)
  BY <1>1, <1>2
<1>8. /\ t[i] \in Digit =>
           /\ N[i] = 10 * N[i - 1] + DigitValue(t[i])
           /\ N[i] % 256 = (10 * (N[i - 1] % 256) + DigitValue(t[i])) % 256
      /\ t[i] \notin Digit => N[i] = 0
  BY <1>7, OneMoreDigit
<1>9. ":" \notin Digit /\ "." \notin Digit /\ ":" # "." /\ Comma \notin Letter
  BY DEF Digit, Letter, Comma
<1>10. \A j \in Digit : j \notin {":"} /\ j \notin {"."}
  BY <1>9
<1>. HIDE DEF N, Name
<1>11. CASE p1 <= i /\ i < m1 /\ g = "Minute"
  <2>1. e2.minute = (10 * e.minute + DigitValue(t[i])) % 256
        /\ e2.second = e.second /\ e2.msecond = e.msecond /\ e2.name = e.name
        /\ e2.t_connect_id = e.t_connect_id /\ e2.kept = e.kept
    BY SMTT(30), <1>11 DEF EventData
  <2>2. t[i] \in Digit
    BY SMTT(30), <1>1, <1>bytes, <1>11
  <2>3. UpTo(i, m1) - 1 = i - 1 /\ UpTo(i + 1, m1) - 1 = i
    BY <1>1, <1>11 DEF UpTo
  <2>4. i <= m1 /\ i + 1 <= m1 /\ i <= m2 /\ i + 1 <= m2
    BY <1>1, <1>11
  <2>5. Name(i) = << >> /\ Name(i + 1) = << >>
    <3>1. i <= c1 /\ i + 1 <= c1 /\ i + 1 \in Nat
      BY <1>1, <1>11
    <3>. QED BY <1>6, <3>1
  <2>. QED BY <1>4, <1>5, <1>8, <2>1, <2>2, <2>3, <2>4, <2>5
<1>12. CASE m1 <= i /\ i < m2 /\ g = "Second"
  <2>1. e2.second =
          (IF t[i] \in {":"} THEN e.second ELSE 10 * e.second + DigitValue(t[i])) % 256
        /\ e2.minute = e.minute /\ e2.msecond = e.msecond /\ e2.name = e.name
        /\ e2.t_connect_id = e.t_connect_id /\ e2.kept = e.kept
    BY SMTT(30), <1>12 DEF EventData
  <2>2. i # m1 => t[i] \in Digit
    <3>1. p1 <= i /\ i < c1 /\ i # m2 /\ i # m3
      BY <1>1, <1>12
    <3>. QED BY <1>bytes, <3>1
  <2>3. /\ UpTo(i, m1) = UpTo(i + 1, m1)
        /\ UpTo(i, m2) - 1 = i - 1 /\ UpTo(i + 1, m2) - 1 = i
    BY <1>1, <1>12 DEF UpTo
  <2>4. i <= m2 /\ i + 1 <= m2 /\ ~(i + 1 <= m1) /\ (i <= m1 <=> i = m1)
    BY <1>1, <1>12
  <2>5. Name(i) = << >> /\ Name(i + 1) = << >>
    <3>1. i <= c1 /\ i + 1 <= c1 /\ i + 1 \in Nat
      BY <1>1, <1>12
    <3>. QED BY <1>6, <3>1
  <2>6. e2.second = N[i] % 256
    <3>1. CASE i = m1
      <4>1. e.second = 0 /\ t[i] = ":" /\ N[i] = 0
        BY <1>3, <1>4, <1>8, <1>9, <2>4, <3>1
      <4>. QED BY <2>1, <4>1
    <3>2. CASE i # m1
      <4>1. e.second = N[i - 1] % 256 /\ t[i] \in Digit /\ t[i] \notin {":"}
        BY <1>4, <1>10, <2>2, <2>3, <2>4, <3>2
      <4>. QED BY <1>8, <2>1, <4>1
    <3>. QED BY <3>1, <3>2
  <2>. QED BY <1>4, <1>5, <2>1, <2>3, <2>4, <2>5, <2>6
<1>13. CASE m2 <= i /\ i < m3 /\ g = "Msecond"
  <2>1. e2.msecond =
          (IF t[i] \in {"."} THEN e.msecond ELSE 10 * e.msecond + DigitValue(t[i]))
        /\ e2.minute = e.minute /\ e2.second = e.second /\ e2.name = e.name
        /\ e2.t_connect_id = e.t_connect_id /\ e2.kept = e.kept
    BY SMTT(30), <1>13 DEF EventData
  <2>2. i # m2 => t[i] \in Digit
    <3>1. p1 <= i /\ i < c1 /\ i # m1 /\ i # m3
      BY <1>1, <1>13
    <3>. QED BY <1>bytes, <3>1
  <2>3. /\ UpTo(i, m1) = UpTo(i + 1, m1) /\ UpTo(i, m2) = UpTo(i + 1, m2)
        /\ UpTo(i, m3) - 1 = i - 1 /\ UpTo(i + 1, m3) - 1 = i
    BY <1>1, <1>13 DEF UpTo
  <2>4. ~(i <= m1) /\ ~(i + 1 <= m1) /\ ~(i + 1 <= m2) /\ (i <= m2 <=> i = m2)
    BY <1>1, <1>13
  <2>5. Name(i) = << >> /\ Name(i + 1) = << >>
    <3>1. i <= c1 /\ i + 1 <= c1 /\ i + 1 \in Nat
      BY <1>1, <1>13
    <3>. QED BY <1>6, <3>1
  <2>6. e2.msecond = N[i]
    <3>1. CASE i = m2
      <4>1. e.msecond = 0 /\ t[i] = "." /\ N[i] = 0
        BY <1>3, <1>4, <1>8, <1>9, <2>4, <3>1
      <4>. QED BY <2>1, <4>1
    <3>2. CASE i # m2
      <4>1. e.msecond = N[i - 1] /\ t[i] \in Digit /\ t[i] \notin {"."}
        BY <1>4, <1>10, <2>2, <2>3, <2>4, <3>2
      <4>. QED BY <1>8, <2>1, <4>1
    <3>. QED BY <3>1, <3>2
  <2>. QED BY <1>4, <1>5, <2>1, <2>3, <2>4, <2>5, <2>6
<1>14. CASE m3 <= i /\ i < c1 /\ g = "Duration"
  <2>1. e2 = e
    BY <1>14
  <2>2. /\ UpTo(i, m1) = UpTo(i + 1, m1) /\ UpTo(i, m2) = UpTo(i + 1, m2)
        /\ UpTo(i, m3) = UpTo(i + 1, m3)
    BY <1>1, <1>14 DEF UpTo
  <2>3. ~(i <= m1) /\ ~(i + 1 <= m1) /\ ~(i + 1 <= m2) /\ ~(i <= m2)
    BY <1>1, <1>14
  <2>4. Name(i) = << >> /\ Name(i + 1) = << >>
    <3>1. i <= c1 /\ i + 1 <= c1 /\ i + 1 \in Nat
      BY <1>1, <1>14
    <3>. QED BY <1>6, <3>1
  <2>. QED BY <1>4, <1>5, <2>1, <2>2, <2>3, <2>4
<1>15. CASE c1 <= i /\ i < c2 /\ g = "Event"
  <2>1. e2.name = (IF t[i] \in {Comma} THEN e.name ELSE Append(e.name, t[i]))
        /\ e2.minute = e.minute /\ e2.second = e.second /\ e2.msecond = e.msecond
        /\ e2.t_connect_id = e.t_connect_id /\ e2.kept = e.kept
    BY SMTT(30), <1>15 DEF EventData
  <2>2. /\ UpTo(i, m1) = UpTo(i + 1, m1) /\ UpTo(i, m2) = UpTo(i + 1, m2)
        /\ UpTo(i, m3) = UpTo(i + 1, m3)
        /\ UpTo(i, c2) = i /\ UpTo(i + 1, c2) - 1 = i
    BY SMTT(30), <1>1, <1>15 DEF UpTo
  <2>3. ~(i <= m1) /\ ~(i + 1 <= m1) /\ ~(i + 1 <= m2) /\ ~(i <= m2)
    BY SMTT(30), <1>1, <1>15
  <2>4. e2.name = Name(i + 1)
    <3>1. CASE i = c1
      <4>1. Name(i) = << >> /\ t[i] = Comma
        BY <1>3, <1>6, <3>1
      <4>2. Name(i + 1) = << >>
        <5>1. c1 + 1 \in Int /\ i \in Int /\ i < c1 + 1
          BY <1>1, <3>1
        <5>2. SubSeq(t, c1 + 1, i) = << >>
          BY <5>1, SubSeqEmpty
        <5>. QED BY <2>2, <5>2 DEF Name
      <4>. QED BY <1>4, <2>1, <4>1, <4>2
    <3>2. CASE i # c1
      <4>1. t[i] \in Letter /\ t[i] # Comma
        BY <1>1, <1>bytes, <1>9, <1>15, <3>2
      <4>2. c1 + 1 \in 1 .. Len(t) /\ i \in c1 + 1 .. Len(t)
        BY <1>1, <1>7, <1>15, <3>2
      <4>3. SubSeq(t, c1 + 1, i) = Append(SubSeq(t, c1 + 1, i - 1), t[i])
        BY <4>2, OneMoreOfPiece
      <4>4. Name(i) = SubSeq(t, c1 + 1, i - 1) /\ Name(i + 1) = SubSeq(t, c1 + 1, i)
        BY <2>2 DEF Name
      <4>5. e.name = Name(i)
        BY <1>4
      <4>. QED BY ZenonT(30), <2>1, <4>1, <4>3, <4>4, <4>5
    <3>. QED BY <3>1, <3>2
  <2>. QED BY <1>4, <1>5, <2>1, <2>2, <2>3, <2>4
<1>16. CASE c2 <= i /\ i < c3 /\ g = "Level"
  <2>1. e2 = e
    BY <1>16
  <2>2. /\ UpTo(i, m1) = UpTo(i + 1, m1) /\ UpTo(i, m2) = UpTo(i + 1, m2)
        /\ UpTo(i, m3) = UpTo(i + 1, m3) /\ UpTo(i, c2) = UpTo(i + 1, c2)
    BY <1>1, <1>16 DEF UpTo
  <2>3. ~(i <= m1) /\ ~(i + 1 <= m1) /\ ~(i + 1 <= m2) /\ ~(i <= m2)
    BY <1>1, <1>16
  <2>. QED BY <1>4, <1>5, <2>1, <2>2, <2>3 DEF Name
<1>. QED BY <1>2, <1>11, <1>12, <1>13, <1>14, <1>15, <1>16

(* Behind the name the values of the header stay.                          *)
LEMMA HeaderKept ==
  ASSUME NEW t \in Seq(Char), NEW p \in CompleteEvents(t), IsEvent(t, p),
         NEW i \in Nat, NEW j \in Nat, i >= Header3(t, p)[2], j >= Header3(t, p)[2],
         NEW e, HeaderValues(t, p, i, e), NEW e2,
         e2.minute = e.minute, e2.second = e.second, e2.msecond = e.msecond, e2.name = e.name
  PROVE  HeaderValues(t, p, j, e2)
<1>0. PICK p1, m1, m2, m3, c1, c2, c3, p2 \in Nat :
        HeaderAt(t, p, p1, m1, m2, m3, c1, c2, c3, p2)
  BY HeaderPlaces
<1>1. /\ TimeOf(t, p)[1] = m1 /\ TimeOf(t, p)[2] = m2 /\ TimeOf(t, p)[3] = m3
      /\ Header3(t, p)[1] = c1 /\ Header3(t, p)[2] = c2
      /\ m1 + 1 < m2 /\ m2 + 1 < m3 /\ m3 + 1 < c1 /\ c1 + 1 < c2
      /\ i >= c2 /\ j >= c2
  BY <1>0 DEF HeaderAt
<1>2. /\ UpTo(i, m1) = UpTo(j, m1) /\ UpTo(i, m2) = UpTo(j, m2)
      /\ UpTo(i, m3) = UpTo(j, m3) /\ UpTo(i, c2) = UpTo(j, c2)
      /\ ~(i <= m1) /\ ~(j <= m1) /\ ~(j <= m2) /\ ~(i <= m2)
  BY <1>1 DEF UpTo
<1>. QED BY <1>1, <1>2 DEF HeaderValues

-----------------------------------------------------------------------------
(* A byte more of a property                                               *)

(* Where the property f of p has its equal sign and its ends.              *)
FieldAt(t, p, f, f1, e, f2, p2) ==
  /\ f[1] = f1 /\ f[2] = f2 /\ EqualSign(t, f) = e /\ p[2] = p2
  /\ Header3(t, p)[3] < f1 /\ 1 < f1 /\ f1 < e /\ e <= f2 /\ f2 <= p2 /\ p2 < Len(t)
  /\ f1 - 1 \in Commas(t, p) /\ t[f1 - 1] = Comma
  /\ f2 = p2 \/ f2 + 1 \in Commas(t, p)
  /\ t[e] = "="
  /\ \A i \in f1 .. e - 1 : t[i] # Comma

(* The places of a property, as numbers.                                   *)
LEMMA FieldPlaces ==
  ASSUME NEW t \in Seq(Char), NEW p \in CompleteEvents(t), IsEvent(t, p),
         NEW f \in PropertyFields(t, p)
  PROVE  \E f1, e, f2, p2 \in Nat : FieldAt(t, p, f, f1, e, f2, p2)
<1>. DEFINE e == EqualSign(t, f)
<1>1. /\ f[1] \in Nat /\ f[2] \in Nat /\ e \in Nat
      /\ Header3(t, p)[3] < f[1] /\ f[1] < e /\ e <= f[2] /\ f[2] <= p[2]
      /\ f[1] - 1 \in Commas(t, p)
      /\ f[2] = p[2] \/ f[2] + 1 \in Commas(t, p)
      /\ t[e] = "="
      /\ \A i \in f[1] .. e - 1 : t[i] \in Letter \cup Digit \cup {":", ".", "-"}
  BY FieldFacts
<1>2. p[2] \in Nat /\ p[2] < Len(t)
  <2>1. p[1] \in 1 .. Len(t) /\ p[2] \in 0 .. Len(t) - 1 /\ p[1] <= p[2] /\ Len(t) \in Nat
    BY LineFacts, LenProperties
  <2>. QED BY <2>1
<1>3. t[f[1] - 1] = Comma /\ 1 < f[1]
  <2>1. f[1] - 1 \in 1 .. Len(t) /\ t[f[1] - 1] = Comma
    BY <1>1, CommaFacts
  <2>. QED BY <1>1, <2>1, LenProperties
<1>4. \A i \in f[1] .. e - 1 : t[i] # Comma
  <2>1. Comma \notin Letter \cup Digit \cup {":", ".", "-"}
    BY DEF Comma, Letter, Digit
  <2>. QED BY <1>1, <2>1
<1>5. FieldAt(t, p, f, f[1], e, f[2], p[2])
  BY <1>1, <1>2, <1>3, <1>4 DEF FieldAt
<1>. HIDE DEF e
<1>. USE <1>1, <1>2
<1>. WITNESS f[1] \in Nat, e \in Nat, f[2] \in Nat, p[2] \in Nat
<1>. QED BY <1>5

(* The types of the bytes of a property, by its places.                    *)
LEMMA FieldByte ==
  ASSUME NEW t \in Seq(Char), NEW p \in CompleteEvents(t), IsEvent(t, p),
         NEW f \in PropertyFields(t, p),
         NEW f1 \in Nat, NEW e \in Nat, NEW f2 \in Nat, NEW p2 \in Nat,
         FieldAt(t, p, f, f1, e, f2, p2),
         NEW i \in f1 .. f2 + 1, NEW q, q = << >> <=> QuoteBefore(t)[i] = NoQuote
  PROVE  FieldTypes(TypeChar(t[i], q), t[i], q, i, e, f2, p2)
<1>1. f[1] = f1 /\ f[2] = f2 /\ EqualSign(t, f) = e /\ p[2] = p2
  BY DEF FieldAt
<1>2. i \in f[1] .. f[2] + 1
  BY <1>1
<1>3. FieldTypes(TypeChar(t[i], q), t[i], q, i, EqualSign(t, f), f[2], p[2])
  BY <1>2, FieldNext
<1>. QED BY <1>1, <1>3

(* The function called on the next byte of the property.                   *)
LEMMA FieldFcn ==
  ASSUME NEW type \in Types, NEW c, NEW q,
         NEW e \in Nat, NEW f2 \in Nat, NEW p2 \in Nat, NEW i \in Nat,
         FieldTypes(type, c, q, i, e, f2, p2), e <= f2
  PROVE  /\ i < e => TransitionTable("Key", type) = "Key"
         /\ i = e => TransitionTable("Key", type) = "Value"
         /\ e < i /\ i <= f2 /\ q = << >> =>
              TransitionTable("Value", type) = IF c \in QuoteMarks THEN "Mvalue" ELSE "Value"
         /\ e < i /\ i <= f2 => TransitionTable("Mvalue", type) = "Mvalue"
         /\ i = f2 + 1 => /\ TransitionTable("Value", type) = "EndValue"
                          /\ TransitionTable("Mvalue", type) = "EndValue"
                          /\ TransitionTable("EndValue", type) =
                               IF f2 = p2 THEN "EndEvent" ELSE "Key"
<1>1. \A y \in Types :
        /\ y \in {"Digit", "Colon", "Dot", "Minus", "Char"} => TransitionTable("Key", y) = "Key"
        /\ y = "Equal" => TransitionTable("Key", y) = "Value"
        /\ y \notin {"Comma", "NewLine", "CommaInQ", "NewLineInQ"} =>
             TransitionTable("Value", y) = IF y = "Quote" THEN "Mvalue" ELSE "Value"
        /\ y \notin {"Comma", "NewLine"} => TransitionTable("Mvalue", y) = "Mvalue"
        /\ y \in {"Comma", "NewLine"} => /\ TransitionTable("Value", y) = "EndValue"
                                         /\ TransitionTable("Mvalue", y) = "EndValue"
        /\ TransitionTable("EndValue", "Comma") = "Key"
        /\ TransitionTable("EndValue", "NewLine") = "EndEvent"
  BY DEF TransitionTable, PropertyTable, Types
<1>. QED BY <1>1 DEF FieldTypes

(* A byte of the key, and the comma before it, which is not kept.          *)
LEMMA KeyStep ==
  ASSUME NEW t \in Seq(Char), NEW p \in CompleteEvents(t), IsEvent(t, p),
         NEW f \in PropertyFields(t, p), NEW i \in Nat, NEW key, NEW value,
         InProperty(t, f, "Key", i, key, value),
         NEW q, q = << >> <=> QuoteBefore(t)[i + 1] = NoQuote
  PROVE  InProperty(t, f, TransitionTable("Key", TypeChar(t[i + 1], q)), i + 1,
                    IF t[i] \in {Comma} THEN key ELSE Append(key, t[i]), value)
<1>1. PICK f1, e, f2, p2 \in Nat : FieldAt(t, p, f, f1, e, f2, p2)
  BY FieldPlaces
<1>2. /\ f[1] = f1 /\ f[2] = f2 /\ EqualSign(t, f) = e
      /\ 1 < f1 /\ f1 < e /\ e <= f2 /\ f2 <= p2 /\ p2 < Len(t) /\ t[f1 - 1] = Comma
      /\ Len(t) \in Nat
      /\ \A j \in f1 .. e - 1 : t[j] # Comma
  BY <1>1, LenProperties DEF FieldAt
<1>3. f1 - 1 <= i /\ i < e
  BY <1>2 DEF InProperty
<1>4. key = SubSeq(t, f1, i - 1) /\ value = ValueUpTo(t, e)[i - 1]
  BY <1>2, <1>3 DEF InProperty, UpTo
<1>5. PICK n \in f1 .. f2 + 1 : n = i + 1 /\ (q = << >> <=> QuoteBefore(t)[n] = NoQuote)
  BY <1>2, <1>3
<1>. DEFINE type == TypeChar(t[n], q)
            key2 == IF t[i] \in {Comma} THEN key ELSE Append(key, t[i])
            g == TransitionTable("Key", type)
<1>6. FieldTypes(type, t[n], q, n, e, f2, p2)
  BY <1>1, <1>5, FieldByte
<1>7. type \in Types
  BY ByteTypes
<1>. HIDE DEF type
<1>8. /\ n < e => g = "Key"
      /\ n = e => g = "Value"
  BY <1>2, <1>5, <1>6, <1>7, FieldFcn
<1>9. key2 = SubSeq(t, f1, i)
  <2>1. CASE i = f1 - 1
    <3>1. t[i] = Comma
      BY <1>2, <2>1
    <3>2. SubSeq(t, f1, i - 1) = << >> /\ SubSeq(t, f1, i) = << >>
      <4>1. f1 \in Int /\ i - 1 \in Int /\ i \in Int /\ i - 1 < f1 /\ i < f1
        BY <2>1
      <4>. QED BY <4>1, SubSeqEmpty
    <3>. QED BY <1>4, <3>1, <3>2
  <2>2. CASE i # f1 - 1
    <3>1. i \in f1 .. e - 1 /\ f1 \in 1 .. Len(t) /\ i \in f1 .. Len(t)
      BY <1>2, <1>3, <2>2
    <3>2. t[i] # Comma
      BY <1>2, <3>1
    <3>3. SubSeq(t, f1, i) = Append(SubSeq(t, f1, i - 1), t[i])
      BY <3>1, OneMoreOfPiece
    <3>. QED BY <1>4, <3>2, <3>3
  <2>. QED BY <2>1, <2>2
<1>10. value = ValueUpTo(t, e)[i]
  <2>1. e \in 1 .. Len(t) /\ i \in 0 .. e /\ i - 1 \in 0 .. e
    BY <1>2, <1>3
  <2>2. ValueUpTo(t, e)[i] = << >> /\ ValueUpTo(t, e)[i - 1] = << >>
    BY <2>1, ValuesOfText
  <2>. QED BY <1>4, <2>2
<1>. HIDE DEF key2, g
<1>11. n <= e /\ UpTo(n, e) - 1 = i /\ n - 1 = i
  BY <1>3, <1>5 DEF UpTo
<1>12. n = e => ~Quoted(t, f, n)
  BY <1>2 DEF Quoted
<1>13. InProperty(t, f, g, n, key2, value)
  BY <1>2, <1>5, <1>8, <1>9, <1>10, <1>11, <1>12 DEF InProperty
<1>. QED BY <1>5, <1>13 DEF type, key2, g

(* A byte of the value before any quotation.                               *)
LEMMA ValueStep ==
  ASSUME NEW t \in Seq(Char), NEW p \in CompleteEvents(t), IsEvent(t, p),
         NEW f \in PropertyFields(t, p), NEW i \in Nat, NEW key, NEW value,
         InProperty(t, f, "Value", i, key, value),
         NEW q, q = << >>, QuoteBefore(t)[i + 1] = NoQuote
  PROVE  InProperty(t, f, TransitionTable("Value", TypeChar(t[i + 1], q)), i + 1, key,
                    IF t[i] \in {"=", Return} THEN value ELSE Append(value, t[i]))
<1>1. PICK f1, e, f2, p2 \in Nat : FieldAt(t, p, f, f1, e, f2, p2)
  BY FieldPlaces
<1>2. /\ f[1] = f1 /\ f[2] = f2 /\ EqualSign(t, f) = e
      /\ 1 < f1 /\ f1 < e /\ e <= f2 /\ f2 <= p2 /\ p2 < Len(t) /\ t[e] = "="
      /\ Len(t) \in Nat
  BY <1>1, LenProperties DEF FieldAt
<1>3. e <= i /\ i <= f2 /\ ~Quoted(t, f, i)
  BY <1>2 DEF InProperty
<1>4. key = SubSeq(t, f1, UpTo(i, e) - 1) /\ value = ValueUpTo(t, e)[i - 1]
  BY <1>2 DEF InProperty
<1>5. PICK n \in f1 .. f2 + 1 : n = i + 1 /\ QuoteBefore(t)[n] = NoQuote
  BY <1>2, <1>3
<1>. DEFINE type == TypeChar(t[n], q)
            value2 == IF t[i] \in {"=", Return} THEN value ELSE Append(value, t[i])
            g == TransitionTable("Value", type)
<1>6. FieldTypes(type, t[n], q, n, e, f2, p2)
  BY <1>1, <1>5, FieldByte
<1>7. type \in Types
  BY ByteTypes
<1>. HIDE DEF type
<1>8. /\ n <= f2 => g = IF t[n] \in QuoteMarks THEN "Mvalue" ELSE "Value"
      /\ n = f2 + 1 => g = "EndValue"
  BY <1>2, <1>3, <1>5, <1>6, <1>7, FieldFcn
<1>9. value2 = ValueUpTo(t, e)[i]
  <2>0. e \in 1 .. Len(t)
    BY <1>2
  <2>1. CASE i = e
    <3>1. i \in 0 .. e /\ i - 1 \in 0 .. e
      BY <1>2, <2>1
    <3>2. ValueUpTo(t, e)[i] = << >> /\ ValueUpTo(t, e)[i - 1] = << >>
      BY <2>0, <3>1, ValuesOfText
    <3>. QED BY <1>2, <1>4, <2>1, <3>2
  <2>2. CASE i # e
    <3>1. i \in e + 1 .. Len(t)
      BY <1>2, <1>3, <2>2
    <3>2. \A j \in e + 1 .. i : t[j] \notin QuoteMarks
      BY <1>2, <1>3 DEF Quoted
    <3>. QED BY <1>4, <2>0, <3>1, <3>2, ValuesOfText
  <2>. QED BY <2>1, <2>2
<1>. HIDE DEF value2, g
<1>10. UpTo(n, e) = UpTo(i, e) /\ n - 1 = i /\ e <= n /\ (n <= f2 \/ n = f2 + 1)
  BY <1>2, <1>3, <1>5 DEF UpTo
<1>11. Quoted(t, f, n) <=> t[n] \in QuoteMarks
  <2>1. n \in e + 1 .. n /\ \A j \in e + 1 .. n : j = n \/ j \in e + 1 .. i
    BY <1>3, <1>5
  <2>. QED BY <1>2, <1>3, <2>1 DEF Quoted
<1>12. InProperty(t, f, g, n, key, value2)
  BY <1>2, <1>4, <1>5, <1>8, <1>9, <1>10, <1>11 DEF InProperty
<1>. QED BY <1>5, <1>12 DEF type, value2, g

(* A byte of the value from its first quotation on.                        *)
LEMMA MvalueStep ==
  ASSUME NEW t \in Seq(Char), NEW p \in CompleteEvents(t), IsEvent(t, p),
         NEW f \in PropertyFields(t, p), NEW i \in Nat, NEW key, NEW value,
         InProperty(t, f, "Mvalue", i, key, value),
         NEW q, q = << >> <=> QuoteBefore(t)[i + 1] = NoQuote
  PROVE  InProperty(t, f, TransitionTable("Mvalue", TypeChar(t[i + 1], q)), i + 1, key,
                    Append(value, t[i]))
<1>1. PICK f1, e, f2, p2 \in Nat : FieldAt(t, p, f, f1, e, f2, p2)
  BY FieldPlaces
<1>2. /\ f[1] = f1 /\ f[2] = f2 /\ EqualSign(t, f) = e
      /\ 1 < f1 /\ f1 < e /\ e <= f2 /\ f2 <= p2 /\ p2 < Len(t)
      /\ Len(t) \in Nat
  BY <1>1, LenProperties DEF FieldAt
<1>3. e <= i /\ i <= f2 /\ Quoted(t, f, i)
  BY <1>2 DEF InProperty
<1>4. key = SubSeq(t, f1, UpTo(i, e) - 1) /\ value = ValueUpTo(t, e)[i - 1]
  BY <1>2 DEF InProperty
<1>5. PICK n \in f1 .. f2 + 1 : n = i + 1 /\ (q = << >> <=> QuoteBefore(t)[n] = NoQuote)
  BY <1>2, <1>3
<1>. DEFINE type == TypeChar(t[n], q)
            g == TransitionTable("Mvalue", type)
<1>6. FieldTypes(type, t[n], q, n, e, f2, p2)
  BY <1>1, <1>5, FieldByte
<1>7. type \in Types
  BY ByteTypes
<1>. HIDE DEF type
<1>8. /\ n <= f2 => g = "Mvalue"
      /\ n = f2 + 1 => g = "EndValue"
  BY <1>2, <1>3, <1>5, <1>6, <1>7, FieldFcn
<1>9. PICK k \in e + 1 .. i : t[k] \in QuoteMarks
  BY <1>2, <1>3 DEF Quoted
<1>10. Append(value, t[i]) = ValueUpTo(t, e)[i]
  <2>1. e \in 1 .. Len(t) /\ i \in e + 1 .. Len(t)
    BY <1>2, <1>3, <1>9
  <2>2. ~(\A j \in e + 1 .. i : t[j] \notin QuoteMarks)
    BY <1>9
  <2>. QED BY <1>4, <2>1, <2>2, ValuesOfText
<1>. HIDE DEF g
<1>11. UpTo(n, e) = UpTo(i, e) /\ n - 1 = i /\ e <= n /\ (n <= f2 \/ n = f2 + 1)
  BY <1>2, <1>3, <1>5 DEF UpTo
<1>12. Quoted(t, f, n)
  <2>1. k \in e + 1 .. n
    BY <1>5
  <2>. QED BY <1>2, <1>9, <2>1 DEF Quoted
<1>13. InProperty(t, f, g, n, key, Append(value, t[i]))
  BY <1>2, <1>4, <1>5, <1>8, <1>10, <1>11, <1>12 DEF InProperty
<1>. QED BY <1>5, <1>13 DEF type, g

-----------------------------------------------------------------------------
(* From one property to the next                                           *)

(* On the comma before a property nothing of it is kept.                   *)
LEMMA FieldBegins ==
  ASSUME NEW t \in Seq(Char), NEW p \in CompleteEvents(t), IsEvent(t, p),
         NEW f \in PropertyFields(t, p), NEW i \in Nat, f[1] = i + 1
  PROVE  InProperty(t, f, "Key", i, << >>, << >>)
<1>1. PICK f1, e, f2, p2 \in Nat : FieldAt(t, p, f, f1, e, f2, p2)
  BY FieldPlaces
<1>2. /\ f[1] = f1 /\ f[2] = f2 /\ EqualSign(t, f) = e
      /\ 1 < f1 /\ f1 < e /\ e <= f2 /\ f2 <= p2 /\ p2 < Len(t) /\ Len(t) \in Nat
  BY <1>1, LenProperties DEF FieldAt
<1>3. f1 - 1 = i /\ i < e /\ UpTo(i, e) - 1 = i - 1 /\ e \in 1 .. Len(t) /\ i - 1 \in 0 .. e
  BY <1>2 DEF UpTo
<1>4. ValueUpTo(t, e)[i - 1] = << >>
  BY <1>3, ValuesOfText
<1>5. SubSeq(t, f1, i - 1) = << >>
  <2>1. f1 \in Int /\ i - 1 \in Int /\ i - 1 < f1
    BY <1>3
  <2>. QED BY <2>1, SubSeqEmpty
<1>. QED BY <1>2, <1>3, <1>4, <1>5 DEF InProperty

(* Behind a property its name and its value are kept.                      *)
LEMMA FieldEnds ==
  ASSUME NEW t \in Seq(Char), NEW p \in CompleteEvents(t), IsEvent(t, p),
         NEW f \in PropertyFields(t, p), NEW i, NEW key, NEW value,
         InProperty(t, f, "EndValue", i, key, value)
  PROVE  /\ i = f[2] + 1
         /\ key = PropertyName(t, f) /\ value = PropertyValue(t, f)
         /\ value \in Seq(Char)
<1>1. PICK f1, e, f2, p2 \in Nat : FieldAt(t, p, f, f1, e, f2, p2)
  BY FieldPlaces
<1>2. /\ f[1] = f1 /\ f[2] = f2 /\ EqualSign(t, f) = e
      /\ 1 < f1 /\ f1 < e /\ e <= f2 /\ f2 <= p2 /\ p2 < Len(t) /\ Len(t) \in Nat
  BY <1>1, LenProperties DEF FieldAt
<1>3. i = f2 + 1
  BY <1>2 DEF InProperty
<1>4. UpTo(i, e) = e /\ i - 1 = f2 /\ f2 \in 0 .. Len(t) /\ e \in 1 .. Len(t)
  BY <1>2, <1>3 DEF UpTo
<1>5. key = SubSeq(t, f1, e - 1) /\ value = ValueUpTo(t, e)[f2]
  BY <1>2, <1>4 DEF InProperty
<1>6. value \in Seq(Char)
  BY <1>4, <1>5, ValuesOfText
<1>. QED BY <1>2, <1>3, <1>5, <1>6 DEF PropertyName, PropertyValue

(* The properties before the next one, or before the end of the event.     *)
LEMMA FieldsBehind ==
  ASSUME NEW t \in Seq(Char), NEW p \in CompleteEvents(t), IsEvent(t, p),
         NEW f \in PropertyFields(t, p)
  PROVE  /\ \A h \in PropertyFields(t, p) : h[1] = f[2] + 2 =>
              FieldsBefore(t, p, h) = FieldsBefore(t, p, f) \cup {f}
         /\ f[2] = p[2] => PropertyFields(t, p) = FieldsBefore(t, p, f) \cup {f}
         /\ f[1] = Header3(t, p)[3] + 1 => FieldsBefore(t, p, f) = {}
         /\ f[1] \in Int /\ \A g \in FieldsBefore(t, p, f) : g[1] \in Int /\ g[1] < f[1]
<1>1. \A h \in PropertyFields(t, p) :
        /\ h[1] \in Nat /\ h[2] \in Nat /\ h[1] <= h[2] /\ h[2] <= p[2]
        /\ Header3(t, p)[3] < h[1]
  <2>. TAKE h \in PropertyFields(t, p)
  <2>1. PICK h1, e, h2, p2 \in Nat : FieldAt(t, p, h, h1, e, h2, p2)
    BY FieldPlaces
  <2>. QED BY <2>1 DEF FieldAt
<1>2. \A h \in PropertyFields(t, p) : h = f \/ h[2] + 1 < f[1] \/ f[2] + 1 < h[1]
  BY FieldsApart
<1>3. p[2] \in Nat /\ Header3(t, p)[3] \in Nat
  BY LineFacts, HeaderFacts
<1>4. ASSUME NEW h \in PropertyFields(t, p), h[1] = f[2] + 2
      PROVE  FieldsBefore(t, p, h) = FieldsBefore(t, p, f) \cup {f}
  <2>1. ASSUME NEW g \in PropertyFields(t, p)
        PROVE  g[1] < h[1] <=> g = f \/ g[1] < f[1]
    BY <1>1, <1>2, <1>4
  <2>. QED BY <2>1 DEF FieldsBefore
<1>5. ASSUME f[2] = p[2]
      PROVE  PropertyFields(t, p) = FieldsBefore(t, p, f) \cup {f}
  <2>1. ASSUME NEW g \in PropertyFields(t, p)
        PROVE  g = f \/ g[1] < f[1]
    BY <1>1, <1>2, <1>3, <1>5
  <2>. QED BY <2>1 DEF FieldsBefore
<1>6. f[1] = Header3(t, p)[3] + 1 => FieldsBefore(t, p, f) = {}
  BY <1>1, <1>3 DEF FieldsBefore
<1>. QED BY <1>1, <1>4, <1>5, <1>6 DEF FieldsBefore

(* The event with the value of a property that is kept.                    *)
WithValue(e, key, value) ==
  [e EXCEPT
    !.t_connect_id = IF key = KeyName["t_connect_id"] THEN Numeral(value) ELSE @,
    !.kept = [c \in Columns |->
      IF key = KeyName[c] /\ (c # "wait_connections" \/ value # << >>)
      THEN value ELSE @[c]]]

(* EndValue keeps the value of a property.                                 *)
LEMMA OneMoreValue ==
  ASSUME NEW t \in Seq(Char), NEW D, NEW f,
         f[1] \in Int, \A g \in D : g[1] \in Int /\ g[1] < f[1],
         NEW e \in EventData, FieldValues(t, D, e),
         NEW key, NEW value \in Seq(Char), key = PropertyName(t, f), value = PropertyValue(t, f)
  PROVE  FieldValues(t, D \cup {f}, WithValue(e, key, value))
<1>1. \A name, values : LastValue(t, D \cup {f}, name, values) =
        IF PropertyName(t, f) = name /\ PropertyValue(t, f) \in values
        THEN PropertyValue(t, f) ELSE LastValue(t, D, name, values)
  BY OneMoreField
<1>. DEFINE id == IF key = KeyName["t_connect_id"] THEN Numeral(value) ELSE e.t_connect_id
            kept == [c \in Columns |->
              IF key = KeyName[c] /\ (c # "wait_connections" \/ value # << >>)
              THEN value ELSE e.kept[c]]
            e2 == WithValue(e, key, value)
            Values(c) == IF c = "wait_connections" THEN Seq(Char) \ {<< >>} ELSE Seq(Char)
<1>2. e2.t_connect_id = id /\ e2.kept = kept
  <2>1. e2 = [e EXCEPT !.t_connect_id = id, !.kept = kept]
    BY DEF WithValue
  <2>. HIDE DEF id, kept
  <2>. QED BY <2>1 DEF EventData
<1>3. id = Numeral(LastValue(t, D \cup {f}, KeyName["t_connect_id"], Seq(Char)))
  BY <1>1 DEF FieldValues
<1>4. kept = KeptOf(t, D \cup {f})
  <2>1. \A E : KeptOf(t, E) = [c \in Columns |-> LastValue(t, E, KeyName[c], Values(c))]
    BY DEF KeptOf
  <2>2. e.kept = [c \in Columns |-> LastValue(t, D, KeyName[c], Values(c))]
    BY <2>1 DEF FieldValues
  <2>3. ASSUME NEW c \in Columns
        PROVE  kept[c] = LastValue(t, D \cup {f}, KeyName[c], Values(c))
    <3>1. e.kept[c] = LastValue(t, D, KeyName[c], Values(c))
      <4>. HIDE DEF Values
      <4>. QED BY <2>2
    <3>2. value \in Values(c) <=> (c # "wait_connections" \/ value # << >>)
      OBVIOUS
    <3>. HIDE DEF Values
    <3>. QED BY <1>1, <3>1, <3>2
  <2>4. kept = [c \in Columns |-> LastValue(t, D \cup {f}, KeyName[c], Values(c))]
    <3>1. kept = [c \in Columns |-> kept[c]]
      OBVIOUS
    <3>. HIDE DEF kept, Values
    <3>. QED BY <2>3, <3>1
  <2>. QED BY <2>1, <2>4
<1>. HIDE DEF id, kept, e2
<1>5. FieldValues(t, D \cup {f}, e2)
  BY <1>2, <1>3, <1>4 DEF FieldValues
<1>. QED BY <1>5 DEF e2

(* The end of a property is the comma before the next one or the end of    *)
(* the event.                                                              *)
NextField(t, p, g, i, e) ==
  \/ \E h \in PropertyFields(t, p) :
       InProperty(t, h, g, i, << >>, << >>) /\ FieldValues(t, FieldsBefore(t, p, h), e)
  \/ i = p[2] + 1 /\ g = "EndEvent" /\ FieldValues(t, PropertyFields(t, p), e)

(* EndValue goes on to the next property, or to the end of the event.      *)
LEMMA EndValueStep ==
  ASSUME NEW t \in Seq(Char), NEW p \in CompleteEvents(t), IsEvent(t, p),
         NEW f \in PropertyFields(t, p), NEW i \in Nat, NEW key, NEW value,
         InProperty(t, f, "EndValue", i, key, value),
         NEW e \in EventData, FieldValues(t, FieldsBefore(t, p, f), e),
         NEW q, q = << >> <=> QuoteBefore(t)[i] = NoQuote
  PROVE  NextField(t, p, TransitionTable("EndValue", TypeChar(t[i], q)), i,
                   WithValue(e, key, value))
<1>. DEFINE D == FieldsBefore(t, p, f)
            e2 == WithValue(e, key, value)
            type == TypeChar(t[i], q)
            g == TransitionTable("EndValue", type)
<1>1. PICK f1, b, f2, p2 \in Nat : FieldAt(t, p, f, f1, b, f2, p2)
  BY FieldPlaces
<1>2. /\ f[1] = f1 /\ f[2] = f2 /\ p[2] = p2 /\ Header3(t, p)[3] < f1
      /\ f1 < b /\ b <= f2 /\ f2 <= p2
      /\ f2 = p2 \/ f2 + 1 \in Commas(t, p)
  BY <1>1 DEF FieldAt
<1>3. /\ i = f[2] + 1
      /\ key = PropertyName(t, f) /\ value = PropertyValue(t, f) /\ value \in Seq(Char)
  BY FieldEnds
<1>4. FieldValues(t, D \cup {f}, e2)
  <2>1. f[1] \in Int /\ \A h \in D : h[1] \in Int /\ h[1] < f[1]
    BY FieldsBehind
  <2>2. FieldValues(t, D, e)
    OBVIOUS
  <2>. HIDE DEF D
  <2>. QED BY <1>3, <2>1, <2>2, OneMoreValue
<1>5. g = IF f2 = p2 THEN "EndEvent" ELSE "Key"
  <2>1. i \in f1 .. f2 + 1 /\ i = f2 + 1
    BY <1>2, <1>3
  <2>2. FieldTypes(type, t[i], q, i, b, f2, p2)
    BY <1>1, <2>1, FieldByte
  <2>3. type \in Types
    BY ByteTypes
  <2>. HIDE DEF type
  <2>. QED BY <1>2, <2>1, <2>2, <2>3, FieldFcn
<1>. HIDE DEF g, type
<1>6. CASE f2 = p2
  <2>1. PropertyFields(t, p) = D \cup {f}
    BY <1>2, <1>6, FieldsBehind
  <2>2. FieldValues(t, PropertyFields(t, p), e2)
    BY <1>4, <2>1
  <2>. QED BY <1>2, <1>3, <1>5, <1>6, <2>2 DEF NextField, g, type
<1>7. CASE f2 # p2
  <2>1. i \in Commas(t, p) /\ i >= Header3(t, p)[3]
    <3>1. Header3(t, p)[3] \in Nat
      BY HeaderFacts
    <3>. QED BY <1>2, <1>3, <1>7, <3>1
  <2>2. PICK h \in PropertyFields(t, p) : h[1] = i + 1
    BY <2>1, FieldFrom
  <2>3. InProperty(t, h, "Key", i, << >>, << >>)
    BY <2>2, FieldBegins
  <2>4. FieldsBefore(t, p, h) = D \cup {f}
    <3>1. h[1] = f[2] + 2
      BY <1>2, <1>3, <2>2
    <3>. QED BY <3>1, FieldsBehind
  <2>5. FieldValues(t, FieldsBefore(t, p, h), e2)
    BY <1>4, <2>4
  <2>. QED BY <1>5, <1>7, <2>3, <2>5 DEF NextField, g, type
<1>. QED BY <1>6, <1>7

-----------------------------------------------------------------------------
(* From the first byte of an event to its last                             *)

(* On the first byte of an event nothing of it is kept.                    *)
LEMMA EventBegins ==
  ASSUME NEW t \in Seq(Char), NEW p \in CompleteEvents(t), IsEvent(t, p), NEW o,
         NEW key, NEW value, NEW q, q = << >>, QuoteBefore(t)[p[1]] = NoQuote
  PROVE  Reading(t, p, TransitionTable("Start", TypeChar(t[p[1]], q)), p[1],
                 [NewEventData EXCEPT !.offset_start = o], key, value)
<1>1. PICK p1, m1, m2, m3, c1, c2, c3, p2 \in Nat :
        HeaderAt(t, p, p1, m1, m2, m3, c1, c2, c3, p2)
  BY HeaderPlaces
<1>2. /\ p[1] = p1 /\ p[2] = p2
      /\ TimeOf(t, p)[1] = m1 /\ TimeOf(t, p)[2] = m2 /\ TimeOf(t, p)[3] = m3
      /\ Header3(t, p)[1] = c1 /\ Header3(t, p)[2] = c2 /\ Header3(t, p)[3] = c3
      /\ 1 <= p1 /\ p1 < m1 /\ m1 + 1 < m2 /\ m2 + 1 < m3 /\ m3 + 1 < c1
      /\ c1 + 1 < c2 /\ c2 + 1 < c3 /\ c3 <= p2 /\ p2 < Len(t) /\ Len(t) \in Nat
  BY <1>1, LenProperties DEF HeaderAt
<1>. DEFINE type == TypeChar(t[p1], q)
            e == [NewEventData EXCEPT !.offset_start = o]
            g == TransitionTable("Start", type)
<1>3. g = "Minute"
  <2>1. PICK i \in p1 .. c3 : i = p1 /\ (q = << >> <=> QuoteBefore(t)[i] = NoQuote)
    BY <1>2
  <2>2. HeaderTypes(TypeChar(t[i], q), i, m1, m2, m3, c1, c2, c3)
    BY <1>1, <2>1, HeaderNext
  <2>3. type = "Digit"
    BY <1>2, <2>1, <2>2 DEF HeaderTypes
  <2>. QED BY <2>3 DEF TransitionTable, HeaderTable
<1>4. NumberEnding(t)[p1 - 1] = 0
  <2>1. CASE p1 = 1
    BY <2>1, NumbersOfText
  <2>2. CASE p1 # 1
    <3>1. p1 - 1 \in 1 .. Len(t) /\ t[p1 - 1] = NewLine
      BY <1>2, <2>2, LineFacts, SeparatorFacts DEF LineBegins, Breaks
    <3>2. NewLine \notin Digit
      BY DEF NewLine, Digit
    <3>. QED BY <3>1, <3>2, OneMoreDigit
  <2>. QED BY <2>1, <2>2
<1>5. SubSeq(t, c1 + 1, p1 - 1) = << >>
  <2>1. c1 + 1 \in Int /\ p1 - 1 \in Int /\ p1 - 1 < c1 + 1
    BY <1>2
  <2>. QED BY <2>1, SubSeqEmpty
<1>6. /\ e.minute = 0 /\ e.second = 0 /\ e.msecond = 0 /\ e.name = << >>
      /\ e.t_connect_id = << >> /\ e.kept = [c \in Columns |-> << >>]
  BY DEF NewEventData
<1>. HIDE DEF e, g, type
<1>7. HeaderValues(t, p, p1, e)
  <2>1. UpTo(p1, m1) = p1 /\ UpTo(p1, c2) = p1 /\ p1 <= m1 /\ p1 <= m2
    BY <1>2 DEF UpTo
  <2>2. 0 % 256 = 0
    OBVIOUS
  <2>. QED BY <1>2, <1>4, <1>5, <1>6, <2>1, <2>2 DEF HeaderValues
<1>8. InHeader(t, p, g, p1)
  BY <1>2, <1>3 DEF InHeader
<1>9. FieldValues(t, {}, e)
  BY <1>6, NoField DEF FieldValues
<1>. QED BY <1>2, <1>7, <1>8, <1>9 DEF Reading, e, g, type

(* The header: what Call does with a byte of it.                           *)
LEMMA CallHeader ==
  ASSUME ParserInv, pc \in {"middle", "last"}, Call,
         NEW t \in Seq(Char), t[ch] = text[ch],
         NEW p \in CompleteEvents(t), IsEvent(t, p),
         HeaderValues(t, p, ch, ev), InHeader(t, p, fcn, ch)
  PROVE  /\ HeaderValues(t, p, ch + 1, ev')
         /\ ev'.t_connect_id = ev.t_connect_id /\ ev'.kept = ev.kept
         /\ ch' = ch + 1 /\ keyTemp' = keyTemp /\ valueTemp' = valueTemp
<1>1. fcn \in {"Minute", "Second", "Msecond", "Duration", "Event", "Level"}
  BY DEF InHeader
<1>2. ch \in Nat /\ ev \in EventData
  BY DEF ParserInv, TypeOK
<1>3. /\ ch' = ch + 1 /\ keyTemp' = keyTemp /\ valueTemp' = valueTemp
      /\ fcn = "Minute" => ev' = [ev EXCEPT !.minute = (10 * ev.minute + DigitValue(t[ch])) % 256]
      /\ fcn = "Second" => ev' = [ev EXCEPT !.second =
           (IF t[ch] \in {":"} THEN ev.second ELSE 10 * ev.second + DigitValue(t[ch])) % 256]
      /\ fcn = "Msecond" => ev' = [ev EXCEPT !.msecond =
           IF t[ch] \in {"."} THEN ev.msecond ELSE 10 * ev.msecond + DigitValue(t[ch])]
      /\ fcn = "Event" => ev' = [ev EXCEPT !.name =
           IF t[ch] \in {Comma} THEN ev.name ELSE Append(ev.name, t[ch])]
      /\ fcn \in {"Duration", "Level"} => ev' = ev
  BY <1>1 DEF Call, Minute, Second, Msecond, Duration, Event, Level, Header, Consume,
              Counted, Pushed
<1>4. /\ HeaderValues(t, p, ch + 1, ev')
      /\ ev'.t_connect_id = ev.t_connect_id /\ ev'.kept = ev.kept
  <2>. DEFINE e == ev
              e2 == ev'
              i == ch
  <2>1. /\ fcn = "Minute" => e2 = [e EXCEPT !.minute = (10 * e.minute + DigitValue(t[i])) % 256]
        /\ fcn = "Second" => e2 = [e EXCEPT !.second =
             (IF t[i] \in {":"} THEN e.second ELSE 10 * e.second + DigitValue(t[i])) % 256]
        /\ fcn = "Msecond" => e2 = [e EXCEPT !.msecond =
             IF t[i] \in {"."} THEN e.msecond ELSE 10 * e.msecond + DigitValue(t[i])]
        /\ fcn = "Event" => e2 = [e EXCEPT !.name =
             IF t[i] \in {Comma} THEN e.name ELSE Append(e.name, t[i])]
        /\ fcn \in {"Duration", "Level"} => e2 = e
    BY <1>3
  <2>2. HeaderValues(t, p, i, e) /\ InHeader(t, p, fcn, i) /\ i \in Nat /\ e \in EventData
    BY <1>2
  <2>3. HeaderValues(t, p, i + 1, e2) /\ e2.t_connect_id = e.t_connect_id /\ e2.kept = e.kept
    <3>. HIDE DEF e, e2, i
    <3>. QED BY <2>1, <2>2, HeaderStep
  <2>. QED BY <2>3
<1>. QED BY <1>3, <1>4

(* A call in an event reads its byte of it.                                *)
LEMMA CallReading ==
  ASSUME ParserInv, pc \in {"middle", "last"}, Call, fcn # "EndEvent",
         NEW t \in Seq(Char), t[ch] = text[ch],
         NEW p \in CompleteEvents(t), IsEvent(t, p),
         quotes' = << >> <=> QuoteBefore(t)[ch'] = NoQuote,
         fcn \notin {"Key", "Value", "Mvalue", "EndValue"} => keyTemp = << >> /\ valueTemp = << >>,
         Reading(t, p, fcn, ch, ev, keyTemp, valueTemp)
  PROVE  Reading(t, p, TransitionTable(fcn, TypeChar(t[ch'], quotes')), ch', ev',
                 keyTemp', valueTemp')
<1>1. /\ ch \in Nat /\ ev \in EventData /\ keyTemp \in Seq(Char) /\ valueTemp \in Seq(Char)
      /\ HeaderValues(t, p, ch, ev)
  BY DEF ParserInv, TypeOK, Reading
<1>2. /\ fcn # "Mvalue" => quotes' = << >>
      /\ ch' = IF fcn \in {"EndValue", "EndEvent"} THEN ch ELSE ch + 1
  BY CallFacts
<1>. DEFINE g == TransitionTable(fcn, TypeChar(t[ch'], quotes'))
<1>3. CASE InHeader(t, p, fcn, ch) /\ FieldValues(t, {}, ev)
  <2>1. /\ HeaderValues(t, p, ch', ev')
        /\ ev'.t_connect_id = ev.t_connect_id /\ ev'.kept = ev.kept
        /\ ch' = ch + 1 /\ keyTemp' = << >> /\ valueTemp' = << >>
    <3>1. fcn \notin {"Key", "Value", "Mvalue", "EndValue"}
      BY <1>3 DEF InHeader
    <3>. QED BY <1>1, <1>3, <3>1, CallHeader
  <2>2. FieldValues(t, {}, ev')
    BY <1>3, <2>1 DEF FieldValues
  <2>3. InHeader(t, p, g, ch') \/ (ch' = Header3(t, p)[3] /\ g = "Key")
    <3>1. PICK q : q = quotes'
      OBVIOUS
    <3>2. PICK i \in Nat : i = ch
      BY <1>1
    <3>3. PICK f : f = fcn
      OBVIOUS
    <3>4. InHeader(t, p, f, i) /\ (q = << >> <=> QuoteBefore(t)[i + 1] = NoQuote)
      BY <1>3, <2>1, <3>1, <3>2, <3>3
    <3>5. PICK g2 : g2 = TransitionTable(f, TypeChar(t[i + 1], q))
      OBVIOUS
    <3>6. InHeader(t, p, g2, i + 1) \/ (i + 1 = Header3(t, p)[3] /\ g2 = "Key")
      BY <3>4, <3>5, HeaderFcn
    <3>7. g = g2
      BY <2>1, <3>1, <3>2, <3>3, <3>5
    <3>. HIDE DEF g
    <3>. QED BY <2>1, <3>2, <3>6, <3>7
  <2>. HIDE DEF g
  <2>4. CASE InHeader(t, p, g, ch')
    BY <2>1, <2>2, <2>4 DEF Reading, g
  <2>5. CASE ch' = Header3(t, p)[3] /\ g = "Key"
    <3>1. Header3(t, p)[3] \in Commas(t, p) /\ Header3(t, p)[3] \in Nat
      BY HeaderFacts
    <3>2. PICK f \in PropertyFields(t, p) : f[1] = Header3(t, p)[3] + 1
      BY <3>1, FieldFrom
    <3>3. InProperty(t, f, "Key", Header3(t, p)[3], << >>, << >>)
      BY <3>1, <3>2, FieldBegins
    <3>4. FieldsBefore(t, p, f) = {}
      BY <3>2, FieldsBehind
    <3>. QED BY <2>1, <2>2, <2>5, <3>3, <3>4 DEF Reading, g
  <2>. QED BY <2>3, <2>4, <2>5
<1>4. CASE \E f \in PropertyFields(t, p) :
             /\ InProperty(t, f, fcn, ch, keyTemp, valueTemp)
             /\ FieldValues(t, FieldsBefore(t, p, f), ev)
  <2>1. PICK f \in PropertyFields(t, p) :
             /\ InProperty(t, f, fcn, ch, keyTemp, valueTemp)
             /\ FieldValues(t, FieldsBefore(t, p, f), ev)
    BY <1>4
  <2>2. ch >= Header3(t, p)[2] /\ ch + 1 >= Header3(t, p)[2]
    <3>1. PICK f1, b, f2, p2 \in Nat : FieldAt(t, p, f, f1, b, f2, p2)
      BY FieldPlaces
    <3>2. /\ f[1] = f1 /\ f[2] = f2 /\ EqualSign(t, f) = b
          /\ Header3(t, p)[3] < f1 /\ f1 < b /\ b <= f2
      BY <3>1 DEF FieldAt
    <3>3. f1 - 1 <= ch
      BY <1>1, <2>1, <3>2 DEF InProperty
    <3>4. PICK c2 \in Nat, c3 \in Nat :
             c2 = Header3(t, p)[2] /\ c3 = Header3(t, p)[3] /\ c2 + 1 < c3
      BY HeaderFacts
    <3>. QED BY <1>1, <3>2, <3>3, <3>4
  <2>3. ASSUME ev'.minute = ev.minute, ev'.second = ev.second, ev'.msecond = ev.msecond,
               ev'.name = ev.name
        PROVE  HeaderValues(t, p, ch', ev')
    <3>1. PICK i \in Nat, j \in Nat : i = ch /\ j = ch'
      BY <1>1, <1>2
    <3>2. HeaderValues(t, p, j, ev')
      <4>1. i >= Header3(t, p)[2] /\ j >= Header3(t, p)[2] /\ HeaderValues(t, p, i, ev)
        BY <1>1, <1>2, <2>2, <3>1
      <4>. QED BY <2>3, <4>1, HeaderKept
    <3>. QED BY <3>1, <3>2
  <2>4. CASE fcn = "Key"
    <3>1. /\ ch' = ch + 1 /\ ev' = ev /\ valueTemp' = valueTemp
          /\ keyTemp' = IF t[ch] \in {Comma} THEN keyTemp ELSE Append(keyTemp, t[ch])
      BY <2>4 DEF Call, Key, Consume, Pushed
    <3>2. InProperty(t, f, g, ch', keyTemp', valueTemp')
      BY <1>1, <2>1, <2>4, <3>1, KeyStep
    <3>. QED BY <2>1, <2>3, <3>1, <3>2 DEF Reading
  <2>5. CASE fcn = "Value"
    <3>1. /\ ch' = ch + 1 /\ ev' = ev /\ keyTemp' = keyTemp
          /\ valueTemp' = IF t[ch] \in {"=", Return} THEN valueTemp ELSE Append(valueTemp, t[ch])
      BY <2>5 DEF Call, Value, Consume, Pushed
    <3>2. InProperty(t, f, g, ch', keyTemp', valueTemp')
      BY <1>1, <1>2, <2>1, <2>5, <3>1, ValueStep
    <3>. QED BY <2>1, <2>3, <3>1, <3>2 DEF Reading
  <2>6. CASE fcn = "Mvalue"
    <3>1. /\ ch' = ch + 1 /\ keyTemp' = keyTemp
          /\ ev' = IF text[ch] = NewLine THEN [ev EXCEPT !.count_lines = ev.count_lines + 1] ELSE ev
          /\ valueTemp' = Append(valueTemp, t[ch])
      BY <2>6 DEF Call, Mvalue, Consume
    <3>2. InProperty(t, f, g, ch', keyTemp', valueTemp')
      BY <1>1, <2>1, <2>6, <3>1, MvalueStep
    <3>3. /\ ev'.minute = ev.minute /\ ev'.second = ev.second /\ ev'.msecond = ev.msecond
          /\ ev'.name = ev.name /\ ev'.t_connect_id = ev.t_connect_id /\ ev'.kept = ev.kept
      BY <1>1, <3>1 DEF EventData
    <3>4. FieldValues(t, FieldsBefore(t, p, f), ev')
      BY <2>1, <3>3 DEF FieldValues
    <3>. HIDE DEF g
    <3>. QED BY <2>3, <3>2, <3>3, <3>4 DEF Reading, g
  <2>7. CASE fcn = "EndValue"
    <3>1. /\ ch' = ch /\ keyTemp' = << >> /\ valueTemp' = << >>
          /\ ev' = WithValue(ev, keyTemp, valueTemp)
      BY <2>7 DEF Call, EndValue, WithValue
    <3>2. NextField(t, p, g, ch', ev')
      BY <1>1, <2>1, <2>7, <3>1, EndValueStep
    <3>3. ev'.minute = ev.minute /\ ev'.second = ev.second /\ ev'.msecond = ev.msecond
          /\ ev'.name = ev.name
      BY <1>1, <3>1 DEF WithValue, EventData
    <3>. HIDE DEF g
    <3>. QED BY <2>3, <3>1, <3>2, <3>3 DEF Reading, NextField, g
  <2>. QED BY <2>1, <2>4, <2>5, <2>6, <2>7 DEF InProperty
<1>. QED BY <1>3, <1>4 DEF Reading

(* In an acceptable event neither Error nor stoll throws.                  *)
LEMMA ReadingGoesOn ==
  ASSUME NEW t \in Seq(Char), NEW p \in CompleteEvents(t), Acceptable(t, p),
         NEW g, NEW i, NEW e, NEW key, NEW value, Reading(t, p, g, i, e, key, value)
  PROVE  /\ g # "Error" /\ g # "Start"
         /\ g = "EndValue" /\ key = KeyName["t_connect_id"] => Numeral(value) # << >>
<1>1. g # "Error" /\ g # "Start"
  BY DEF Reading, InHeader, InProperty
<1>2. ASSUME g = "EndValue"
      PROVE  key = KeyName["t_connect_id"] => Numeral(value) # << >>
  <2>1. PICK f \in PropertyFields(t, p) : InProperty(t, f, "EndValue", i, key, value)
    BY <1>2 DEF Reading, InHeader
  <2>2. key = PropertyName(t, f) /\ value = PropertyValue(t, f)
    BY <2>1, FieldEnds DEF Acceptable
  <2>. QED BY <2>2 DEF Acceptable
<1>. QED BY <1>1, <1>2

-----------------------------------------------------------------------------
(* The inductive invariant of the events read                              *)

(* The text that will be there when the file is written to its end.        *)
Extends(t) ==
  /\ t \in Seq(Char)
  /\ Len(text) <= Len(t)
  /\ \A i \in DOMAIN text : t[i] = text[i]

(* Where the parser stands in the text when it begins, ends or stops.      *)
ReadInText ==
  /\ ch <= Len(text) + 1
  /\ pc = "open" => fcn = "Start"
  /\ pc = "done" => ch = pos + 1 /\ (bom => pos = Len(text))
  /\ pc = "terminated" => ch \in DOMAIN text /\ fcn # "Start"

(* Between two chunks the function called last is one that consumed.       *)
ConsumedLast ==
  pc \in {"open", "read", "first", "rows"} => fcn \notin {"EndValue", "EndEvent", "Error"}

(* A quotation and its line breaks belong to Mvalue.                       *)
ChosenByMark ==
  pc \in {"middle", "last"} =>
    /\ text[ch] \in QuoteMarks => fcn \in {"Mvalue", "Error"}
    /\ text[ch] = NewLine /\ fcn = "Mvalue" => quotes # << >>

(* The temporary members are empty in a header and behind an event.        *)
NothingKept ==
  fcn \notin {"Key", "Value", "Mvalue", "EndValue", "Error"} => keyTemp = << >> /\ valueTemp = << >>

(* What holds of the functions, whatever the text.                         *)
CallsInv == ReadInText /\ ConsumedLast /\ ChosenByMark /\ NothingKept

(* The stack of quotes is the quotation that is open in the text.          *)
QuotesOpen(t) ==
  quotes = IF QuoteBefore(t)[ch] = NoQuote THEN << >> ELSE <<QuoteBefore(t)[ch]>>

(* The last byte whose line the parser has left.                           *)
Behind == IF pc \in {"middle", "last"} /\ fcn = "Start" THEN ch ELSE ch - 1

(* The line under way: it holds no break yet.                              *)
LineUnderWay(t) ==
  LET first == PositionOf(ev.offset_start)
  IN  /\ fcn # "Start" => /\ first \in 1 .. ch /\ LineBegins(t, first)
                          /\ \A i \in first .. ch - 1 : i \notin Breaks(t)
      /\ fcn = "Start" => LineBegins(t, Behind + 1)
      /\ fcn # "Start" /\ (fcn \in {"Minute", "Error"} => pc \in {"read", "first", "rows"})
           => first < ch

(* The events taken are those of the lines left.                           *)
EventsTaken(t) ==
  LET taken == rows \o events
  IN  /\ {Place(taken[k]) : k \in DOMAIN taken} = {p \in CompleteEvents(t) : p[2] + 1 <= Behind}
      /\ \A j, k \in DOMAIN taken : j < k => Place(taken[j])[2] < Place(taken[k])[1]
      /\ \A k \in DOMAIN taken :
           Acceptable(t, Place(taken[k])) => taken[k] = EventAt(t, Place(taken[k]))
      /\ pc \in {"open", "read", "done"} => events = << >>

(* What the end of the buffer was overrun on.                              *)
EmptyLineLeft(t) ==
  pc = "overrun" => ch - 1 \in Breaks(t) /\ LineBegins(t, ch - 1)

(* The function that the byte at ch is for, also between two chunks.       *)
Fcn(t) ==
  IF pc \in {"middle", "last"} THEN fcn ELSE TransitionTable(fcn, TypeChar(t[ch], quotes))

(* In an acceptable event the parser has read what stands before ch.       *)
EventRead(t) ==
  \A p \in CompleteEvents(t) :
    Acceptable(t, p) /\ p[1] <= ch /\ ch <= p[2] + 1 =>
      /\ pc # "terminated"
      /\ fcn # "Start" => Reading(t, p, Fcn(t), ch, ev, keyTemp, valueTemp)

(* What holds of the lines of a text.                                      *)
LinesInv(t) ==
  QuotesOpen(t) /\ LineUnderWay(t) /\ EventsTaken(t) /\ EmptyLineLeft(t) /\ EventRead(t)

(* The invariant of the events read.                                       *)
ReadingInv == CallsInv /\ \A t : Extends(t) => LinesInv(t)

-----------------------------------------------------------------------------
(* A call                                                                  *)

(* A text grows at its end.                                                *)
LEMMA PrefixFacts ==
  ASSUME ParserInv, NEW t \in Seq(Char), IsPrefix(text, t)
  PROVE  Extends(t)
<1>1. text \in Seq(Char)
  BY ParserAssumption DEF ParserInv, TypeOK
<1>2. /\ Len(text) \in Nat /\ Len(t) \in Nat /\ Len(text) <= Len(t)
      /\ SubSeq(text, 1, Len(text)) = SubSeq(t, 1, Len(text))
  BY <1>1, LenProperties DEF IsPrefix
<1>3. /\ \A i \in 1 .. Len(text) : text[i] \in Char
      /\ \A i \in 1 .. Len(text) : t[i] \in Char
  BY <1>1, <1>2, ElementOfSeq
<1>4. ASSUME NEW i \in 1 .. Len(text)
      PROVE  t[i] = text[i]
  <2>1. i \in 1 .. Len(text) - 1 + 1 /\ 1 + i - 1 = i /\ 1 \in Int /\ Len(text) \in Int
    BY <1>2
  <2>2. SubSeq(text, 1, Len(text))[i] = text[1 + i - 1]
    BY <1>3, <2>1, SubSeqProperties
  <2>3. SubSeq(t, 1, Len(text))[i] = t[1 + i - 1]
    BY <1>3, <2>1, SubSeqProperties
  <2>. QED BY <1>2, <2>1, <2>2, <2>3
<1>. QED BY <1>1, <1>2, <1>4, LenProperties DEF Extends

(* The file may have been written to its end.                              *)
LEMMA OwnText ==
  ASSUME ParserInv
  PROVE  Extends(text)
BY ParserAssumption, LenProperties DEF Extends, ParserInv, TypeOK

(* Which bytes of the text the next call is for.                           *)
LEMMA ByteFacts ==
  ASSUME ParserInv, NEW t, Extends(t), QuotesOpen(t), ch \in DOMAIN text
  PROVE  /\ ch \in 1 .. Len(t) /\ ch \in Nat /\ t[ch] = text[ch]
         /\ quotes = << >> <=> QuoteBefore(t)[ch] = NoQuote
         /\ ch \in Breaks(t) <=> text[ch] = NewLine /\ quotes = << >>
         /\ QuoteBefore(t)[ch + 1] = QuoteAfter(QuoteBefore(t)[ch], text[ch])
<1>1. /\ t \in Seq(Char) /\ Len(text) <= Len(t) /\ Len(t) \in Nat /\ Len(text) \in Nat
      /\ DOMAIN text = 1 .. Len(text)
  BY ParserAssumption, LenProperties DEF Extends, ParserInv, TypeOK
<1>2. ch \in 1 .. Len(t) /\ ch \in Nat /\ t[ch] = text[ch]
  BY <1>1 DEF Extends
<1>3. quotes = << >> <=> QuoteBefore(t)[ch] = NoQuote
  BY DEF QuotesOpen
<1>4. ch \in Breaks(t) <=> text[ch] = NewLine /\ quotes = << >>
  BY <1>1, <1>2, <1>3, SeparatorFacts DEF Breaks
<1>5. QuoteBefore(t)[ch + 1] = QuoteAfter(QuoteBefore(t)[ch], t[ch])
  BY <1>1, <1>2, QuotesOfText
<1>. QED BY <1>2, <1>3, <1>4, <1>5

(* The functions of a line break, and the quotation after a call.          *)
LEMMA CallText ==
  ASSUME ParserInv, CallsInv, pc \in {"middle", "last"}, Call,
         NEW t, Extends(t), QuotesOpen(t)
  PROVE  /\ ch \in 1 .. Len(t) /\ ch \in Nat /\ t[ch] = text[ch]
         /\ ch \in Breaks(t) => fcn \in {"EndValue", "EndEvent", "Start"}
         /\ fcn \in {"EndEvent", "Start"} => ch \in Breaks(t)
         /\ quotes' = IF QuoteBefore(t)[ch'] = NoQuote THEN << >> ELSE <<QuoteBefore(t)[ch']>>
<1>1. /\ ch \in DOMAIN text /\ fcn # "Error"
      /\ ch' = IF fcn \in {"EndValue", "EndEvent"} THEN ch ELSE ch + 1
      /\ fcn # "Mvalue" => quotes = << >> /\ quotes' = << >>
  BY CallFacts
<1>2. /\ ch \in 1 .. Len(t) /\ ch \in Nat /\ t[ch] = text[ch]
      /\ quotes = << >> <=> QuoteBefore(t)[ch] = NoQuote
      /\ ch \in Breaks(t) <=> text[ch] = NewLine /\ quotes = << >>
      /\ QuoteBefore(t)[ch + 1] = QuoteAfter(QuoteBefore(t)[ch], text[ch])
  BY <1>1, ByteFacts
<1>3. ch \in Breaks(t) => fcn \in {"EndValue", "EndEvent", "Start"}
  BY <1>1, <1>2 DEF ParserInv, ChosenByByte, CallsInv, ChosenByMark
<1>4. fcn \in {"EndEvent", "Start"} => ch \in Breaks(t)
  BY <1>1, <1>2 DEF ParserInv, ChosenByByte
<1>5. quotes' = IF QuoteBefore(t)[ch'] = NoQuote THEN << >> ELSE <<QuoteBefore(t)[ch']>>
  <2>1. CASE fcn = "Mvalue"
    <3>1. /\ ch' = ch + 1
          /\ quotes' = IF text[ch] \notin QuoteMarks THEN quotes
                       ELSE IF quotes = << >> THEN <<text[ch]>>
                       ELSE IF quotes[Len(quotes)] = text[ch]
                       THEN SubSeq(quotes, 1, Len(quotes) - 1) ELSE quotes
      BY <1>1, <2>1 DEF Call, Mvalue
    <3>. DEFINE open == QuoteBefore(t)[ch]
                next == QuoteBefore(t)[ch']
    <3>2. next = QuoteAfter(open, text[ch])
      BY <1>2, <3>1
    <3>3. quotes = IF open = NoQuote THEN << >> ELSE <<open>>
      BY DEF QuotesOpen
    <3>4. NoQuote \notin QuoteMarks
      BY DEF NoQuote, QuoteMarks
    <3>5. \A x : SubSeq(<<x>>, 1, Len(<<x>>) - 1) = << >> /\ <<x>>[Len(<<x>>)] = x
      <4>. TAKE x
      <4>1. Len(<<x>>) = 1
        OBVIOUS
      <4>2. SubSeq(<<x>>, 1, 0) = << >>
        BY SubSeqEmpty
      <4>. QED BY <4>1, <4>2
    <3>6. open \in QuoteMarks \cup {NoQuote}
      BY <1>2, QuotesOfText, LenProperties DEF Extends
    <3>. HIDE DEF open, next
    <3>7. quotes' = IF next = NoQuote THEN << >> ELSE <<next>>
      <4>1. CASE text[ch] \notin QuoteMarks
        <5>1. quotes' = quotes
          BY <3>1, <4>1
        <5>2. next = open
          BY <3>2, <3>6, <4>1 DEF QuoteAfter
        <5>. QED BY <3>3, <5>1, <5>2
      <4>2. CASE text[ch] \in QuoteMarks /\ open = NoQuote
        <5>1. quotes' = <<text[ch]>>
          BY <3>1, <3>3, <4>2
        <5>2. next = text[ch]
          BY <3>2, <4>2 DEF QuoteAfter
        <5>. QED BY <3>4, <4>2, <5>1, <5>2
      <4>3. CASE text[ch] \in QuoteMarks /\ open # NoQuote
        <5>1. quotes = <<open>> /\ quotes # << >>
          BY <3>3, <4>3
        <5>2. quotes' = IF open = text[ch] THEN << >> ELSE quotes
          BY <3>1, <3>5, <4>3, <5>1
        <5>3. next = IF text[ch] = open THEN NoQuote ELSE open
          BY <3>2, <4>3 DEF QuoteAfter
        <5>. QED BY <4>3, <5>1, <5>2, <5>3
      <4>. QED BY <4>1, <4>2, <4>3
    <3>. QED BY <3>7 DEF next
  <2>2. CASE fcn # "Mvalue"
    <3>1. text[ch] \notin QuoteMarks
      BY <1>1, <2>2 DEF CallsInv, ChosenByMark
    <3>2. QuoteBefore(t)[ch'] = NoQuote
      BY <1>1, <1>2, <2>2, <3>1 DEF QuoteAfter
    <3>. QED BY <1>1, <2>2, <3>2
  <2>. QED BY <2>1, <2>2
<1>. QED BY <1>2, <1>3, <1>4, <1>5

(* A call keeps what it says of the functions.                             *)
LEMMA CallKeepsCalls ==
  ASSUME ParserInv, CallsInv, pc \in {"middle", "last"}, Call,
         UNCHANGED <<fileVars, pos, end, rows>>,
         \/ Transit /\ ch' <= end /\ pc' = (IF ch' = end THEN "last" ELSE "middle")
         \/ pc' = "rows" /\ UNCHANGED fcn /\ ch' = end + 1
  PROVE  CallsInv'
<1>1. /\ ch \in DOMAIN text /\ fcn # "Error" /\ fcn \in States
      /\ ch' = IF fcn \in {"EndValue", "EndEvent"} THEN ch ELSE ch + 1
      /\ fcn # "Mvalue" => quotes = << >> /\ quotes' = << >>
  BY CallFacts DEF ParserInv, TypeOK
<1>2. /\ Len(text) \in Nat /\ end \in 0 .. Len(text) /\ ch \in Nat /\ ch <= end
      /\ text' = text /\ end' = end /\ pos' = pos /\ bom' = bom
  BY ParserAssumption, LenProperties DEF ParserInv, TypeOK, ChunkInText, fileVars
<1>3. ReadInText'
  BY <1>1, <1>2 DEF ReadInText
<1>4. ConsumedLast'
  <2>1. CASE pc' = "rows"
    <3>1. fcn' = fcn /\ ch' = ch + 1
      BY <1>1, <1>2, <2>1
    <3>. QED BY <1>1, <1>2, <2>1, <3>1 DEF ConsumedLast
  <2>. QED BY <2>1 DEF ConsumedLast
<1>5. fcn \notin {"Key", "Value", "Mvalue", "EndValue"} => keyTemp' = << >> /\ valueTemp' = << >>
  <2>1. fcn \notin {"Key", "Value", "Mvalue", "EndValue"} => keyTemp = << >> /\ valueTemp = << >>
    BY <1>1 DEF CallsInv, NothingKept
  <2>2. fcn \notin {"Key", "Value", "Mvalue", "EndValue"} =>
          keyTemp' = keyTemp /\ valueTemp' = valueTemp
    BY DEF Call, Start, Minute, Second, Msecond, Duration, Event, Level, Header, EndEvent
  <2>. QED BY <2>1, <2>2
<1>6. fcn = "EndValue" => keyTemp' = << >> /\ valueTemp' = << >>
  BY DEF Call, EndValue
<1>7. CASE Transit /\ pc' \in {"middle", "last"}
  <2>. DEFINE type == TypeChar(text[ch'], quotes')
  <2>1. fcn' = TransitionTable(fcn, type) /\ type \in Types
    BY <1>7, ByteTypes DEF Transit
  <2>2. /\ text[ch'] \in QuoteMarks => type = "Quote"
        /\ text[ch'] = NewLine => type = IF quotes' = << >> THEN "NewLine" ELSE "NewLineInQ"
    BY ByteTypes
  <2>. HIDE DEF type
  <2>3. /\ type = "Quote" => fcn' \in {"Mvalue", "Error"}
        /\ type = "NewLine" => fcn' # "Mvalue"
        /\ fcn \in {"Key", "Value", "Mvalue"} =>
             fcn' \in {"Key", "Value", "Mvalue", "EndValue", "Error"}
    BY <1>1, <2>1 DEF TransitionTable, PropertyTable, HeaderTable, States, Types
  <2>4. ChosenByMark'
    BY <1>2, <2>2, <2>3 DEF ChosenByMark
  <2>5. NothingKept'
    BY <1>5, <1>6, <2>3 DEF NothingKept
  <2>. QED BY <1>3, <1>4, <2>4, <2>5 DEF CallsInv
<1>8. CASE pc' = "rows" /\ fcn' = fcn
  <2>1. ChosenByMark'
    BY <1>8 DEF ChosenByMark
  <2>2. NothingKept'
    BY <1>5, <1>8 DEF NothingKept
  <2>. QED BY <1>3, <1>4, <2>1, <2>2 DEF CallsInv
<1>. QED BY <1>7, <1>8

(* What a call and the rest of its step do to the line under way.          *)
LEMMA CallLine ==
  ASSUME ParserInv, CallsInv, pc \in {"middle", "last"}, Call,
         UNCHANGED <<fileVars, pos, end, rows>>,
         \/ Transit /\ ch' <= end /\ pc' = (IF ch' = end THEN "last" ELSE "middle")
         \/ pc' = "rows" /\ UNCHANGED fcn /\ ch' = end + 1,
         NEW t, Extends(t), LinesInv(t)
  PROVE  /\ LineUnderWay(t)'
         /\ Behind' = IF fcn \in {"EndEvent", "Start"} THEN ch ELSE ch' - 1
         /\ fcn' = "Start" => fcn \in {"EndEvent", "Start"}
         /\ pc' # "rows" => (fcn' = "Start" <=> fcn = "EndEvent")
         /\ fcn = "EndEvent" => pc' # "rows"
<1>1. /\ ch \in DOMAIN text /\ fcn # "Error" /\ fcn \in States
      /\ ch' = IF fcn \in {"EndValue", "EndEvent"} THEN ch ELSE ch + 1
      /\ offset' = OffsetOf(ch')
      /\ fcn # "Mvalue" => quotes = << >> /\ quotes' = << >>
  BY CallFacts DEF ParserInv, TypeOK
<1>2. /\ ch \in 1 .. Len(t) /\ ch \in Nat
      /\ ch \in Breaks(t) => fcn \in {"EndValue", "EndEvent", "Start"}
      /\ fcn \in {"EndEvent", "Start"} => ch \in Breaks(t)
  BY CallText DEF LinesInv
<1>3. end \in Nat /\ ch <= end
  BY ParserAssumption, LenProperties DEF ParserInv, TypeOK, ChunkInText
<1>4. Transit => (fcn' = "Start" <=> fcn = "EndEvent")
  <2>1. Transit => /\ fcn' = "Start" => fcn = "EndEvent"
                   /\ fcn = "EndEvent" /\ text[ch'] = NewLine => fcn' = "Start"
    BY <1>1, TransitFacts
  <2>2. fcn = "EndEvent" => text[ch'] = NewLine
    BY <1>1 DEF ParserInv, ChosenByByte
  <2>. QED BY <2>1, <2>2
<1>5. /\ pc' # "rows" => (fcn' = "Start" <=> fcn = "EndEvent")
      /\ fcn = "EndEvent" => pc' # "rows"
      /\ fcn' = "Start" => fcn \in {"EndEvent", "Start"}
      /\ pc' # "rows" => pc' \in {"middle", "last"}
      /\ pc' = "rows" => fcn' = fcn
  BY <1>1, <1>2, <1>3, <1>4
<1>6. Behind' = IF fcn \in {"EndEvent", "Start"} THEN ch ELSE ch' - 1
  BY <1>1, <1>2, <1>5 DEF Behind
<1>. DEFINE first == PositionOf(ev.offset_start)
            first2 == PositionOf(ev'.offset_start)
<1>7. CASE fcn = "EndEvent"
  <2>1. fcn' = "Start" /\ LineBegins(t, ch + 1) /\ Behind' + 1 = ch + 1
    BY <1>2, <1>5, <1>6, <1>7 DEF LineBegins
  <2>2. LineBegins(t, Behind' + 1)
    BY <2>1
  <2>. QED BY <1>5, <1>6, <2>1, <2>2 DEF LineUnderWay
<1>8. CASE fcn = "Start"
  <2>1. ch' = ch + 1 /\ first2 = ch + 1
    <3>1. ch' = ch + 1 /\ ev'.offset_start = offset'
      BY <1>1, <1>8 DEF Call, Start, NewEventData
    <3>. QED BY <1>1, <1>2, <3>1 DEF PositionOf, OffsetOf, BomSize
  <2>2. LineBegins(t, ch + 1)
    BY <1>2, <1>8 DEF LineBegins
  <2>3. Behind' + 1 = ch + 1
    BY <1>2, <1>6, <1>8
  <2>4. fcn' # "Start" => fcn' \in {"Minute", "Error"} /\ pc' \in {"middle", "last"}
    <3>1. Transit => fcn' \in {"Minute", "Error"}
      BY <1>8 DEF Transit, TransitionTable, HeaderTable
    <3>. QED BY <1>5, <1>8, <3>1
  <2>5. LineBegins(t, Behind' + 1)
    BY <2>2, <2>3
  <2>6. /\ first2 \in 1 .. ch' /\ LineBegins(t, first2)
        /\ \A i \in first2 .. ch' - 1 : i \notin Breaks(t)
    BY <1>2, <2>1, <2>2
  <2>7. LineUnderWay(t)'
    BY <2>4, <2>5, <2>6 DEF LineUnderWay
  <2>. QED BY <1>5, <1>6, <2>7
<1>9. CASE fcn \notin {"Start", "EndEvent"}
  <2>1. first2 = first
    <3>1. ev \in EventData
      BY DEF ParserInv, TypeOK
    <3>2. ev'.offset_start = ev.offset_start
      BY ZenonT(30), <1>1, <1>9, <3>1
         DEF Call, Header, Minute, Second, Msecond, Duration, Event, Level, Key, Value,
             EndValue, Mvalue, EventData
    <3>. QED BY <3>2
  <2>2. /\ first \in 1 .. ch /\ LineBegins(t, first)
        /\ \A i \in first .. ch - 1 : i \notin Breaks(t)
        /\ fcn = "EndValue" => first < ch
    BY <1>9 DEF LinesInv, LineUnderWay
  <2>. HIDE DEF first, first2
  <2>3. fcn' # "Start"
    BY <1>5, <1>9
  <2>4. /\ first \in 1 .. ch' /\ \A i \in first .. ch' - 1 : i \notin Breaks(t)
        /\ first < ch'
    <3>1. CASE fcn = "EndValue"
      BY <1>1, <2>2, <3>1
    <3>2. CASE fcn # "EndValue"
      <4>1. ch' = ch + 1 /\ ch \notin Breaks(t)
        BY <1>1, <1>2, <1>9, <3>2
      <4>2. \A i \in first .. ch : i = ch \/ i \in first .. ch - 1
        BY <1>2, <2>2
      <4>. QED BY <1>2, <2>2, <4>1, <4>2
    <3>. QED BY <3>1, <3>2
  <2>5. LineUnderWay(t)'
    BY <2>1, <2>2, <2>3, <2>4 DEF LineUnderWay, first, first2
  <2>. QED BY <1>5, <1>6, <2>5
<1>. QED BY <1>7, <1>8, <1>9

-----------------------------------------------------------------------------
(* The event that a call ends                                              *)

(* The line under way, ended by a break, is an event.                      *)
LEMMA LineEnds ==
  ASSUME NEW t \in Seq(Char), NEW first \in Nat, NEW b \in Nat, first \in 1 .. b,
         LineBegins(t, first), b \in Breaks(t), \A i \in first .. b - 1 : i \notin Breaks(t)
  PROVE  /\ <<first, b - 1>> \in Lines(t)
         /\ first < b => <<first, b - 1>> \in CompleteEvents(t)
         /\ \A p \in CompleteEvents(t) :
              /\ p[2] + 1 = b => p = <<first, b - 1>>
              /\ p[2] + 1 < b => p[2] < first
<1>. DEFINE s == <<first, b - 1>>
<1>1. b \in 1 .. Len(t) /\ Len(t) \in Nat
  BY LenProperties, SeparatorFacts DEF Breaks
<1>2. s[1] = first /\ s[2] = b - 1 /\ s[2] + 1 = b /\ s = <<s[1], s[2]>>
  OBVIOUS
<1>. HIDE DEF s
<1>3. s \in Lines(t)
  <2>1. s[1] \in 1 .. Len(t) /\ s[2] \in 0 .. Len(t) - 1 /\ s[1] <= s[2] + 1
    BY <1>1, <1>2
  <2>. QED BY <1>2, <2>1, LineFacts
<1>4. first < b => s \in CompleteEvents(t)
  BY <1>1, <1>2, <1>3, LineFacts
<1>5. ASSUME NEW p \in CompleteEvents(t)
      PROVE  /\ p[2] + 1 = b => p = s
             /\ p[2] + 1 < b => p[2] < first
  <2>1. /\ p \in Lines(t) /\ p = <<p[1], p[2]>> /\ p[1] \in Nat /\ p[2] \in Nat
        /\ p[1] <= p[2] /\ p[2] + 1 \in Breaks(t)
    BY LineFacts
  <2>2. ASSUME p[2] + 1 = b PROVE p = s
    <3>1. b \in p[1] .. p[2] + 1
      BY <2>1, <2>2
    <3>2. p[1] = first
      BY <2>1, <3>1, LinesApart
    <3>. QED BY <1>2, <2>1, <2>2, <3>2 DEF s
  <2>3. ASSUME p[2] + 1 < b PROVE p[2] < first
    <3>1. p[2] + 1 \notin first .. b - 1
      BY <2>1
    <3>. QED BY <2>1, <2>3, <3>1
  <2>. QED BY <2>2, <2>3
<1>. QED BY <1>3, <1>4, <1>5 DEF s

(* At its end, what has been read of an acceptable event is its row.       *)
LEMMA EndedRow ==
  ASSUME ParserInv, fcn = "EndEvent", ch \in DOMAIN text,
         NEW t, Extends(t), NEW p \in CompleteEvents(t), Acceptable(t, p),
         PositionOf(ev.offset_start) = p[1], ch = p[2] + 1,
         Reading(t, p, fcn, ch, ev, keyTemp, valueTemp)
  PROVE  [ev EXCEPT !.offset_end = offset] = EventAt(t, p)
<1>. DEFINE c == Header3(t, p)
            m == TimeOf(t, p)
            e == [ev EXCEPT !.offset_end = offset]
            r == EventAt(t, p)
<1>1. /\ ev \in EventData /\ offset = OffsetOf(ch) /\ ch \in Nat /\ t \in Seq(Char)
      /\ Begun(ev, ch)
  BY DEF ParserInv, TypeOK, ChunkInText, EventUnderWay, Extends
<1>2. /\ HeaderValues(t, p, ch, ev) /\ FieldValues(t, PropertyFields(t, p), ev)
  BY DEF Reading, InHeader, InProperty
<1>3. /\ ev.minute = NumberEnding(t)[m[1] - 1] % 256
      /\ ev.second = NumberEnding(t)[m[2] - 1] % 256
      /\ ev.msecond = NumberEnding(t)[m[3] - 1]
      /\ ev.name = SubSeq(t, c[1] + 1, c[2] - 1)
  <2>1. PICK p1, m1, m2, m3, c1, c2, c3, p2 \in Nat :
          HeaderAt(t, p, p1, m1, m2, m3, c1, c2, c3, p2)
    BY <1>1, HeaderPlaces DEF Acceptable
  <2>2. /\ p[2] = p2
        /\ m[1] = m1 /\ m[2] = m2 /\ m[3] = m3 /\ c[1] = c1 /\ c[2] = c2 /\ c[3] = c3
        /\ m1 + 1 < m2 /\ m2 + 1 < m3 /\ m3 + 1 < c1 /\ c1 + 1 < c2 /\ c2 + 1 < c3 /\ c3 <= p2
    BY <2>1 DEF HeaderAt
  <2>3. /\ UpTo(ch, m1) = m1 /\ UpTo(ch, m2) = m2 /\ UpTo(ch, m3) = m3 /\ UpTo(ch, c2) = c2
        /\ ~(ch <= m1) /\ ~(ch <= m2)
    BY <1>1, <2>2 DEF UpTo
  <2>. QED BY <1>2, <2>2, <2>3 DEF HeaderValues
<1>4. /\ ev.t_connect_id =
           Numeral(LastValue(t, PropertyFields(t, p), KeyName["t_connect_id"], Seq(Char)))
      /\ ev.kept = KeptOf(t, PropertyFields(t, p))
  BY <1>2 DEF FieldValues
<1>5. ev.count_lines = 1 + Cardinality({i \in p[1] .. p[2] : t[i] = NewLine})
  <2>1. /\ ev.count_lines = 1 + Cardinality(LinesIn(p[1], ch - 1))
        /\ p[1] \in 1 .. ch
    BY <1>1 DEF Begun
  <2>2. p[2] \in Nat /\ ch - 1 = p[2] /\ p[1] \in Nat
    BY <2>1, LineFacts, <1>1
  <2>3. \A i \in p[1] .. p[2] : text[i] = t[i]
    <3>1. Len(text) \in Nat /\ DOMAIN text = 1 .. Len(text)
      BY ParserAssumption, LenProperties DEF ParserInv, TypeOK
    <3>2. \A i \in p[1] .. p[2] : i \in DOMAIN text
      BY <2>1, <2>2, <3>1
    <3>. QED BY <3>2 DEF Extends
  <2>4. LinesIn(p[1], ch - 1) = {i \in p[1] .. p[2] : t[i] = NewLine}
    BY <2>2, <2>3 DEF LinesIn
  <2>. QED BY <2>1, <2>4
<1>6. ev.offset_start = OffsetOf(p[1]) /\ offset = OffsetOf(p[2] + 1)
  <2>1. ev.offset_start \in Nat
    BY <1>1, EventFields
  <2>. QED BY <1>1, <2>1 DEF PositionOf, OffsetOf, BomSize
<1>7. ev = [offset_start |-> ev.offset_start, offset_end |-> ev.offset_end,
            count_lines |-> ev.count_lines, minute |-> ev.minute, second |-> ev.second,
            msecond |-> ev.msecond, name |-> ev.name, t_connect_id |-> ev.t_connect_id,
            kept |-> ev.kept]
  BY <1>1 DEF EventData
<1>8. e = [offset_start |-> ev.offset_start, offset_end |-> offset,
           count_lines |-> ev.count_lines, minute |-> ev.minute, second |-> ev.second,
           msecond |-> ev.msecond, name |-> ev.name, t_connect_id |-> ev.t_connect_id,
           kept |-> ev.kept]
  BY <1>7
<1>9. r = [offset_start |-> OffsetOf(p[1]), offset_end |-> OffsetOf(p[2] + 1),
           count_lines |-> 1 + Cardinality({i \in p[1] .. p[2] : t[i] = NewLine}),
           minute  |-> NumberEnding(t)[m[1] - 1] % 256,
           second  |-> NumberEnding(t)[m[2] - 1] % 256,
           msecond |-> NumberEnding(t)[m[3] - 1],
           name    |-> SubSeq(t, c[1] + 1, c[2] - 1),
           t_connect_id |->
             Numeral(LastValue(t, PropertyFields(t, p), KeyName["t_connect_id"], Seq(Char))),
           kept |-> KeptOf(t, PropertyFields(t, p))]
  BY DEF EventAt
<1>. HIDE DEF c, m, e, r
<1>10. e = r
  BY <1>3, <1>4, <1>5, <1>6, <1>8, <1>9
<1>. QED BY <1>10 DEF e, r

-----------------------------------------------------------------------------
(* The events taken                                                        *)

(* A sequence of events, by their places and their order.                  *)
Listed(t, s, last) ==
  /\ {Place(s[k]) : k \in DOMAIN s} = {p \in CompleteEvents(t) : p[2] + 1 <= last}
  /\ \A j, k \in DOMAIN s : j < k => Place(s[j])[2] < Place(s[k])[1]
  /\ \A k \in DOMAIN s : Acceptable(t, Place(s[k])) => s[k] = EventAt(t, Place(s[k]))

(* The event that ends at b is the next of the list.                       *)
LEMMA OneMoreEvent ==
  ASSUME NEW t, NEW s \in Seq(EventData), NEW new \in EventData, NEW b \in Nat,
         Listed(t, s, b - 1), NEW first \in Nat,
         Place(new) = <<first, b - 1>>, Place(new) \in CompleteEvents(t),
         \A p \in CompleteEvents(t) : p[2] \in Nat /\ (p[2] + 1 = b => p = <<first, b - 1>>)
                                      /\ (p[2] + 1 < b => p[2] < first),
         Acceptable(t, Place(new)) => new = EventAt(t, Place(new))
  PROVE  Listed(t, Append(s, new), b)
<1>. DEFINE s2 == Append(s, new)
            n == Len(s)
<1>1. /\ n \in Nat /\ DOMAIN s = 1 .. n /\ DOMAIN s2 = 1 .. n + 1
      /\ \A k \in 1 .. n : s2[k] = s[k]
      /\ s2[n + 1] = new
  <2>1. s2 \in Seq(EventData) /\ Len(s2) = n + 1
    BY AppendProperties
  <2>. QED BY <2>1, AppendProperties, LenProperties
<1>. HIDE DEF s2, n
<1>2. \A k \in 1 .. n + 1 : k \in 1 .. n \/ k = n + 1
  BY <1>1
<1>3. {Place(s2[k]) : k \in DOMAIN s2} = {Place(s[k]) : k \in DOMAIN s} \cup {Place(new)}
  <2>1. \A k \in DOMAIN s2 : Place(s2[k]) \in {Place(s[j]) : j \in DOMAIN s} \cup {Place(new)}
    BY <1>1, <1>2
  <2>2. \A k \in DOMAIN s : k \in DOMAIN s2 /\ s2[k] = s[k]
    BY <1>1
  <2>3. n + 1 \in DOMAIN s2
    BY <1>1
  <2>. QED BY <1>1, <2>1, <2>2, <2>3
<1>4. {p \in CompleteEvents(t) : p[2] + 1 <= b} =
        {p \in CompleteEvents(t) : p[2] + 1 <= b - 1} \cup {Place(new)}
  <2>1. \A p \in CompleteEvents(t) : p[2] + 1 <= b <=> p[2] + 1 <= b - 1 \/ p[2] + 1 = b
    OBVIOUS
  <2>2. Place(new)[2] + 1 = b
    OBVIOUS
  <2>. QED BY <2>1, <2>2
<1>5. ASSUME NEW k \in DOMAIN s
      PROVE  Place(s[k])[2] < first
  <2>1. Place(s[k]) \in CompleteEvents(t) /\ Place(s[k])[2] + 1 <= b - 1
    BY DEF Listed
  <2>2. PICK p \in CompleteEvents(t) : p = Place(s[k])
    BY <2>1
  <2>3. p[2] \in Nat /\ p[2] + 1 < b
    BY <2>1, <2>2
  <2>. QED BY <2>2, <2>3
<1>6. \A j, k \in DOMAIN s2 : j < k => Place(s2[j])[2] < Place(s2[k])[1]
  <2>. SUFFICES ASSUME NEW j \in DOMAIN s2, NEW k \in DOMAIN s2, j < k
                PROVE  Place(s2[j])[2] < Place(s2[k])[1]
    OBVIOUS
  <2>1. j \in DOMAIN s /\ s2[j] = s[j]
    BY <1>1
  <2>2. CASE k = n + 1
    <3>1. Place(s2[k])[1] = first
      BY <1>1, <2>2
    <3>. QED BY <1>5, <2>1, <3>1
  <2>3. CASE k # n + 1
    BY <1>1, <1>2, <2>1, <2>3 DEF Listed
  <2>. QED BY <2>2, <2>3
<1>7. \A k \in DOMAIN s2 : Acceptable(t, Place(s2[k])) => s2[k] = EventAt(t, Place(s2[k]))
  <2>. TAKE k \in DOMAIN s2
  <2>1. CASE k = n + 1
    BY <1>1, <2>1
  <2>2. CASE k # n + 1
    BY <1>1, <1>2, <2>2 DEF Listed
  <2>. QED BY <2>1, <2>2
<1>8. Listed(t, s2, b)
  BY <1>3, <1>4, <1>6, <1>7 DEF Listed
<1>. QED BY <1>8 DEF s2

(* The events taken, as a list.                                            *)
LEMMA ListedFacts ==
  ASSUME NEW t
  PROVE  EventsTaken(t) <=> Listed(t, rows \o events, Behind)
                            /\ (pc \in {"open", "read", "done"} => events = << >>)
BY DEF EventsTaken, Listed

(* The same of the next state.                                             *)
LEMMA ListedFactsNext ==
  ASSUME NEW t
  PROVE  EventsTaken(t)' <=> Listed(t, rows' \o events', Behind')
                            /\ (pc' \in {"open", "read", "done"} => events' = << >>)
BY DEF EventsTaken, Listed

(* Where no line ends the list stays as it is.                             *)
LEMMA SameList ==
  ASSUME NEW t, NEW s, NEW a, NEW b, Listed(t, s, a),
         \A p \in CompleteEvents(t) : p[2] + 1 <= a <=> p[2] + 1 <= b
  PROVE  Listed(t, s, b)
BY DEF Listed

(* A call takes the event whose end it finds, and no other.                *)
LEMMA CallEventsTaken ==
  ASSUME ParserInv, CallsInv, pc \in {"middle", "last"}, Call,
         UNCHANGED <<fileVars, pos, end, rows>>,
         \/ Transit /\ ch' <= end /\ pc' = (IF ch' = end THEN "last" ELSE "middle")
         \/ pc' = "rows" /\ UNCHANGED fcn /\ ch' = end + 1,
         NEW t, Extends(t), LinesInv(t)
  PROVE  EventsTaken(t)'
<1>1. /\ ch \in DOMAIN text
      /\ ch' = IF fcn \in {"EndValue", "EndEvent"} THEN ch ELSE ch + 1
      /\ fcn # "EndEvent" => events' = events
      /\ rows' = rows /\ pc' \notin {"open", "read", "done"}
  BY CallFacts
<1>2. /\ ch \in Nat /\ t \in Seq(Char)
      /\ ch \in Breaks(t) => fcn \in {"EndValue", "EndEvent", "Start"}
      /\ fcn \in {"EndEvent", "Start"} => ch \in Breaks(t)
  BY CallText DEF LinesInv, Extends
<1>3. /\ Behind = IF fcn = "Start" THEN ch ELSE ch - 1
      /\ Behind' = IF fcn \in {"EndEvent", "Start"} THEN ch ELSE ch' - 1
  BY CallLine DEF Behind
<1>4. Listed(t, rows \o events, Behind)
  BY ListedFacts DEF LinesInv
<1>5. \A p \in CompleteEvents(t) : p[2] \in Nat /\ p[2] + 1 \in Breaks(t)
  BY <1>2, LineFacts
<1>6. Listed(t, rows' \o events', Behind')
  <2>1. CASE fcn = "EndEvent"
    <3>. DEFINE new == [ev EXCEPT !.offset_end = offset]
    <3>1. PICK first \in Nat : first = PositionOf(ev.offset_start)
      <4>1. ev \in EventData
        BY DEF ParserInv, TypeOK
      <4>2. PositionOf(ev.offset_start) \in 1 .. ch
        BY <2>1 DEF LinesInv, LineUnderWay
      <4>. QED BY <1>2, <4>2
    <3>2. /\ first \in 1 .. ch /\ first < ch /\ LineBegins(t, first)
          /\ \A i \in first .. ch - 1 : i \notin Breaks(t)
      BY <2>1, <3>1 DEF LinesInv, LineUnderWay
    <3>3. /\ <<first, ch - 1>> \in CompleteEvents(t)
          /\ \A p \in CompleteEvents(t) :
                /\ p[2] + 1 = ch => p = <<first, ch - 1>>
                /\ p[2] + 1 < ch => p[2] < first
      BY <1>2, <2>1, <3>2, LineEnds
    <3>4. events' = Append(events, new)
      BY <2>1 DEF Call, EndEvent
    <3>5. /\ ev \in EventData /\ events \in Seq(EventData) /\ rows \in Seq(EventData)
          /\ offset = OffsetOf(ch) /\ offset \in Nat
      BY DEF ParserInv, TypeOK, ChunkInText
    <3>6. new \in EventData /\ new.offset_start = ev.offset_start /\ new.offset_end = offset
      BY <3>5 DEF EventData
    <3>7. Place(new) = <<first, ch - 1>>
      <4>1. PositionOf(offset) = ch
        BY <1>2, <3>5 DEF PositionOf, OffsetOf, BomSize
      <4>. QED BY <3>1, <3>6, <4>1 DEF Place
    <3>8. ASSUME Acceptable(t, Place(new)) PROVE new = EventAt(t, Place(new))
      <4>. DEFINE p == Place(new)
      <4>1. p \in CompleteEvents(t) /\ p[1] = first /\ p[2] = ch - 1 /\ p[2] + 1 = ch
        BY <1>2, <3>3, <3>7
      <4>2. Acceptable(t, p)
        BY <3>8
      <4>. HIDE DEF p
      <4>3. Reading(t, p, fcn, ch, ev, keyTemp, valueTemp)
        BY <1>2, <2>1, <3>2, <4>1, <4>2 DEF LinesInv, EventRead, Fcn
      <4>4. [ev EXCEPT !.offset_end = offset] = EventAt(t, p)
        BY <1>1, <2>1, <3>1, <4>1, <4>2, <4>3, EndedRow
      <4>. QED BY <4>4 DEF p
    <3>. HIDE DEF new
    <3>9. /\ rows \o Append(events, new) = Append(rows \o events, new)
          /\ rows \o events \in Seq(EventData)
      <4>1. /\ Append(events, new) = events \o <<new>>
            /\ rows \o events \in Seq(EventData)
            /\ <<new>> \in Seq(EventData)
        BY <3>5, <3>6, AppendIsConcat, ConcatProperties
      <4>2. Append(rows \o events, new) = (rows \o events) \o <<new>>
        BY <3>6, <4>1, AppendIsConcat
      <4>. QED BY <3>5, <4>1, <4>2, ConcatAssociative
    <3>10. Listed(t, rows \o events, ch - 1)
      BY <1>3, <1>4, <2>1
    <3>11. Listed(t, Append(rows \o events, new), ch)
      BY <1>2, <1>5, <3>3, <3>6, <3>7, <3>8, <3>9, <3>10, OneMoreEvent
    <3>. QED BY <1>1, <1>3, <2>1, <3>4, <3>9, <3>11
  <2>2. CASE fcn = "Start"
    BY <1>1, <1>3, <1>4, <2>2
  <2>3. CASE fcn \notin {"Start", "EndEvent"}
    <3>1. \A p \in CompleteEvents(t) : p[2] + 1 <= Behind <=> p[2] + 1 <= Behind'
      <4>. TAKE p \in CompleteEvents(t)
      <4>1. CASE fcn = "EndValue"
        BY <1>1, <1>3, <2>3, <4>1
      <4>2. CASE fcn # "EndValue"
        <5>1. p[2] + 1 # ch /\ ch' = ch + 1
          BY <1>1, <1>2, <1>5, <2>3, <4>2
        <5>. QED BY <1>2, <1>3, <1>5, <2>3, <5>1
      <4>. QED BY <4>1, <4>2
    <3>. QED BY <1>1, <1>4, <2>3, <3>1, SameList
  <2>. QED BY <2>1, <2>2, <2>3
<1>. QED BY <1>1, <1>6, ListedFactsNext

(* A call reads on in the events it is in.                                 *)
LEMMA CallEventRead ==
  ASSUME ParserInv, CallsInv, pc \in {"middle", "last"}, Call,
         UNCHANGED <<fileVars, pos, end, rows>>,
         \/ Transit /\ ch' <= end /\ pc' = (IF ch' = end THEN "last" ELSE "middle")
         \/ pc' = "rows" /\ UNCHANGED fcn /\ ch' = end + 1,
         NEW t, Extends(t), LinesInv(t)
  PROVE  EventRead(t)'
<1>1. /\ ch \in DOMAIN text /\ fcn # "Error"
      /\ ch' = IF fcn \in {"EndValue", "EndEvent"} THEN ch ELSE ch + 1
      /\ pc' # "terminated"
      /\ end \in 0 .. Len(text) /\ Len(text) \in Nat /\ DOMAIN text = 1 .. Len(text)
      /\ text' = text
  BY CallFacts, ParserAssumption, LenProperties DEF ParserInv, TypeOK, fileVars
<1>2. /\ ch \in 1 .. Len(t) /\ ch \in Nat /\ t \in Seq(Char) /\ t[ch] = text[ch]
      /\ ch \in Breaks(t) => fcn \in {"EndValue", "EndEvent", "Start"}
      /\ fcn \in {"EndEvent", "Start"} => ch \in Breaks(t)
      /\ quotes' = IF QuoteBefore(t)[ch'] = NoQuote THEN << >> ELSE <<QuoteBefore(t)[ch']>>
  BY CallText DEF LinesInv, Extends
<1>3. quotes' = << >> <=> QuoteBefore(t)[ch'] = NoQuote
  BY <1>2
<1>4. /\ pc' # "rows" => (fcn' = "Start" <=> fcn = "EndEvent")
      /\ fcn = "EndEvent" => pc' # "rows"
  BY CallLine
<1>5. Fcn(t)' = TransitionTable(fcn, TypeChar(t[ch'], quotes'))
  <2>1. CASE pc' = "rows"
    BY <2>1 DEF Fcn
  <2>2. CASE pc' # "rows"
    <3>1. ch' \in DOMAIN text
      BY <1>1, <1>2, <2>2
    <3>2. t[ch'] = text[ch']
      BY <3>1 DEF Extends
    <3>3. pc' \in {"middle", "last"} /\ Transit
      BY <2>2
    <3>. QED BY <3>2, <3>3 DEF Fcn, Transit
  <2>. QED BY <2>1, <2>2
<1>. SUFFICES ASSUME NEW p \in CompleteEvents(t), Acceptable(t, p), p[1] <= ch', ch' <= p[2] + 1,
                     fcn' # "Start"
              PROVE  Reading(t, p, Fcn(t)', ch', ev', keyTemp', valueTemp')
  BY <1>1 DEF EventRead
<1>6. /\ p[1] \in Nat /\ p[2] \in Nat /\ p[1] <= p[2] /\ LineBegins(t, p[1])
      /\ \A i \in p[1] .. p[2] : i \notin Breaks(t)
  BY <1>2, LineFacts
<1>7. CASE p[1] <= ch
  <2>1. fcn # "Start"
    <3>1. ASSUME fcn = "Start" PROVE FALSE
      <4>1. ch' = ch + 1 /\ ch \notin p[1] .. p[2]
        BY <1>1, <1>2, <1>6, <3>1
      <4>. QED BY <1>2, <1>6, <1>7, <4>1
    <3>. QED BY <3>1
  <2>2. fcn # "EndEvent"
    BY <1>4
  <2>3. Reading(t, p, fcn, ch, ev, keyTemp, valueTemp)
    BY <1>1, <1>2, <1>6, <1>7, <2>1 DEF LinesInv, EventRead, Fcn
  <2>4. fcn \notin {"Key", "Value", "Mvalue", "EndValue"} => keyTemp = << >> /\ valueTemp = << >>
    BY <1>1 DEF CallsInv, NothingKept
  <2>5. IsEvent(t, p)
    BY DEF Acceptable
  <2>. QED BY <1>2, <1>3, <1>5, <2>2, <2>3, <2>4, <2>5, CallReading
<1>8. CASE p[1] > ch
  <2>1. p[1] = ch + 1 /\ ch' = ch + 1 /\ p[1] = ch'
    BY <1>1, <1>2, <1>6, <1>8
  <2>2. ch \in Breaks(t)
    BY <1>2, <1>6, <2>1 DEF LineBegins
  <2>3. fcn = "Start"
    BY <1>1, <1>2, <2>1, <2>2
  <2>4. quotes' = << >> /\ QuoteBefore(t)[p[1]] = NoQuote
    BY <1>3, <2>1, <2>3, CallFacts
  <2>5. ev' = [NewEventData EXCEPT !.offset_start = offset']
    BY <2>3 DEF Call, Start
  <2>6. Reading(t, p, TransitionTable("Start", TypeChar(t[p[1]], quotes')), p[1], ev',
                keyTemp', valueTemp')
    BY <1>2, <2>4, <2>5, EventBegins DEF Acceptable
  <2>. QED BY <1>5, <2>1, <2>3, <2>6
<1>. QED BY <1>2, <1>6, <1>7, <1>8, <1>1

-----------------------------------------------------------------------------
(* The other steps                                                         *)

(* What a step at the first byte of a chunk does.                          *)
FirstCall(t) ==
  /\ text' = text /\ rows' = rows /\ events' = events
  /\ keyTemp' = keyTemp /\ valueTemp' = valueTemp /\ quotes' = quotes
  /\ ch \in Nat /\ ch \in 1 .. Len(t) /\ ch' \in 1 .. Len(text) + 1 /\ Len(text) \in Nat
  /\ pc' \in {"overrun", "middle", "last"}
  /\ fcn \in States \ {"EndValue", "EndEvent", "Error"}
  /\ fcn # "Start" => ch' = ch /\ ev' = ev
  /\ fcn = "Start" => /\ ev' = [NewEventData EXCEPT !.offset_start = OffsetOf(ch')]
                      /\ quotes = << >> /\ QuoteBefore(t)[ch'] = NoQuote
                      /\ LineBegins(t, ch) /\ LineBegins(t, ch')
                      /\ ch' = ch \/ (ch' = ch + 1 /\ ch \in Breaks(t))
  /\ pc' = "overrun" => fcn = "Start" /\ fcn' = "Start" /\ ch' = ch + 1
  /\ pc' # "overrun" => Transit /\ t[ch'] = text[ch'] /\ fcn' # "Start"

(* Start skips the line break of an empty line, and nothing else.          *)
LEMMA FirstByteFacts ==
  ASSUME ParserInv, CallsInv, FirstByte, NEW t, Extends(t), LinesInv(t)
  PROVE  FirstCall(t)
<1>1. /\ pc = "first" /\ text' = text /\ rows' = rows /\ events' = events
      /\ keyTemp' = keyTemp /\ valueTemp' = valueTemp /\ quotes' = quotes
  BY DEF FirstByte, fileVars, eventVars, Start
<1>2. /\ ch \in Nat \ {0} /\ end \in 0 .. Len(text) /\ Len(text) \in Nat /\ ch <= end
      /\ DOMAIN text = 1 .. Len(text) /\ offset = OffsetOf(ch) /\ fcn \in States
  BY <1>1, ParserAssumption, LenProperties DEF ParserInv, TypeOK, ChunkInText
<1>3. ch \in DOMAIN text /\ t \in Seq(Char) /\ fcn \notin {"EndValue", "EndEvent", "Error"}
  BY <1>1, <1>2 DEF Extends, CallsInv, ConsumedLast
<1>4. /\ ch \in 1 .. Len(t) /\ t[ch] = text[ch]
      /\ quotes = << >> <=> QuoteBefore(t)[ch] = NoQuote
      /\ ch \in Breaks(t) <=> text[ch] = NewLine /\ quotes = << >>
      /\ QuoteBefore(t)[ch + 1] = QuoteAfter(QuoteBefore(t)[ch], text[ch])
  BY <1>3, ByteFacts DEF LinesInv
<1>5. fcn # "Start" => ch' = ch /\ ev' = ev
  BY DEF FirstByte, eventVars
<1>6. fcn = "Start" => /\ ev' = [NewEventData EXCEPT !.offset_start = OffsetOf(ch')]
                       /\ ch' = ch \/ (ch' = ch + 1 /\ text[ch] = NewLine)
  <2>1. fcn = "Start" => /\ ev' = [NewEventData EXCEPT !.offset_start = offset']
                         /\ \/ ch' = ch + 1 /\ offset' = offset + 1 /\ text[ch] = NewLine
                            \/ ch' = ch /\ offset' = offset
    BY DEF FirstByte, Start, Consume
  <2>2. fcn = "Start" => offset' = OffsetOf(ch')
    BY <1>2, <2>1 DEF OffsetOf, BomSize
  <2>. QED BY <2>1, <2>2
<1>7. ASSUME fcn = "Start"
      PROVE  /\ quotes = << >> /\ QuoteBefore(t)[ch'] = NoQuote
             /\ LineBegins(t, ch) /\ LineBegins(t, ch')
             /\ ch' = ch \/ (ch' = ch + 1 /\ ch \in Breaks(t))
  <2>1. quotes = << >>
    BY <1>7 DEF ParserInv, QuotationsInMvalue
  <2>2. LineBegins(t, ch)
    <3>1. Behind + 1 = ch
      BY <1>1, <1>2 DEF Behind
    <3>. QED BY <1>7, <3>1 DEF LinesInv, LineUnderWay
  <2>3. CASE ch' = ch
    <3>1. QuoteBefore(t)[ch] = NoQuote
      BY <1>4, <2>1
    <3>2. QuoteBefore(t)[ch'] = NoQuote /\ LineBegins(t, ch')
      BY <2>2, <2>3, <3>1
    <3>. QED BY <2>1, <2>2, <2>3, <3>2
  <2>4. CASE ch' = ch + 1 /\ text[ch] = NewLine
    <3>1. ch \in Breaks(t) /\ LineBegins(t, ch + 1)
      BY <1>2, <1>4, <2>1, <2>4 DEF LineBegins
    <3>2. QuoteAfter(NoQuote, NewLine) = NoQuote
      BY DEF QuoteAfter, NoQuote, NewLine, QuoteMarks
    <3>. QED BY <1>4, <2>1, <2>2, <2>4, <3>1, <3>2
  <2>. QED BY <1>6, <1>7, <2>3, <2>4
<1>8. ch' \in 1 .. Len(text) + 1
  BY <1>2, <1>5, <1>6
<1>9. CASE ch' > end
  <2>1. pc' = "overrun" /\ fcn' = fcn
    BY <1>9 DEF FirstByte
  <2>2. fcn = "Start" /\ ch' = ch + 1
    BY <1>2, <1>5, <1>6, <1>9
  <2>. QED BY <1>1, <1>2, <1>3, <1>4, <1>5, <1>6, <1>7, <1>8, <2>1, <2>2 DEF FirstCall
<1>10. CASE ~(ch' > end)
  <2>1. pc' \in {"middle", "last"} /\ Transit
    BY <1>10 DEF FirstByte
  <2>2. ch' \in DOMAIN text
    BY <1>2, <1>8, <1>10
  <2>3. t[ch'] = text[ch']
    BY <2>2 DEF Extends
  <2>4. fcn' # "Start"
    <3>1. quotes' # << >> => fcn = "Mvalue"
      BY <1>1 DEF ParserInv, QuotationsInMvalue
    <3>. QED BY <1>3, <2>1, <3>1, TransitFacts
  <2>. QED BY <1>1, <1>2, <1>3, <1>4, <1>5, <1>6, <1>7, <1>8, <2>1, <2>3, <2>4 DEF FirstCall
<1>. QED BY <1>9, <1>10

(* The first byte of a chunk.                                              *)
LEMMA FirstByteCalls ==
  ASSUME ParserInv, CallsInv, FirstByte, NEW t, Extends(t), LinesInv(t)
  PROVE  CallsInv'
<1>1. FirstCall(t)
  BY FirstByteFacts
<1>2. fcn \notin {"Key", "Value", "Mvalue"} => keyTemp' = << >> /\ valueTemp' = << >>
  BY <1>1 DEF FirstCall, CallsInv, NothingKept
<1>3. ReadInText' /\ ConsumedLast'
  BY <1>1 DEF FirstCall, ReadInText, ConsumedLast
<1>4. CASE pc' = "overrun"
  <2>1. ChosenByMark' /\ fcn = "Start"
    BY <1>1, <1>4 DEF ChosenByMark, FirstCall
  <2>2. NothingKept'
    BY <1>2, <2>1 DEF NothingKept
  <2>. QED BY <1>3, <2>1, <2>2 DEF CallsInv
<1>5. CASE pc' # "overrun"
  <2>. DEFINE type == TypeChar(text[ch'], quotes')
  <2>1. fcn' = TransitionTable(fcn, type) /\ type \in Types
    BY <1>1, <1>5, ByteTypes DEF Transit, FirstCall
  <2>2. /\ text[ch'] \in QuoteMarks => type = "Quote"
        /\ text[ch'] = NewLine => type = IF quotes' = << >> THEN "NewLine" ELSE "NewLineInQ"
    BY ByteTypes
  <2>. HIDE DEF type
  <2>3. fcn \in States /\ text' = text
    BY <1>1 DEF FirstCall
  <2>4. /\ type = "Quote" => fcn' \in {"Mvalue", "Error"}
        /\ type = "NewLine" => fcn' # "Mvalue"
        /\ fcn \in {"Key", "Value", "Mvalue"} =>
             fcn' \in {"Key", "Value", "Mvalue", "EndValue", "Error"}
    BY <2>1, <2>3 DEF TransitionTable, PropertyTable, HeaderTable, States, Types
  <2>5. ChosenByMark'
    BY <2>2, <2>3, <2>4 DEF ChosenByMark
  <2>6. NothingKept'
    BY <1>2, <2>4 DEF NothingKept
  <2>. QED BY <1>3, <2>5, <2>6 DEF CallsInv
<1>. QED BY <1>4, <1>5

(* The first byte of a chunk, and the lines of the text.                   *)
LEMMA FirstByteLines ==
  ASSUME ParserInv, CallsInv, FirstByte, NEW t, Extends(t), LinesInv(t)
  PROVE  LinesInv(t)'
<1>1. FirstCall(t) /\ pc = "first" /\ t \in Seq(Char)
  BY FirstByteFacts DEF FirstByte, Extends
<1>2. /\ ch \in Nat /\ ch' \in Nat /\ Len(t) \in Nat
      /\ Behind = ch - 1 /\ Behind' = ch' - 1
  <2>1. ch \in Nat /\ ch' \in Nat /\ Len(t) \in Nat
    BY <1>1, LenProperties DEF FirstCall
  <2>2. Behind = ch - 1 /\ Behind' = ch' - 1
    BY <1>1 DEF FirstCall, Behind
  <2>. QED BY <2>1, <2>2
<1>3. QuotesOpen(t)'
  <2>1. CASE fcn = "Start"
    BY <1>1, <2>1 DEF FirstCall, QuotesOpen
  <2>2. CASE fcn # "Start"
    BY <1>1, <2>2 DEF FirstCall, QuotesOpen, LinesInv
  <2>. QED BY <2>1, <2>2
<1>4. LineUnderWay(t)'
  <2>1. CASE fcn # "Start"
    <3>1. ch' = ch /\ ev' = ev /\ fcn' # "Start" /\ pc' \in {"middle", "last"}
      BY <1>1, <2>1 DEF FirstCall
    <3>2. LET first == PositionOf(ev.offset_start)
          IN  /\ first \in 1 .. ch /\ LineBegins(t, first)
              /\ \A i \in first .. ch - 1 : i \notin Breaks(t)
              /\ first < ch
      BY <1>1, <2>1 DEF LinesInv, LineUnderWay
    <3>. QED BY <3>1, <3>2 DEF LineUnderWay
  <2>2. CASE fcn = "Start"
    <3>1. PositionOf(ev'.offset_start) = ch'
      <4>1. ev'.offset_start = OffsetOf(ch')
        BY <1>1, <2>2 DEF FirstCall, NewEventData
      <4>2. PositionOf(OffsetOf(ch')) = ch'
        <5>1. \A i \in Nat : PositionOf(OffsetOf(i)) = i
          BY DEF PositionOf, OffsetOf, BomSize
        <5>. QED BY <1>2, <5>1
      <4>. QED BY <4>1, <4>2
    <3>2. LineBegins(t, ch') /\ Behind' + 1 = ch'
      BY <1>1, <1>2, <2>2 DEF FirstCall
    <3>3. fcn' # "Start" => fcn' \in {"Minute", "Error"} /\ pc' \notin {"read", "first", "rows"}
      BY <1>1, <2>2 DEF FirstCall, Transit, TransitionTable, HeaderTable
    <3>4. ch' \in 1 .. ch' /\ \A i \in ch' .. ch' - 1 : i \notin Breaks(t)
      BY <1>1, <1>2 DEF FirstCall
    <3>5. LineBegins(t, Behind' + 1)
      BY <3>2
    <3>. QED BY <3>1, <3>2, <3>3, <3>4, <3>5 DEF LineUnderWay
  <2>. QED BY <2>1, <2>2
<1>5. EventsTaken(t)'
  <2>1. Listed(t, rows \o events, Behind)
    BY ListedFacts DEF LinesInv
  <2>2. \A p \in CompleteEvents(t) : p[2] + 1 <= Behind <=> p[2] + 1 <= Behind'
    <3>. TAKE p \in CompleteEvents(t)
    <3>1. p \in Lines(t) /\ p[1] \in Nat /\ p[2] \in Nat /\ p[1] <= p[2]
      BY <1>1, LineFacts
    <3>2. CASE ch' = ch
      BY <1>2, <3>2
    <3>3. CASE ch' = ch + 1 /\ fcn = "Start"
      <4>1. LineBegins(t, ch)
        BY <1>1, <3>3 DEF FirstCall
      <4>2. ASSUME p[2] + 1 = ch PROVE FALSE
        <5>1. ch \in p[1] .. p[2] + 1 /\ \A j \in ch .. ch - 1 : j \notin Breaks(t)
          BY <1>2, <3>1, <4>2
        <5>2. p[1] = ch
          BY <1>1, <1>2, <3>1, <4>1, <5>1, LinesApart
        <5>. QED BY <3>1, <4>2, <5>2
      <4>. QED BY <1>2, <3>1, <3>3, <4>2
    <3>. QED BY <1>1, <3>2, <3>3 DEF FirstCall
  <2>3. Listed(t, rows \o events, Behind')
    BY <2>1, <2>2, SameList
  <2>4. rows' = rows /\ events' = events /\ pc' \notin {"open", "read", "done"}
    BY <1>1 DEF FirstCall
  <2>. QED BY <2>3, <2>4, ListedFactsNext
<1>6. EmptyLineLeft(t)'
  BY <1>1, <1>2 DEF EmptyLineLeft, FirstCall
<1>7. EventRead(t)'
  <2>. SUFFICES ASSUME NEW p \in CompleteEvents(t), Acceptable(t, p), p[1] <= ch', ch' <= p[2] + 1,
                       fcn' # "Start"
                PROVE  Reading(t, p, Fcn(t)', ch', ev', keyTemp', valueTemp')
    BY <1>1 DEF EventRead, FirstCall
  <2>1. pc' \in {"middle", "last"} /\ Fcn(t)' = TransitionTable(fcn, TypeChar(t[ch'], quotes'))
    BY <1>1 DEF FirstCall, Fcn, Transit
  <2>2. CASE fcn # "Start"
    <3>1. ch' = ch /\ ev' = ev /\ keyTemp' = keyTemp /\ valueTemp' = valueTemp /\ quotes' = quotes
      BY <1>1, <2>2 DEF FirstCall
    <3>2. Reading(t, p, Fcn(t), ch, ev, keyTemp, valueTemp)
      BY <2>2, <3>1 DEF LinesInv, EventRead
    <3>3. Fcn(t) = TransitionTable(fcn, TypeChar(t[ch], quotes))
      BY <1>1 DEF Fcn
    <3>4. Fcn(t)' = Fcn(t)
      BY <2>1, <3>1, <3>3
    <3>. QED BY <3>1, <3>2, <3>4
  <2>3. CASE fcn = "Start"
    <3>1. p \in Lines(t) /\ p[1] \in Nat /\ p[2] \in Nat
      BY <1>1, LineFacts
    <3>2. LineBegins(t, ch') /\ QuoteBefore(t)[ch'] = NoQuote /\ quotes' = << >>
      BY <1>1, <2>3 DEF FirstCall
    <3>3. p[1] = ch'
      <4>1. ch' \in p[1] .. p[2] + 1 /\ \A j \in ch' .. ch' - 1 : j \notin Breaks(t)
        <5>1. p[1] <= ch' /\ ch' <= p[2] + 1
          OBVIOUS
        <5>2. PICK n \in Nat : n = ch'
          BY <1>2
        <5>3. n \in p[1] .. p[2] + 1
          BY <3>1, <5>1, <5>2
        <5>4. \A j \in n .. n - 1 : FALSE
          OBVIOUS
        <5>. QED BY <5>2, <5>3, <5>4
      <4>. QED BY <1>1, <1>2, <3>1, <3>2, <4>1, LinesApart
    <3>4. PICK o : ev' = [NewEventData EXCEPT !.offset_start = o]
      BY <1>1, <2>3 DEF FirstCall
    <3>5. Reading(t, p, TransitionTable("Start", TypeChar(t[p[1]], quotes')), p[1], ev',
                  keyTemp', valueTemp')
      BY <1>1, <3>2, <3>3, <3>4, EventBegins DEF Acceptable
    <3>. QED BY <2>1, <2>3, <3>3, <3>5
  <2>. QED BY <2>2, <2>3
<1>. QED BY <1>3, <1>4, <1>5, <1>6, <1>7 DEF LinesInv

(* Before the file is opened nothing is read.                              *)
LEMMA ReadingInit ==
  ASSUME Init
  PROVE  ReadingInv
<1>1. /\ text \in Seq(Char) /\ pc = "open" /\ ch = 1 /\ fcn = "Start" /\ quotes = << >>
      /\ keyTemp = << >> /\ valueTemp = << >> /\ rows = << >> /\ events = << >>
  BY ParserAssumption DEF Init
<1>2. CallsInv
  <2>1. Len(text) \in Nat
    BY <1>1, LenProperties
  <2>. QED BY <1>1, <2>1 DEF CallsInv, ReadInText, ConsumedLast, ChosenByMark, NothingKept
<1>3. ASSUME NEW t, Extends(t)
      PROVE  LinesInv(t)
  <2>1. t \in Seq(Char) /\ QuoteBefore(t)[1] = NoQuote
    BY <1>3, QuotesOfText DEF Extends
  <2>2. QuotesOpen(t)
    BY <1>1, <2>1 DEF QuotesOpen
  <2>3. Behind = 0
    BY <1>1 DEF Behind
  <2>4. LineUnderWay(t)
    BY <1>1, <2>3 DEF LineUnderWay, LineBegins
  <2>5. EventsTaken(t)
    <3>1. Listed(t, << >>, 0)
      <4>1. DOMAIN << >> = {}
        OBVIOUS
      <4>2. \A p \in CompleteEvents(t) : ~(p[2] + 1 <= 0)
        BY <2>1, LineFacts
      <4>3. {p \in CompleteEvents(t) : p[2] + 1 <= 0} = {}
        BY <4>2
      <4>4. \A s : DOMAIN s = {} => {Place(s[k]) : k \in DOMAIN s} = {}
        OBVIOUS
      <4>. QED BY <4>1, <4>3, <4>4 DEF Listed
    <3>2. rows \o events = << >>
      BY <1>1, ConcatEmptySeq, EmptySeq
    <3>. QED BY <1>1, <2>3, <3>1, <3>2, ListedFacts
  <2>6. EmptyLineLeft(t) /\ EventRead(t)
    BY <1>1 DEF EmptyLineLeft, EventRead
  <2>. QED BY <2>2, <2>4, <2>5, <2>6 DEF LinesInv
<1>. QED BY <1>2, <1>3 DEF ReadingInv

(* Between two chunks the parser's state stays as it is.                   *)
LEMMA BetweenChunks ==
  ASSUME ParserInv, CallsInv, pc \in {"open", "read", "rows"}, pc' \in {"read", "first", "done"},
         UNCHANGED <<text, ch, fcn, ev, keyTemp, valueTemp, quotes>>,
         rows' \o events' = rows \o events, pc' # "first" => events' = << >>,
         NEW t, Extends(t), LinesInv(t)
  PROVE  LinesInv(t)'
<1>1. QuotesOpen(t)'
  BY DEF LinesInv, QuotesOpen
<1>2. Behind' = Behind
  BY DEF Behind
<1>3. LineUnderWay(t)'
  <2>1. fcn # "Start" => pc \in {"read", "rows"}
    BY DEF CallsInv, ReadInText
  <2>. QED BY <1>2, <2>1 DEF LinesInv, LineUnderWay
<1>4. EventsTaken(t)'
  <2>1. Listed(t, rows \o events, Behind)
    BY ListedFacts DEF LinesInv
  <2>2. Listed(t, rows' \o events', Behind')
    BY <1>2, <2>1
  <2>3. pc' \in {"open", "read", "done"} => events' = << >>
    OBVIOUS
  <2>. QED BY <2>2, <2>3, ListedFactsNext
<1>5. EmptyLineLeft(t)'
  BY DEF EmptyLineLeft
<1>6. EventRead(t)'
  <2>1. Fcn(t)' = Fcn(t)
    BY DEF Fcn
  <2>. QED BY <2>1 DEF LinesInv, EventRead
<1>. QED BY <1>1, <1>3, <1>4, <1>5, <1>6 DEF LinesInv

(* An acceptable event stops nothing.                                      *)
LEMMA ThrowReading ==
  ASSUME ParserInv, CallsInv, Throw, NEW t, Extends(t), LinesInv(t)
  PROVE  LinesInv(t)'
<1>1. /\ pc \in {"middle", "last"} /\ pc' = "terminated"
      /\ UNCHANGED <<fileVars, eventVars, pos, ch, end, offset, fcn, rows>>
      /\ fcn = "Error" \/ (fcn = "EndValue" /\ StollThrows)
  BY DEF Throw
<1>2. /\ UNCHANGED <<text, ch, fcn, ev, keyTemp, valueTemp, quotes, rows, events>>
      /\ fcn \in {"Error", "EndValue"}
  BY <1>1 DEF fileVars, eventVars
<1>3. QuotesOpen(t)'
  BY <1>2 DEF LinesInv, QuotesOpen
<1>4. Behind' = Behind
  BY <1>1, <1>2 DEF Behind
<1>5. LineUnderWay(t)'
  BY <1>1, <1>2, <1>4 DEF LinesInv, LineUnderWay
<1>6. EventsTaken(t)'
  <2>1. Listed(t, rows \o events, Behind)
    BY ListedFacts DEF LinesInv
  <2>2. Listed(t, rows' \o events', Behind')
    BY <1>2, <1>4, <2>1
  <2>. QED BY <1>1, <2>2, ListedFactsNext
<1>7. EmptyLineLeft(t)'
  BY <1>1 DEF EmptyLineLeft
<1>8. EventRead(t)'
  <2>. SUFFICES ASSUME NEW p \in CompleteEvents(t), Acceptable(t, p), p[1] <= ch, ch <= p[2] + 1
                PROVE  FALSE
    BY <1>2 DEF EventRead
  <2>1. Reading(t, p, fcn, ch, ev, keyTemp, valueTemp) /\ t \in Seq(Char)
    BY <1>1, <1>2 DEF LinesInv, EventRead, Fcn, Extends
  <2>2. /\ fcn # "Error"
        /\ fcn = "EndValue" /\ keyTemp = KeyName["t_connect_id"] => Numeral(valueTemp) # << >>
    BY <2>1, ReadingGoesOn
  <2>. QED BY <1>1, <2>2 DEF StollThrows
<1>. QED BY <1>3, <1>5, <1>6, <1>7, <1>8 DEF LinesInv

(* Every step keeps the invariant.                                         *)
LEMMA ReadingStep ==
  ASSUME ParserInv, ReadingInv, [Next]_vars
  PROVE  ReadingInv'
<1>1. CallsInv /\ \A t : Extends(t) => LinesInv(t)
  BY DEF ReadingInv
<1>2. /\ text \in Seq(Char) /\ Len(text) \in Nat /\ pos \in 0 .. Len(text) /\ ch \in Nat
      /\ DOMAIN text = 1 .. Len(text) /\ end \in 0 .. Len(text) /\ sizeBuffer \in Nat \ {0}
      /\ ch >= 1
  BY ParserAssumption, LenProperties DEF ParserInv, TypeOK
<1>3. text' = text
  BY DEF Next, Step, Open, NextChunk, FirstByte, MiddleBytes, LastByte, Throw, TakeEvents,
         Ended, vars, fileVars
<1>4. \A t : Extends(t)' <=> Extends(t)
  BY <1>3 DEF Extends
<1>5. CASE MiddleBytes \/ LastByte
  <2>1. /\ pc \in {"middle", "last"} /\ Call /\ UNCHANGED <<fileVars, pos, end, rows>>
        /\ \/ Transit /\ ch' <= end /\ pc' = (IF ch' = end THEN "last" ELSE "middle")
           \/ pc' = "rows" /\ UNCHANGED fcn /\ ch' = end + 1
    <3>1. CASE MiddleBytes
      <4>1. pc = "middle" /\ Call /\ Transit
        BY <3>1 DEF MiddleBytes
      <4>2. ch < end /\ (ch' = ch \/ ch' = ch + 1)
        BY <4>1, CallFacts DEF ParserInv, ChunkInText
      <4>3. ch' <= end
        BY <1>2, <4>2
      <4>. QED BY <3>1, <4>1, <4>3 DEF MiddleBytes
    <3>2. CASE LastByte
      <4>1. pc = "last" /\ Call
        BY <3>2 DEF LastByte
      <4>2. ch = end /\ (ch' = ch \/ ch' = ch + 1)
        BY <4>1, CallFacts DEF ParserInv, ChunkInText
      <4>3. CASE ch' = end + 1
        BY <3>2, <4>1, <4>3 DEF LastByte
      <4>4. CASE ch' # end + 1
        <5>1. Transit /\ pc' = pc /\ ch' = end /\ ch' <= end
          BY <1>2, <3>2, <4>2, <4>4 DEF LastByte
        <5>. QED BY <3>2, <4>1, <5>1 DEF LastByte
      <4>. QED BY <4>3, <4>4
    <3>. QED BY <1>5, <3>1, <3>2
  <2>2. CallsInv'
    BY <1>1, <2>1, CallKeepsCalls
  <2>3. ASSUME NEW t, Extends(t)
        PROVE  LinesInv(t)'
    <3>1. LinesInv(t)
      BY <1>1, <2>3
    <3>2. QuotesOpen(t)'
      <4>1. quotes' = IF QuoteBefore(t)[ch'] = NoQuote THEN << >> ELSE <<QuoteBefore(t)[ch']>>
        BY <1>1, <2>1, <2>3, <3>1, CallText DEF LinesInv
      <4>. QED BY <4>1 DEF QuotesOpen
    <3>3. LineUnderWay(t)'
      BY <1>1, <2>1, <2>3, <3>1, CallLine
    <3>4. EventsTaken(t)'
      BY <1>1, <2>1, <2>3, <3>1, CallEventsTaken
    <3>5. EmptyLineLeft(t)'
      BY <2>1 DEF EmptyLineLeft
    <3>6. EventRead(t)'
      BY <1>1, <2>1, <2>3, <3>1, CallEventRead
    <3>. QED BY <3>2, <3>3, <3>4, <3>5, <3>6 DEF LinesInv
  <2>. QED BY <1>4, <2>2, <2>3 DEF ReadingInv
<1>6. CASE FirstByte
  <2>1. Extends(text) /\ LinesInv(text)
    BY <1>1, OwnText
  <2>2. CallsInv'
    BY <1>1, <1>6, <2>1, FirstByteCalls
  <2>3. \A t : Extends(t) => LinesInv(t)'
    BY <1>1, <1>6, FirstByteLines
  <2>. QED BY <1>4, <2>2, <2>3 DEF ReadingInv
<1>7. CASE Throw
  <2>1. /\ pc \in {"middle", "last"} /\ pc' = "terminated" /\ fcn \in {"Error", "EndValue"}
        /\ UNCHANGED <<text, ch, fcn, keyTemp, valueTemp>>
    BY <1>7 DEF Throw, fileVars, eventVars
  <2>2. ch \in DOMAIN text
    BY <1>2, <2>1 DEF ParserInv, ChunkInText
  <2>3. ReadInText' /\ ConsumedLast' /\ ChosenByMark'
    BY <1>1, <2>1, <2>2 DEF CallsInv, ReadInText, ConsumedLast, ChosenByMark
  <2>4. NothingKept'
    BY <1>1, <2>1 DEF CallsInv, NothingKept
  <2>5. \A t : Extends(t) => LinesInv(t)'
    BY <1>1, <1>7, ThrowReading
  <2>. QED BY <1>4, <2>3, <2>4, <2>5 DEF ReadingInv, CallsInv
<1>8. CASE Open \/ NextChunk \/ TakeEvents
  <2>1. /\ pc \in {"open", "read", "rows"} /\ pc' \in {"read", "first", "done"}
        /\ UNCHANGED <<text, bom, fcn, ev, keyTemp, valueTemp, quotes>>
    BY <1>8 DEF Open, NextChunk, TakeEvents, fileVars, eventVars
  <2>2. /\ ch' = ch
        /\ pc' = "done" => ch' = pos' + 1 /\ (bom => pos' = Len(text))
    <3>1. CASE Open
      <4>1. ch = 1 /\ pos = 0 /\ ch' = ch /\ pos' = pos
        BY <3>1 DEF Open, ParserInv, ChunkInText
      <4>2. pc' = "done" => (bom => text = << >>)
        BY <3>1 DEF Open
      <4>3. text = << >> => Len(text) = 0
        OBVIOUS
      <4>. QED BY <4>1, <4>2, <4>3
    <3>2. CASE NextChunk
      <4>1. ch = pos + 1
        <5>1. pc = "read"
          BY <3>2 DEF NextChunk
        <5>. QED BY <5>1 DEF ParserInv, ChunkInText
      <4>2. PICK len \in Nat, at \in Nat, buffer \in Nat \ {0} :
               len = Len(text) /\ at = pos /\ buffer = sizeBuffer
        <5>1. pos \in Nat
          BY <1>2
        <5>2. Len(text) \in Nat /\ sizeBuffer \in Nat \ {0}
          BY <1>2
        <5>. QED BY <5>1, <5>2, Zenon
      <4>3. PICK size : /\ size = (IF len - at > buffer THEN buffer ELSE len - at)
                        /\ pos' = at + size
                        /\ \/ size = 0 /\ pc' = "done" /\ ch' = ch
                           \/ pc' = "first" /\ ch' = pos + 1
        BY <3>2, <4>2 DEF NextChunk
      <4>4. size = 0 => len = at /\ at + size = at
        BY <4>3
      <4>5. pc' = "done" => pos' = at /\ at = len
        BY <4>3, <4>4
      <4>6. ch' = ch
        BY <4>1, <4>3
      <4>. QED BY <4>1, <4>2, <4>5, <4>6
    <3>3. CASE TakeEvents
      BY <3>3 DEF TakeEvents
    <3>. QED BY <1>8, <3>1, <3>2, <3>3
  <2>3. rows' \o events' = rows \o events /\ (pc' # "first" => events' = << >>)
    <3>1. rows \in Seq(EventData) /\ events \in Seq(EventData)
      BY DEF ParserInv, TypeOK
    <3>2. CASE Open \/ NextChunk
      <4>1. rows' = rows /\ events' = events /\ pc \in {"open", "read"}
        BY <3>2 DEF Open, NextChunk, eventVars
      <4>2. LinesInv(text)
        BY <1>1, OwnText
      <4>. QED BY <4>1, <4>2 DEF LinesInv, EventsTaken
    <3>3. CASE TakeEvents
      <4>1. rows' = rows \o events /\ events' = << >>
        BY <3>3 DEF TakeEvents
      <4>2. rows \o events \in Seq(EventData)
        BY <3>1, ConcatProperties
      <4>. QED BY <4>1, <4>2, ConcatEmptySeq
    <3>. QED BY <1>8, <3>2, <3>3
  <2>4. pc = "open" => fcn = "Start"
    BY <1>1 DEF CallsInv, ReadInText
  <2>5. fcn \notin {"EndValue", "EndEvent", "Error"}
    BY <1>1, <2>1 DEF CallsInv, ConsumedLast
  <2>6. ReadInText'
    BY <1>1, <2>1, <2>2 DEF CallsInv, ReadInText
  <2>7. ConsumedLast' /\ ChosenByMark' /\ NothingKept'
    BY <1>1, <2>1, <2>5 DEF CallsInv, ConsumedLast, ChosenByMark, NothingKept
  <2>8. \A t : Extends(t) => LinesInv(t)'
    BY <1>1, <2>1, <2>2, <2>3, BetweenChunks
  <2>. QED BY <1>4, <2>6, <2>7, <2>8 DEF ReadingInv, CallsInv
<1>9. CASE Ended \/ UNCHANGED vars
  <2>1. UNCHANGED vars
    BY <1>9 DEF Ended
  <2>2. UNCHANGED <<text, bom, sizeBuffer, ev, keyTemp, valueTemp, quotes, events, pc, pos, ch,
                    end, offset, fcn, rows>>
    BY <2>1 DEF vars, fileVars, eventVars
  <2>3. CallsInv'
    BY <1>1, <2>2 DEF CallsInv, ReadInText, ConsumedLast, ChosenByMark, NothingKept
  <2>4. ASSUME NEW t PROVE LinesInv(t)' <=> LinesInv(t)
    <3>1. Behind' = Behind /\ Fcn(t)' = Fcn(t)
      BY <2>2 DEF Behind, Fcn
    <3>2. (QuotesOpen(t)' <=> QuotesOpen(t)) /\ (EmptyLineLeft(t)' <=> EmptyLineLeft(t))
      BY <2>2 DEF QuotesOpen, EmptyLineLeft
    <3>3. LineUnderWay(t)' <=> LineUnderWay(t)
      BY <2>2, <3>1 DEF LineUnderWay
    <3>4. EventsTaken(t)' <=> EventsTaken(t)
      BY <2>2, <3>1 DEF EventsTaken
    <3>5. EventRead(t)' <=> EventRead(t)
      BY <2>2, <3>1 DEF EventRead
    <3>. QED BY <3>2, <3>3, <3>4, <3>5 DEF LinesInv
  <2>. QED BY <1>1, <1>4, <2>3, <2>4 DEF ReadingInv
<1>. QED BY <1>5, <1>6, <1>7, <1>8, <1>9 DEF Next, Step

(* The invariant of the events read holds.                                 *)
LEMMA ReadingInvariant == Spec => []ReadingInv
<1>1. Init => ReadingInv
  BY ReadingInit
<1>2. ParserInv /\ ReadingInv /\ [Next]_vars => ReadingInv'
  BY ReadingStep
<1>. QED BY <1>1, <1>2, Invariant, PTL DEF Spec

-----------------------------------------------------------------------------
(* What the reading of the events gives                                    *)

(* The line that the parser is in, when it has an end.                     *)
LEMMA LineOfCall ==
  ASSUME ReadingInv, NEW t, Extends(t), fcn # "Start", ch \in Nat,
         NEW a \in Breaks(t), ch <= a
  PROVE  \E first, b \in Nat :
           /\ 1 <= first /\ first <= ch /\ ch <= b
           /\ LineBegins(t, first) /\ b \in Breaks(t) /\ <<first, b - 1>> \in Lines(t)
           /\ first < b => <<first, b - 1>> \in CompleteEvents(t)
<1>1. t \in Seq(Char) /\ LinesInv(t) /\ a \in Nat
  <2>1. t \in Seq(Char) /\ LinesInv(t)
    BY DEF ReadingInv, Extends
  <2>. QED BY <2>1, LenProperties, SeparatorFacts DEF Breaks
<1>2. PICK first \in Nat : /\ first \in 1 .. ch /\ LineBegins(t, first)
                           /\ \A i \in first .. ch - 1 : i \notin Breaks(t)
  <2>1. LET first == PositionOf(ev.offset_start)
        IN  /\ first \in 1 .. ch /\ LineBegins(t, first)
            /\ \A i \in first .. ch - 1 : i \notin Breaks(t)
    BY <1>1 DEF LinesInv, LineUnderWay
  <2>. QED BY <2>1
<1>3. PICK b \in {i \in Breaks(t) : i \in Nat /\ ch <= i} :
           \A i \in {j \in Breaks(t) : j \in Nat /\ ch <= j} : b <= i
  <2>1. {i \in Breaks(t) : i \in Nat /\ ch <= i} \in SUBSET Nat
    OBVIOUS
  <2>2. a \in {i \in Breaks(t) : i \in Nat /\ ch <= i}
    BY <1>1
  <2>. QED BY <2>1, <2>2, LeastElement
<1>4. \A i \in first .. b - 1 : i \notin Breaks(t)
  <2>1. ASSUME NEW i \in first .. b - 1, i \in Breaks(t)
        PROVE  FALSE
    <3>1. i \in Nat /\ i < b
      BY <1>2, <1>3, <2>1
    <3>2. ~(ch <= i)
      BY <1>3, <2>1, <3>1
    <3>3. i \in first .. ch - 1
      BY <1>2, <2>1, <3>1, <3>2
    <3>. QED BY <1>2, <2>1, <3>3
  <2>. QED BY <2>1
<1>5. first \in 1 .. b /\ b \in Nat /\ b \in Breaks(t) /\ 1 <= first /\ first <= ch /\ ch <= b
  BY <1>2, <1>3
<1>6. <<first, b - 1>> \in Lines(t) /\ (first < b => <<first, b - 1>> \in CompleteEvents(t))
  BY <1>1, <1>2, <1>4, <1>5, LineEnds
<1>. QED BY <1>2, <1>5, <1>6

(* An event is no empty line.                                              *)
LEMMA NoEventIsEmpty ==
  ASSUME NEW t, NEW p, IsEvent(t, p), p[1] \in Int, p[2] \in Int
  PROVE  p[1] <= p[2]
<1>1. PICK c \in HeaderCommas(t, p) : TRUE
  BY DEF IsEvent
<1>2. c[1] \in p[1] .. p[2]
  BY DEF HeaderCommas, Commas
<1>. QED BY <1>2

(* The rows are the complete events of what has been read, in the order of *)
(* the text and each with the values of its own properties, and at the end *)
(* of the file they are all of the text's events.                          *)
THEOREM RowsAreTheEventsAlways == Spec => []RowsAreTheEvents
<1>1. ParserInv /\ ReadingInv => RowsAreTheEvents
  <2>. SUFFICES ASSUME ParserInv, ReadingInv, pc \in {"read", "done"}
                PROVE  /\ {Place(rows[k]) : k \in DOMAIN rows} =
                            {p \in CompleteEvents(text) : p[2] + 1 <= pos}
                       /\ \A j, k \in DOMAIN rows : j < k => Place(rows[j])[2] < Place(rows[k])[1]
                       /\ \A k \in DOMAIN rows : Acceptable(text, Place(rows[k]))
                                                   => rows[k] = EventAt(text, Place(rows[k]))
                       /\ pc = "done" /\ bom => \A p \in CompleteEvents(text) : p[2] + 1 <= pos
    BY DEF RowsAreTheEvents
  <2>1. /\ CallsInv /\ LinesInv(text) /\ text \in Seq(Char) /\ rows \in Seq(EventData)
        /\ pos \in Nat /\ ch = pos + 1
    BY ParserAssumption, OwnText, LenProperties
       DEF ReadingInv, ParserInv, TypeOK, ChunkInText, CallsInv, ReadInText
  <2>2. Behind = pos
    BY <2>1 DEF Behind
  <2>3. Listed(text, rows \o events, Behind) /\ events = << >>
    BY <2>1, ListedFacts DEF LinesInv
  <2>4. Listed(text, rows, pos)
    BY <2>1, <2>2, <2>3, ConcatEmptySeq
  <2>5. ASSUME pc = "done", bom, NEW p \in CompleteEvents(text)
        PROVE  p[2] + 1 <= pos
    <3>1. pos = Len(text) /\ Len(text) \in Nat
      BY <2>1, <2>5, LenProperties DEF CallsInv, ReadInText
    <3>2. p[2] + 1 \in 1 .. Len(text)
      BY <2>1, LineFacts, SeparatorFacts DEF Breaks
    <3>. QED BY <3>1, <3>2
  <2>. QED BY <2>4, <2>5 DEF Listed
<1>. QED BY <1>1, Invariant, ReadingInvariant, PTL

(* Error or stoll stops the program only in an event that the platform     *)
(* does not write, behind the last complete event, or at an empty line.    *)
THEOREM RefusesOnlyMalformedAlways == Spec => []RefusesOnlyMalformed
<1>1. ParserInv /\ ReadingInv => RefusesOnlyMalformed
  <2>. SUFFICES ASSUME ParserInv, ReadingInv, pc = "terminated",
                       NEW q \in CompleteEvents(text), ~(ch > q[2] + 1)
                PROVE  \/ \E p \in CompleteEvents(text) :
                            ch \in p[1] .. p[2] + 1 /\ ~Acceptable(text, p)
                       \/ BlankLine(ch)
    BY DEF RefusesOnlyMalformed
  <2>1. /\ CallsInv /\ LinesInv(text) /\ text \in Seq(Char) /\ Extends(text) /\ ch \in Nat
        /\ fcn # "Start"
    BY ParserAssumption, OwnText
       DEF ReadingInv, ParserInv, TypeOK, CallsInv, ReadInText
  <2>2. q[2] + 1 \in Breaks(text) /\ ch <= q[2] + 1
    BY <2>1, LineFacts
  <2>3. PICK first, b \in Nat :
           /\ 1 <= first /\ first <= ch /\ ch <= b
           /\ LineBegins(text, first) /\ b \in Breaks(text)
           /\ first < b => <<first, b - 1>> \in CompleteEvents(text)
    BY <2>1, <2>2, LineOfCall
  <2>4. CASE first < b
    <3>1. PICK p \in CompleteEvents(text) : p[1] = first /\ p[2] = b - 1
      BY <2>3, <2>4
    <3>2. p[1] <= ch /\ ch <= p[2] + 1 /\ ch \in p[1] .. p[2] + 1
      BY <2>1, <2>3, <3>1
    <3>3. ~Acceptable(text, p)
      BY <2>1, <3>2 DEF LinesInv, EventRead
    <3>. QED BY <3>2, <3>3
  <2>5. CASE ~(first < b)
    <3>1. ch = b /\ ch = first
      BY <2>1, <2>3, <2>5
    <3>2. text[ch] = NewLine /\ (ch = 1 \/ text[ch - 1] = NewLine)
      BY <2>1, <2>3, <3>1, SeparatorFacts DEF Breaks, LineBegins
    <3>. QED BY <3>2 DEF BlankLine
  <2>. QED BY <2>4, <2>5
<1>. QED BY <1>1, Invariant, ReadingInvariant, PTL

(* However much of a well formed text is there when the file is opened,    *)
(* neither a throw nor the end of the buffer stops the program.            *)
THEOREM CutTextIsAlwaysRead == Spec => []CutTextIsRead
<1>1. ParserInv /\ ReadingInv => CutTextIsRead
  <2>. SUFFICES ASSUME ParserInv, ReadingInv, pc \in {"terminated", "overrun"},
                       NEW t \in Texts, IsPrefix(text, t), WellFormed(t)
                PROVE  FALSE
    BY DEF CutTextIsRead
  <2>1. t \in Seq(Char) /\ Extends(t) /\ LinesInv(t) /\ CallsInv /\ ch \in Nat
    BY ParserAssumption, PrefixFacts DEF ReadingInv, ParserInv, TypeOK
  <2>2. \A p \in Lines(t) : p[1] <= p[2]
    <3>. TAKE p \in Lines(t)
    <3>1. IsEvent(t, p)
      BY DEF WellFormed, Acceptable
    <3>. QED BY <2>1, <3>1, LineFacts, NoEventIsEmpty
  <2>3. CASE pc = "terminated"
    <3>1. fcn # "Start" /\ ch \in DOMAIN text
      BY <2>1, <2>3 DEF CallsInv, ReadInText
    <3>2. Len(t) \in Breaks(t) /\ ch <= Len(t)
      <4>1. Len(text) \in Nat /\ ch \in 1 .. Len(text) /\ Len(text) <= Len(t) /\ Len(t) \in Nat
        BY <2>1, <3>1, ParserAssumption, LenProperties DEF ParserInv, TypeOK, Extends
      <4>2. t # << >>
        BY <4>1
      <4>. QED BY <4>1, <4>2 DEF WellFormed
    <3>3. PICK first, b \in Nat :
             /\ 1 <= first /\ first <= ch /\ ch <= b
             /\ <<first, b - 1>> \in Lines(t)
             /\ first < b => <<first, b - 1>> \in CompleteEvents(t)
      BY <2>1, <3>1, <3>2, LineOfCall
    <3>4. first < b
      BY <2>2, <3>3
    <3>5. PICK p \in CompleteEvents(t) : p[1] = first /\ p[2] = b - 1 /\ p \in Lines(t)
      BY <3>3, <3>4
    <3>6. p[1] <= ch /\ ch <= p[2] + 1
      BY <3>3, <3>5
    <3>. QED BY <2>1, <2>3, <3>5, <3>6 DEF LinesInv, EventRead, WellFormed
  <2>4. CASE pc = "overrun"
    <3>1. ch - 1 \in Breaks(t) /\ LineBegins(t, ch - 1)
      BY <2>1, <2>4 DEF LinesInv, EmptyLineLeft
    <3>2. PICK b \in Nat : b = ch - 1 /\ b >= 1
      BY <2>1, <3>1, LenProperties, SeparatorFacts DEF Breaks
    <3>3. b \in 1 .. b /\ \A i \in b .. b - 1 : i \notin Breaks(t)
      BY <3>2
    <3>4. <<b, b - 1>> \in Lines(t)
      BY <2>1, <3>1, <3>2, <3>3, LineEnds
    <3>. QED BY <2>2, <3>2, <3>4
  <2>. QED BY <2>3, <2>4
<1>. QED BY <1>1, Invariant, ReadingInvariant, PTL

=============================================================================
