----------------------------- MODULE SearchText -----------------------------
(***************************************************************************)
(* From the text of the search field to the rows it selects: KeysTable,    *)
(* Replace and ReplaceTime rewrite the text into the condition of an SQL   *)
(* query, without taking it apart, and the context menu composes such      *)
(* texts from the event under the mouse.  A text is a sequence of tokens   *)
(* <<kind, value>>: a key word is a token wherever its letters stand, in a *)
(* quoted value too.                                                       *)
(***************************************************************************)
EXTENDS Integers, Sequences, SequencesExt, FiniteSets

CONSTANTS Journal,    \* the rows: [Event, Usr : sequences of tokens, time : a stamp,
                      \*   same : for each of the two, the columns whose number it is to SQLite]
          Units,      \* Units[i]: what one unit of field i of a stamp counts for
          Stamps,     \* the stamps of the texts and of the journal: FieldNames -> Nat
          LowerCase,  \* of each word of the names of events and users: its letters in lower case
          MaxCompared \* bound: the comparisons of a text

(* Day, month, year, hour, minute, second, microsecond: as they are typed. *)
FieldNames == 1 .. 7

(* From the year down to the microsecond: as moments are compared.         *)
Significance == <<3, 2, 1, 4, 5, 6, 7>>

(* The number that the fields of a stamp make.                             *)
Moment(s) ==
  LET unit(i) == Units[i] * s[i]
  IN  unit(1) + unit(2) + unit(3) + unit(4) + unit(5) + unit(6) + unit(7)

(* The fields of a stamp that are less significant than the k-th.          *)
Below(s, k) == [i \in FieldNames |-> IF \E j \in k + 1 .. 7 : Significance[j] = i THEN s[i] ELSE 0]

Quote == <<"mark", "DQ">>
And   == <<"word", "AND">>
Key(k)  == <<"key", k>>
Op(o)   == <<"op", o>>
Mark(m) == <<"mark", m>>
Word(w) == <<"word", w>>
Number(n) == <<"number", n>>

(* The key words of texts on events and the columns they stand for; the    *)
(* other four are used as Event and Usr are.                               *)
Column == [Event |-> <<"column", "events.name">>, Usr |-> <<"column", "user_names.name">>,
           Time |-> <<"column", "journal.time">>]

Words == DOMAIN LowerCase

(* The tables of a search and the columns that were created in them.       *)
ColumnsOf ==
  [journal    |-> {"id", "file_id", "time", "start", "lenght", "count_lines", "count_lines_agr",
                   "process_id", "event_id", "p_process_name_id", "usr_id", "t_connect_id",
                   "session_id", "wait_connections_id"},
   events     |-> {"id", "name"},
   user_names |-> {"id", "name"}]

Token ==
  {Quote, And} \cup {Key(k) : k \in DOMAIN Column} \cup {Column[k] : k \in DOMAIN Column}
  \cup {Op(o) : o \in {"=", ">=", "<"}} \cup {Mark(m) : m \in {".", " ", ":"}}
  \cup {Word(w) : w \in Words} \cup ({"number"} \X Nat)

(* And stands between comparisons: the same letters in a value mean        *)
(* nothing to the program or to SQLite, and are a word like any other.     *)
(* Units are powers of ten with room for the digits of the fields below.   *)
ASSUME SearchTextAssumption ==
  /\ Units \in [FieldNames -> Nat \ {0}]
  /\ Stamps \subseteq [FieldNames -> Nat]
  /\ \A s \in Stamps, k \in FieldNames : Moment(Below(s, k)) < Units[Significance[k]]
  /\ Journal \in Seq([Event : Seq(Token \ {And}), Usr : Seq(Token \ {And}), time : Stamps,
                      same : [{"Event", "Usr"} -> SUBSET ColumnsOf["journal"]]])
  /\ MaxCompared \in Nat \ {0}

VARIABLES
  text,    \* the text of the search field
  meant,   \* the comparisons it was composed of
  opened,  \* the row the menu was opened on; 0 for a text that was typed
  rows,    \* the rows selected
  state    \* "typed"; after a search "selected", "failed", or "undefined" (of the code)

vars == <<text, meant, opened, rows, state>>

-----------------------------------------------------------------------------
(* Rewriting                                                               *)

Places(s, t) == {i \in DOMAIN s : s[i] = t}

First(s, t) == Min(Places(s, t))

KeysTable(s) == {k \in DOMAIN Column : Contains(s, Key(k))}

(* Replace of key words by their columns.                                  *)
Replace(s, keys) ==
  [i \in DOMAIN s |-> IF \E k \in keys : s[i] = Key(k) THEN Column[s[i][2]] ELSE s[i]]

(* atoi: the number the text begins with, or 0.                            *)
Atoi(s) == IF s # << >> /\ s[1][1] = "number" THEN s[1][2] ELSE 0

(* Wrong: the hour is set off as the year is.                              *)
SeparatorsWithoutSpace ==
  <<Mark("."), Mark("."), Mark("."), Mark(":"), Mark(":"), Mark(".")>>

(* What stands behind each field of a stamp but the last.                  *)
Separators == <<Mark("."), Mark("."), Mark(" "), Mark(":"), Mark(":"), Mark(".")>>

(* The position behind each field: that of its mark, or the end.           *)
FieldEnds(s) ==
  LET end[i \in 0 .. 7] ==
        IF i = 0 THEN 0
        ELSE LET marks == {j \in end[i - 1] + 1 .. Len(s) : i <= 6 /\ s[j] = Separators[i]}
             IN  IF marks = {} THEN Len(s) + 1 ELSE Min(marks)
  IN  end

(* The nested conditions of ReplaceTime: a field counts when the mark      *)
(* behind it is found; what is behind the last mark that is found counts   *)
(* only from the seconds on.                                               *)
ReadStamp(s) ==
  LET end == FieldEnds(s)
      counts(i) == end[IF i <= 5 THEN i ELSE i - 1] <= Len(s)
  IN  Moment([i \in FieldNames |->
                IF counts(i) THEN Atoi(SubSeq(s, end[i - 1] + 1, end[i] - 1)) ELSE 0])

StandsAt(s, piece, i) ==
  /\ i + Len(piece) <= Len(s) + 1
  /\ SubSeq(s, i, i + Len(piece) - 1) = piece

(* Replace of a piece of the text, wherever it stands.                     *)
ReplacePiece(s, piece, by) ==
  LET from[i \in 1 .. Len(s) + 1] ==
        IF i = Len(s) + 1 THEN << >>
        ELSE IF StandsAt(s, piece, i) THEN by \o from[i + Len(piece)]
        ELSE <<s[i]>> \o from[i + 1]
  IN  from[1]

(* One round of ReplaceTime: from the first Time to the second quote       *)
(* behind it, wherever these stand, and all that is equal to it.  With     *)
(* fewer quotes the code steps behind the end of its string_view.          *)
ReplaceTimeOnce(s) ==
  LET from   == First(s, Key("Time"))
      quotes == {i \in Places(s, Quote) : i > from}
      open   == Min(quotes)
      close  == Min(quotes \ {open})
      found  == SubSeq(s, from, close)
      number == Number(ReadStamp(SubSeq(s, open + 1, close - 1)))
  IN  ReplacePiece(s, found, <<Column.Time>> \o SubSeq(s, from + 1, open - 1) \o <<number>>)

TimeIsQuoted(s) ==
  Cardinality({i \in Places(s, Quote) : i > First(s, Key("Time"))}) >= 2

(* The loop of ReplaceTime; it stops where a round is undefined.           *)
ReplaceTime(s) ==
  LET after[round \in 0 .. Len(s)] ==
        IF round = 0 THEN s
        ELSE LET r == after[round - 1]
             IN  IF Contains(r, Key("Time")) /\ TimeIsQuoted(r) THEN ReplaceTimeOnce(r) ELSE r
  IN  after[Len(s)]

(* Wrong: the stamps stay as they were typed.                              *)
ConditionWithoutTime(s) == Replace(s, KeysTable(s) \ {"Time"})

(* Db::Find up to the execution: the keys are those of the text as typed.  *)
Condition(s) ==
  LET named == Replace(s, KeysTable(s) \ {"Time"})
  IN  IF "Time" \in KeysTable(s) THEN ReplaceTime(named) ELSE named

-----------------------------------------------------------------------------
(* What SQLite makes of a condition                                        *)

(* The parts of a condition between the words AND.                         *)
Parts(c) ==
  LET cuts == {0, Len(c) + 1} \cup Places(c, And)
  IN  {SubSeq(c, p[1] + 1, p[2] - 1) :
         p \in {q \in cuts \X cuts : q[1] < q[2] /\ \A i \in q[1] + 1 .. q[2] - 1 : i \notin cuts}}

(* column op "value"                                                       *)
IsNamed(p) ==
  /\ Len(p) >= 4 /\ p[1] \in {Column[k] : k \in {"Event", "Usr"}} /\ p[2] = Op("=")
  /\ p[3] = Quote /\ Places(p, Quote) = {3, Len(p)}

(* journal.time op number                                                  *)
IsTimed(p) ==
  /\ Len(p) = 3 /\ p[1] = Column.Time /\ p[2] \in {Op(">="), Op("<")} /\ p[3][1] = "number"

ValueOf(p) == SubSeq(p, 4, Len(p) - 1)

(* Db::Find joins the tables of the key words the text has.                *)
TablesOf(keys) ==
  {"journal"} \cup {t \in {"events"} : "Event" \in keys} \cup {t \in {"user_names"} : "Usr" \in keys}

(* A text in double quotes is a column when one has its letters, in either *)
(* case; only otherwise it is a string.                                    *)
TablesNaming(v, keys) ==
  {t \in TablesOf(keys) : \E w \in Words : v = <<Word(w)>> /\ LowerCase[w] \in ColumnsOf[t]}

(* "ambiguous column name"                                                 *)
Refused(c, keys) ==
  \E p \in Parts(c) : IsNamed(p) /\ \E t, u \in TablesNaming(ValueOf(p), keys) : t # u

(* Of other parts, as a value with a quotation mark makes them, is not     *)
(* said what SQLite does.                                                  *)
IsRead(c) == \A p \in Parts(c) : IsNamed(p) \/ IsTimed(p)

Undefined(c) == Contains(c, Key("Time"))

(* The time of a row, as the loader composes it.                           *)
TimeOf(row) == Moment(row.time)

(* A column of the journal is compared as a number with the name, and a    *)
(* name's own column is equal to it.                                       *)
NamedSatisfies(row, p, keys) ==
  LET v   == ValueOf(p)
      isEvent == p[1] = Column.Event
  IN  CASE TablesNaming(v, keys) = {}          -> v = IF isEvent THEN row.Event ELSE row.Usr
        [] TablesNaming(v, keys) = {"journal"} ->
             LowerCase[v[1][2]] \in row.same[IF isEvent THEN "Event" ELSE "Usr"]
        [] OTHER                               -> TRUE

Satisfies(row, p, keys) ==
  IF IsNamed(p) THEN NamedSatisfies(row, p, keys)
  ELSE IF p[2] = Op(">=") THEN TimeOf(row) >= p[3][2] ELSE TimeOf(row) < p[3][2]

SelectedBy(c, keys) == {i \in DOMAIN Journal : \A p \in Parts(c) : Satisfies(Journal[i], p, keys)}

(* What a search for a text may end with.                                  *)
Outcomes(s) ==
  LET c        == Condition(s)
      keys     == KeysTable(s)
      Failed   == [state |-> "failed", rows |-> {}]
      Found(r) == [state |-> "selected", rows |-> r]
  IN  CASE Undefined(c) -> {[state |-> "undefined", rows |-> {}]}
        [] ~Undefined(c) /\ ~IsRead(c) -> {Failed} \cup {Found(r) : r \in SUBSET DOMAIN Journal}
        [] ~Undefined(c) /\ IsRead(c) /\ Refused(c, keys) -> {Failed}
        [] OTHER -> {Found(SelectedBy(c, keys))}

-----------------------------------------------------------------------------
(* The texts: comparisons joined by AND                                    *)

StampText(s) ==
  <<Number(s[1]), Mark("."), Number(s[2]), Mark("."), Number(s[3]), Mark(" "),
    Number(s[4]), Mark(":"), Number(s[5]), Mark(":"), Number(s[6]), Mark("."), Number(s[7])>>

Named(k, v) == [key |-> k, op |-> "=", value |-> v, fields |-> 0, text |-> v]

(* A stamp typed up to its n-th field; what is not typed is the beginning  *)
(* of the day, the hour, the minute or the second.                         *)
Timed(o, s, n) ==
  [key |-> "Time", op |-> o, value |-> [i \in FieldNames |-> IF i <= n THEN s[i] ELSE 0],
   fields |-> n, text |-> SubSeq(StampText(s), 1, 2 * n - 1)]

Values(k) == {IF k = "Event" THEN Journal[i].Event ELSE Journal[i].Usr : i \in DOMAIN Journal}

Comparisons ==
  {Named("Event", v) : v \in Values("Event")} \cup {Named("Usr", v) : v \in Values("Usr")}
  \cup {Timed(o, s, n) : o \in {">=", "<"}, s \in Stamps, n \in 3 .. 7}

Compared(c) == <<Key(c.key), Op(c.op), Quote>> \o c.text \o <<Quote>>

With(s, c) == IF s = << >> THEN Compared(c) ELSE s \o <<And>> \o Compared(c)

-----------------------------------------------------------------------------
Init ==
  /\ text = << >> /\ meant = << >> /\ opened = 0
  /\ rows = {} /\ state = "typed"

(* One comparison more in the search field.                                *)
Type(c) ==
  /\ state = "typed" /\ Len(meant) < MaxCompared
  /\ meant' = Append(meant, c) /\ text' = With(text, c)
  /\ UNCHANGED <<opened, rows, state>>

(* Db::Find of a text.  What is left of the old rows after a condition     *)
(* that SQLite refuses is Viewer's.                                        *)
Find(s) == \E o \in Outcomes(s) : state' = o.state /\ rows' = o.rows

Enter ==
  /\ state = "typed" /\ text # << >>
  /\ Find(text)
  /\ UNCHANGED <<text, meant, opened>>

(* The menu's filters by event and by user.                                *)
MenuFilter(i, k) ==
  /\ state = "typed" /\ text = << >>
  /\ meant' = <<Named(k, IF k = "Event" THEN Journal[i].Event ELSE Journal[i].Usr)>>
  /\ text' = Compared(meant'[1]) /\ opened' = i
  /\ Find(text')

Clear ==
  /\ state \in {"selected", "failed"}
  /\ text' = << >> /\ meant' = << >> /\ opened' = 0
  /\ rows' = {} /\ state' = "typed"

Next ==
  \/ \E c \in Comparisons : Type(c)
  \/ Enter
  \/ \E i \in DOMAIN Journal, k \in {"Event", "Usr"} : MenuFilter(i, k)
  \/ Clear
  \/ state = "undefined" /\ UNCHANGED vars

Spec == Init /\ [][Next]_vars

-----------------------------------------------------------------------------
(* Properties                                                              *)

(* A value with a key word or a quotation mark in it, which the rewriting  *)
(* may take for a part of a comparison, or with the letters of a column.   *)
Ambiguous(c) ==
  /\ c.key # "Time"
  /\ \/ \E i \in DOMAIN c.value : c.value[i] = Quote \/ \E k \in DOMAIN Column : c.value[i] = Key(k)
     \/ TablesNaming(c.value, {"Event", "Usr"}) # {}

(* A text of comparisons is refused, or ends in what is undefined, only    *)
(* when a value of it contains a key word or a quotation mark or is the    *)
(* name of a column.                                                       *)
TypeOK ==
  /\ rows \subseteq DOMAIN Journal
  /\ opened \in DOMAIN Journal \cup {0}
  /\ state \in {"typed", "selected", "failed", "undefined"}
  /\ state \in {"failed", "undefined"} => \E i \in DOMAIN meant : Ambiguous(meant[i])

(* The order of moments.                                                   *)
Before(s, t) ==
  \E k \in FieldNames :
    /\ s[Significance[k]] < t[Significance[k]]
    /\ \A j \in 1 .. k - 1 : s[Significance[j]] = t[Significance[j]]

(* What is read of a stamp: without seconds nothing stands behind its last *)
(* field, which is lost, be it the minute, the hour or the year.           *)
Taken(c) ==
  [i \in FieldNames |-> IF c.fields >= 6 \/ i < c.fields THEN c.value[i] ELSE 0]

Means(c, row) ==
  CASE c.op = ">=" -> ~Before(row.time, Taken(c))
    [] c.op = "<"  -> Before(row.time, Taken(c))
    [] c.op = "="  -> c.value = IF c.key = "Event" THEN row.Event ELSE row.Usr

Meant(cs) == {i \in DOMAIN Journal : \A j \in DOMAIN cs : Means(cs[j], Journal[i])}

(* The text is rewritten as a string, all occurrences of a key word at     *)
(* once and a stamp up to whatever quote comes second, and still selects   *)
(* exactly the rows its comparisons mean, with no more of a stamp lost     *)
(* than its last field, when no value contains a key word or a quotation   *)
(* mark or is the name of a column.                                        *)
FilterIsExact ==
  state # "typed" /\ (\A j \in DOMAIN meant : ~Ambiguous(meant[j])) => rows = Meant(meant)

(* "Filters by events, period, users" (README.md:3): the filter the menu   *)
(* offers for the user, or the name, of an event shows that event.         *)
MenuShowsItsEvent == opened # 0 => opened \in rows
=============================================================================
