------------------------------ MODULE LogText ------------------------------
(***************************************************************************)
(* The text of a technological log file, said without the parser: which    *)
(* line breaks end an event, the properties an event has and the values    *)
(* the index keeps of them.  A text is the sequence of the bytes after the *)
(* byte order mark, so that t[i] lies at offset i + 2 of the file; bytes   *)
(* that the program does not tell apart are one letter.  A line, an event  *)
(* or a field is a stretch of the text: the pair of its first and its last *)
(* position, the last one before the first when it is empty.               *)
(***************************************************************************)
EXTENDS Integers, Sequences, SequencesExt

NewLine == "NL"
Return  == "CR"
Comma   == ","
QuoteMarks == {"'", "DQ"}
Digit == {"0", "1", "2", "3", "4", "5", "6", "7", "8", "9"}
Letter == {"p", "u", "s", "w", "t", "e", "x"}
Char == {NewLine, Return, Comma, ":", ".", "-", "="} \cup QuoteMarks \cup Digit \cup Letter

DigitValue(c) ==
  CHOOSE n \in 0 .. 9 : <<"0", "1", "2", "3", "4", "5", "6", "7", "8", "9">>[n + 1] = c

BomSize == 3

(* The offset in the file of t[i].                                         *)
OffsetOf(i) == i + BomSize - 1

-----------------------------------------------------------------------------
(* Lines and events                                                        *)

NoQuote == "none"

(* Which quote is open after one more byte: the other mark means nothing   *)
(* inside a quotation.                                                     *)
QuoteAfter(open, c) ==
  IF open = NoQuote THEN IF c \in QuoteMarks THEN c ELSE NoQuote
  ELSE IF c = open THEN NoQuote ELSE open

(* QuoteBefore(t)[i] is the quote open before t[i].                        *)
QuoteBefore(t) ==
  LET open[i \in 1 .. Len(t) + 1] ==
        IF i = 1 THEN NoQuote ELSE QuoteAfter(open[i - 1], t[i - 1])
  IN  open

(* The bytes c that no quotation holds.                                    *)
Separators(t, c) == {i \in DOMAIN t : t[i] = c /\ QuoteBefore(t)[i] = NoQuote}

Breaks(t) == Separators(t, NewLine)

(* The stretches into which the positions cuts divide first .. last.       *)
Stretches(first, last, cuts) ==
  LET starts == {first} \cup {i + 1 : i \in cuts}
      ends   == {last} \cup {i - 1 : i \in cuts}
  IN  {s \in starts \X ends : s[1] <= s[2] + 1 /\ \A i \in s[1] .. s[2] : i \notin cuts}

(* What a line break ends: a break inside a quotation ends nothing.        *)
Lines(t) == {s \in Stretches(1, Len(t), Breaks(t)) : s[2] + 1 \in Breaks(t)}

(* The complete events of a text.  What follows its last break is not an   *)
(* event, nor is an empty line.                                            *)
CompleteEvents(t) == {s \in Lines(t) : s[1] <= s[2]}

-----------------------------------------------------------------------------
(* The fields of an event p of t                                           *)

Commas(t, p) == Separators(t, Comma) \cap (p[1] .. p[2])

(* The commas behind the time, the name and the level.                     *)
HeaderCommas(t, p) ==
  LET commas == Commas(t, p)
  IN  {c \in commas \X commas \X commas :
         c[1] < c[2] /\ c[2] < c[3] /\ \A i \in commas : i \in {c[1], c[2]} \/ i >= c[3]}

Header3(t, p) == CHOOSE c \in HeaderCommas(t, p) : TRUE

PropertyFields(t, p) ==
  LET behind == Header3(t, p)[3]
  IN  Stretches(behind + 1, p[2], {i \in Commas(t, p) : i > behind})

(* minute:second.fraction-duration, by the places of its marks.            *)
TimeMarks(t, first, last) ==
  {m \in {i \in first .. last : t[i] = ":"} \X {i \in first .. last : t[i] = "."}
           \X {i \in first .. last : t[i] = "-"} :
     /\ first < m[1] /\ m[1] + 1 < m[2] /\ m[2] + 1 < m[3] /\ m[3] < last
     /\ \A i \in first .. last : i \in {m[1], m[2], m[3]} \/ t[i] \in Digit}

TimeOf(t, p) == CHOOSE m \in TimeMarks(t, p[1], Header3(t, p)[1] - 1) : TRUE

(* The equal sign behind the name of a property.                           *)
EqualSigns(t, f) ==
  {e \in f[1] + 1 .. f[2] :
     t[e] = "=" /\ \A i \in f[1] .. e - 1 : t[i] \in Letter \cup Digit \cup {":", ".", "-"}}

EqualSign(t, f) == CHOOSE e \in EqualSigns(t, f) : TRUE

PropertyName(t, f) == SubSeq(t, f[1], EqualSign(t, f) - 1)

(* The value of the property whose equal sign is at e, up to any position: *)
(* outside quotations the equal sign and the carriage return are dropped,  *)
(* and from the first quotation on everything stands.                      *)
ValueUpTo(t, e) ==
  LET kept[i \in 0 .. Len(t)] ==
        IF i <= e THEN << >>
        ELSE IF t[i] \in {"=", Return} /\ \A j \in e + 1 .. i : t[j] \notin QuoteMarks
        THEN kept[i - 1] ELSE Append(kept[i - 1], t[i])
  IN  kept

PropertyValue(t, f) == ValueUpTo(t, EqualSign(t, f))[f[2]]

(* The number of the digits that end at a position.                        *)
NumberEnding(t) ==
  LET n[i \in 0 .. Len(t)] ==
        IF i = 0 \/ t[i] \notin Digit THEN 0 ELSE 10 * n[i - 1] + DigitValue(t[i])
  IN  n

(* An event as the platform writes it: time, name, level and at least one  *)
(* property.                                                               *)
IsEvent(t, p) ==
  /\ HeaderCommas(t, p) # {}
  /\ LET c == Header3(t, p)
     IN  /\ TimeMarks(t, p[1], c[1] - 1) # {}
         /\ c[1] + 1 < c[2] /\ \A i \in c[1] + 1 .. c[2] - 1 : t[i] \in Letter
         /\ c[2] + 1 < c[3] /\ \A i \in c[2] + 1 .. c[3] - 1 : t[i] \in Digit
  /\ \A f \in PropertyFields(t, p) : EqualSigns(t, f) # {}

(* The value of the last of the properties fields that is called name and  *)
(* is in values, or nothing.                                               *)
LastValue(t, fields, name, values) ==
  LET called == {f \in fields : PropertyName(t, f) = name /\ PropertyValue(t, f) \in values}
  IN  IF called = {} THEN << >>
      ELSE PropertyValue(t, CHOOSE f \in called : \A g \in called : g[1] <= f[1])

=============================================================================
