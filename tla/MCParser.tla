------------------------------ MODULE MCParser ------------------------------
(* Texts for the parser.  Bodies: two events, the first with a property    *)
(* whose value is any short sequence of the bytes the automaton tells      *)
(* apart.  Edits: an ordinary text with any one byte replaced.  Cuts: what *)
(* is there of a text while the platform writes it.                        *)
EXTENDS Parser

CONSTANTS BodyLength

Short == <<"1", ":", "2", ".", "3", "-", "4", ",", "e", ",", "0">>

SecondEvent == Short \o <<",", "x", "=", "1", ",", "s", "=", "2", Return, NewLine>>

BodyBytes == {"u", "=", ",", "'", "DQ", Return, NewLine}

Bodies ==
  {Short \o <<",", "u", "=">> \o b \o <<NewLine>> \o SecondEvent :
     b \in UNION {[1 .. n -> BodyBytes] : n \in 0 .. BodyLength}}

(* All the kept properties, one of them twice, and quotations.             *)
Ordinary ==
  Short \o <<",", "p", "=", "x", ",", "w", "=", "1", ",", "w", "=", ",", "t", "=", "2",
             ",", "u", "=", "'", NewLine, ",", "DQ", "'", Return, NewLine>>
  \o Short \o <<",", "s", "=", "3", ",", "s", "=", "4", "=", "5", Return, NewLine>>

EditBytes == {"1", "e", ":", ",", "=", "'", Return, NewLine}

Edits == {[Ordinary EXCEPT ![i] = c] : i \in DOMAIN Ordinary, c \in EditBytes}
         \cup {<<NewLine>> \o SecondEvent, <<NewLine, NewLine>> \o SecondEvent,
               SecondEvent \o <<NewLine>>, SecondEvent \o <<NewLine>> \o SecondEvent}

Cuts == {SubSeq(Ordinary, 1, n) : n \in 0 .. Len(Ordinary)}

BodyTexts == Bodies \cup {<< >>}
EditTexts == Edits \cup Cuts

MCKeyName == [k \in Keys |-> CASE k = "p_process_name" -> <<"p">>
                               [] k = "usr" -> <<"u">>
                               [] k = "session_id" -> <<"s">>
                               [] k = "wait_connections" -> <<"w">>
                               [] k = "t_connect_id" -> <<"t">>]
=============================================================================
