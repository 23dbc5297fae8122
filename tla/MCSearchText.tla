--------------------------- MODULE MCSearchText ---------------------------
(***************************************************************************)
(* Rows for TLC: stamps that differ in every field, two names of events,   *)
(* and users whose names have key words, a quotation mark or the letters   *)
(* of a column.                                                            *)
(***************************************************************************)
EXTENDS SearchText, TLC

MCUnits == <<81, 243, 729, 27, 9, 3, 1>>

(* Each stamp is later than the one before it, in a field that counts less or more.  *)
MCStamps ==
  {<<2, 1, 1, 2, 2, 2, 2>>, <<1, 2, 1, 1, 1, 2, 2>>, <<1, 2, 1, 1, 2, 1, 1>>,
   <<1, 2, 1, 1, 2, 1, 2>>, <<1, 1, 2, 1, 1, 1, 1>>}

MCLowerCase ==
  [w \in {"sdbl", "tlock", "anna", "boris", "log", "keeper", "start", "id"} |-> w] @@ ("Name" :> "name")

MCRow(e, u, s) ==
  [Event |-> <<Word(e)>>, Usr |-> u, time |-> s, same |-> [k \in {"Event", "Usr"} |-> {}]]

(* A user whose name is the number at which his event starts.              *)
MCNumberRow(e, n, s) == [MCRow(e, <<Number(n)>>, s) EXCEPT !.same["Usr"] = {"start"}]

(* The users of the menu: one is called after a key word, one after Time.  *)
MCMenuJournal ==
  <<MCRow("sdbl", <<Word("anna")>>, <<2, 1, 1, 2, 2, 2, 2>>),
    MCRow("tlock", <<Word("anna")>>, <<1, 2, 1, 1, 1, 2, 2>>),
    MCRow("sdbl", <<Key("Event"), Word("log")>>, <<1, 2, 1, 1, 2, 1, 1>>),
    MCRow("tlock", <<Key("Time"), Word("keeper")>>, <<1, 2, 1, 1, 2, 1, 2>>),
    MCRow("sdbl", <<Word("boris")>>, <<1, 1, 2, 1, 1, 1, 1>>)>>

(* Others are called after columns, and one has a quotation mark.          *)
MCJournal ==
  MCMenuJournal \o
  <<MCRow("sdbl", <<Word("start")>>, <<1, 1, 2, 1, 1, 1, 1>>),
    MCRow("tlock", <<Word("Name")>>, <<1, 1, 2, 1, 1, 1, 1>>),
    MCRow("sdbl", <<Word("id")>>, <<1, 1, 2, 1, 1, 1, 1>>),
    MCNumberRow("tlock", 1, <<1, 1, 2, 1, 1, 1, 1>>),
    MCRow("sdbl", <<Word("anna"), Quote>>, <<1, 1, 2, 1, 1, 1, 1>>)>>
=============================================================================
