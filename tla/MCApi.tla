-------------------------------- MODULE MCApi --------------------------------
(***************************************************************************)
(* Instances of Api for TLC: two requests.  MCForms holds one form per way *)
(* through the handlers.                                                   *)
(***************************************************************************)
EXTENDS Api

CONSTANTS a, b, blank, broken, r1, r2

MCText    == {a, b, blank, broken}
MCInvalid == {broken}
MCLists   == {<<>>, <<a>>, <<blank>>, <<broken>>, <<a, b>>, <<a, blank>>}

F(op, sent, name, values) == [op |-> op, sent |-> sent, name |-> name, values |-> values]

(* One for each kind of statement. *)
FewForms ==
  {F("word", "good", blank, <<a>>), F("image", "good", a, <<a, b>>),
   F("phrases", "good", a, <<a>>), F("list", "good", blank, <<>>)}

MCForms ==
  FewForms \cup
  {F("word", "missing", blank, <<a>>), F("word", "good", blank, <<blank>>),
   F("file", "missing", blank, <<>>), F("file", "failing", blank, <<>>),
   F("file", "nontext", blank, <<a>>), F("file", "good", blank, <<broken>>),
   F("file", "good", blank, <<a, b>>), F("image", "good", a, <<>>),
   F("image", "nontext", a, <<a>>), F("image", "failing", a, <<a>>), F("image", "missing", a, <<>>),
   F("image", "foreign", b, <<>>),
   F("phrases", "good", b, <<a, blank>>), F("phrases", "good", b, <<>>),
   F("phrases", "failing", b, <<>>),
   F("list", "missing", blank, <<>>)}

(* The second request is one of the few. *)
MCForm == [r \in Request |-> IF r = r2 THEN FewForms ELSE MCForms]
==============================================================================
