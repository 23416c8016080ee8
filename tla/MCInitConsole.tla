--------------------------- MODULE MCInitConsole ---------------------------
(* A command is a line that begins with "a", "A". *)
EXTENDS InitConsole

MCCommandOutput(s) ==
  IF Len(s) >= 2 /\ SubSeq(s, 1, 2) = <<"a", "A">> THEN <<"o", Newline>> ELSE <<>>
MCEarlierText == <<"x">>
MCTexts == {<<"x">>, <<"x", "y", Newline>>}
MCSerialChars == {"a", Return, Delete}
=============================================================================
