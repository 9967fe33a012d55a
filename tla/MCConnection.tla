----------------------------- MODULE MCConnection -----------------------------
(***************************************************************************)
(* TLC instances of Connection: MAX_LEN is 5, the rio buffer holds 3 bytes *)
(* and the socket 4, so that lines are longer and shorter than each.       *)
(***************************************************************************)
EXTENDS Connection

Message(tag, data) == [tag |-> tag, data |-> data]

\* empty data, data that fills MAX_LEN to the byte, a colon in the data, a tag
\* that is not lower case
ShortMessages == {
  Message(<<"a">>, << >>), Message(<<"a">>, <<"a", "X">>),
  Message(<<"a">>, <<":">>), Message(<<"X">>, <<"a">>)}

\* one byte too long, so cut in two; a blank at the end, which is trimmed
AnyMessages == {
  Message(<<"a">>, <<"X", "a", ":">>), Message(<<"a">>, <<"X", " ">>),
  Message(<<"X">>, << >>)}

\* the two together
AllMessages == ShortMessages \cup AnyMessages
===============================================================================
