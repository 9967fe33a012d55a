-------------------------- MODULE MCReceiverSession --------------------------
(***************************************************************************)
(* The TLC instance of ReceiverSession.  MAX_LEN is 9 symbols, of which    *)
(* the tag and the structure of a delivery take five or more.              *)
(***************************************************************************)
EXTENDS ReceiverSession

Named(u, r) == [user |-> u, room |-> r]

\* a name whose login and welcome are two lines each: the rest of the login
\* asks to join the room without a name, which isValidRoomName accepts, and the
\* rest of the welcome says ok
LongUser == <<"a", "a", "a", "a", "a", "ok", ":", "join", ":">>

\* a room name with a blank, which receive removes; one that is refused; a
\* user whose welcome is two lines, the second nothing but a newline
SomeArguments == {
  Named(<<"a">>, <<"a", " ">>), Named(<<"a">>, <<"a", ":">>),
  Named(<<"X", "X", "X", "X">>, <<"a">>), Named(LongUser, <<"a", ":">>)}

Post1(sender, text) == [sender |-> sender, text |-> text]

\* a text that fits; a text with a colon; and one that is cut, and whose rest
\* reads, in the room a, like a message of somebody else
SomePosts == {
  Post1(<<"a">>, <<"X">>), Post1(<<"X">>, <<"a", ":">>),
  Post1(<<"X", "X">>, <<"a", " ", "ok", ":", "X", ":", "a", ":", "X">>)}
===============================================================================
