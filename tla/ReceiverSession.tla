--------------------------- MODULE ReceiverSession ---------------------------
(***************************************************************************)
(* The receiver client (receiver.cpp) and its thread of the server (worker *)
(* and chat_with_receiver): the client logs in, joins one room, and prints *)
(* what it is sent until somebody ends it.                                 *)
(*                                                                         *)
(* The server's side of the room is that of ChatServer: once the user is a *)
(* member, broadcasts of others put messages into its queue in the order   *)
(* of the room.  The streams are those of Connection, line by line: a      *)
(* message longer than MAX_LEN arrives in pieces, and the end of the       *)
(* server may cut the last line.                                           *)
(***************************************************************************)
EXTENDS Text, Listing

CONSTANTS
  MAX_LEN,   \* Message::MAX_LEN
  Arguments, \* user and room names given on the command line
  Posts,     \* what others say in the room: records of a sender and a text
  MaxPosts,  \* bound: number of broadcasts
  MaxDown,   \* lines the socket holds before the server's write blocks
  MaxShown   \* bound: lines printed, for the client that never stops printing

\* with a newline in a name, the request would be two
ASSUME ArgumentsAssumption ==
  /\ Arguments \subseteq [user : Seq(Bytes), room : Seq(Bytes)]
  /\ \A a \in Arguments :
       /\ \A i \in 1..Len(a.user) : a.user[i] # "\n"
       /\ \A i \in 1..Len(a.room) : a.room[i] # "\n"

\* senders and texts have come through receive, which trims
ASSUME PostsAssumption ==
  /\ Posts \subseteq [sender : Seq(Bytes), text : Seq(Bytes)]
  /\ \A p \in Posts :
       /\ Trim(<<":">> \o p.text) = <<":">> \o p.text
       /\ \A i \in 1..Len(p.text) : p.text[i] # "\n"
       /\ \A i \in 1..Len(p.sender) : p.sender[i] # "\n"

\* a short reply fits in a line, and the welcome in two
ASSUME SizesAssumption ==
  /\ MAX_LEN \in Nat /\ MAX_LEN >= 5
  /\ MaxDown \in Nat \ {0}
  /\ {MaxPosts, MaxShown} \subseteq Nat

VARIABLES
  at,        \* where the client is
  argv,      \* its arguments
  msg,       \* its msg, which outlives a failed receive
  shown,     \* history: what it has printed
  up,        \* lines on their way to the server
  down,      \* lines on their way to the client
  server,    \* the thread: where it is, or how its connection ended
  room,      \* the name of the room its user is in
  mqueue,    \* the queue of its user
  posted,    \* history: the broadcasts since the user is a member
  overlong   \* history: a delivery was longer than MAX_LEN

clientVars == <<at, argv, msg, shown>>
roomVars == <<room, mqueue, posted>>
vars == <<clientVars, up, down, server, roomVars, overlong>>

\* a message nothing was read into
NoMessage == [tag |-> << >>, data |-> << >>]

Init ==
  /\ at = "start"
  /\ argv \in Arguments
  /\ msg = NoMessage
  /\ shown = << >>
  /\ up = << >>
  /\ down = << >>
  /\ server = "login"
  /\ room = << >>
  /\ mqueue = << >>
  /\ posted = << >>
  /\ overlong = FALSE

Over == server \in {"closed", "reset"}

\* where the user is a member of the room
Inside == server \in {"member", "serve"}

-------------------------------------------------------------------------------
(***************************************************************************)
(* The client                                                              *)
(***************************************************************************)
Messages == [tag : Seq(Bytes), data : Seq(Bytes)]

\* the message once receive has parsed what it read: only the tag tells of a failure
\* (Parsed is a function so that TLC trims the line once)
Received(m, line) ==
  LET Parsed[s \in {Trim(line)}] ==
        IF Valid(s) THEN [tag |-> TagOf(s), data |-> DataOf(s)]
        ELSE [m EXCEPT !.tag = <<"err">>]
  IN Parsed[Trim(line)]

\* end of file, or a reset, which may overtake what was sent
ConnectionLost == (server = "closed" /\ down = << >>) \/ server = "reset"

Login ==
  /\ at = "start"
  /\ at' = "login"
  /\ up' = IF Over THEN up
           ELSE Pieces(Encode([tag |-> <<"rlogin">>, data |-> argv.user]), MAX_LEN)
  /\ server' = IF Over THEN "reset" ELSE server
  /\ UNCHANGED <<argv, msg, shown, down, roomVars, overlong>>

\* whether the first line under way says ok
SaysOk == Received(NoMessage, Head(down)).tag = <<"ok">>

\* the reply to the login, and the join that follows it: a send to a server
\* that has closed succeeds and comes back as a reset
LoginReply ==
  /\ at = "login" /\ down # << >>
  /\ down' = Tail(down)
  /\ \/ /\ SaysOk
        /\ at' = "join"
        /\ up' = IF Over THEN up
                 ELSE up \o Pieces(Encode([tag |-> <<"join">>, data |-> argv.room]), MAX_LEN)
        /\ server' = IF Over THEN "reset" ELSE server
     \/ /\ ~SaysOk
        /\ at' = "gone"
        /\ UNCHANGED <<up, server>>
  /\ UNCHANGED <<argv, msg, shown, roomVars, overlong>>

\* what it takes for the reply to the join may be the rest of a long welcome
JoinReply ==
  /\ at = "join" /\ down # << >>
  /\ down' = Tail(down)
  /\ at' = IF SaysOk THEN "loop" ELSE "gone"
  /\ UNCHANGED <<argv, msg, shown, up, server, roomVars, overlong>>

\* instead of a reply: the client gives up
ReplyLost ==
  /\ at \in {"login", "join"} /\ ConnectionLost
  /\ at' = "gone"
  /\ down' = << >>
  /\ UNCHANGED <<argv, msg, shown, up, server, roomVars, overlong>>

\* what the loop prints of a message: three fields, or nothing
Show(m) ==
  LET loadData == split_payload(m, MAX_LEN)
  IN shown' = IF Len(loadData) = 3
              THEN Append(shown, [sender |-> loadData[2], text |-> loadData[3]])
              ELSE shown

\* Mutant: the loop waits for the tag the messages should have.
NextDeliveryOnly ==
  /\ at = "loop" /\ down # << >>
  /\ Received(msg, Head(down)).tag = <<"delivery">>
  /\ msg' = Received(msg, Head(down))
  /\ Show(msg')
  /\ down' = Tail(down)
  /\ UNCHANGED <<at, argv, up, server, roomVars, overlong>>

\* one turn of the loop
NextLine ==
  /\ at = "loop" /\ down # << >>
  /\ msg' = Received(msg, Head(down))
  /\ Show(msg')
  /\ down' = Tail(down)
  /\ UNCHANGED <<at, argv, up, server, roomVars, overlong>>

\* one turn of the loop when there is nothing more to come: the last payload
\* is taken apart again
NextLineLost ==
  /\ at = "loop" /\ ConnectionLost
  /\ Len(shown) < MaxShown
  /\ msg' = [msg EXCEPT !.tag = <<"err">>]
  /\ Show(msg')
  /\ down' = << >>
  /\ UNCHANGED <<at, argv, up, server, roomVars, overlong>>

\* a signal is the only way out of the loop
Killed ==
  /\ at # "gone"
  /\ at' = "gone"
  /\ UNCHANGED <<argv, msg, shown, up, down, server, roomVars, overlong>>

-------------------------------------------------------------------------------
(***************************************************************************)
(* The server's thread, and the room it is in                              *)
(***************************************************************************)
Ok == Encode([tag |-> <<"ok">>, data |-> <<"X">>])
Err == Encode([tag |-> <<"err">>, data |-> <<"X">>])

Delivery(p) ==
  Encode([tag |-> <<"delivery">>,
          data |-> room \o <<":">> \o p.sender \o <<":">> \o p.text])

\* the thread returns: its ConnInfo closes the connection, with a reset when
\* there are lines nobody has read
EndThread == server' = IF up' = << >> THEN "closed" ELSE "reset"

\* what the thread makes of the next line
Request == Received(NoMessage, Head(up))

\* "Welcome " + userLogin + "!"
Welcome == Encode([tag |-> <<"ok">>, data |-> <<"X", " ">> \o Request.data \o <<"X">>])

\* the first line of a login is one, however long the name
ServerLogin ==
  /\ server = "login"
  /\ up # << >> /\ Request.tag = <<"rlogin">>
  /\ up' = Tail(up)
  /\ down' = down \o Pieces(Welcome, MAX_LEN)
  /\ server' = "join"
  /\ UNCHANGED <<clientVars, roomVars, overlong>>

Joinable == Request.tag = <<"join">> /\ isValidRoomName(Request.data)

\* find_or_create_room and add_member; the line may be the rest of the login
ServerJoin ==
  /\ server = "join"
  /\ up # << >> /\ Joinable
  /\ up' = Tail(up)
  /\ room' = Request.data
  /\ server' = "member"
  /\ UNCHANGED <<clientVars, down, mqueue, posted, overlong>>

\* Mutant: the message does not end the session.
ServerRefusesOnce ==
  /\ server = "join"
  /\ up # << >> /\ ~Joinable
  /\ up' = Tail(up)
  /\ UNCHANGED <<clientVars, down, server, roomVars, overlong>>

\* no message, not a join, or no room name: an error, and the thread is over
ServerRefuses ==
  /\ server = "join"
  /\ up # << >> /\ ~Joinable
  /\ up' = Tail(up)
  /\ down' = Append(down, Err)
  /\ EndThread
  /\ UNCHANGED <<clientVars, roomVars, overlong>>

ServerConfirms ==
  /\ server = "member"
  /\ down' = Append(down, Ok)
  /\ server' = "serve"
  /\ UNCHANGED <<clientVars, up, roomVars, overlong>>

\* somebody else in the room is broadcast to it
Post(p) ==
  /\ Inside /\ Len(posted) < MaxPosts
  /\ mqueue' = Append(mqueue, p)
  /\ posted' = Append(posted, p)
  /\ UNCHANGED <<clientVars, up, down, server, room, overlong>>

\* Mutant: the message is sent but stays at the front of the queue.
DeliverKept ==
  /\ server = "serve" /\ at # "gone"
  /\ mqueue # << >> /\ Len(down) < MaxDown
  /\ down' = down \o Pieces(Delivery(Head(mqueue)), MAX_LEN)
  /\ overlong' = (overlong \/ Len(Delivery(Head(mqueue))) > MAX_LEN)
  /\ UNCHANGED <<clientVars, up, server, roomVars>>

\* Mutant: the queue is a stack.
DeliverNewest ==
  /\ server = "serve" /\ at # "gone"
  /\ mqueue # << >> /\ Len(down) < MaxDown
  /\ LET p == mqueue[Len(mqueue)] IN
       /\ down' = down \o Pieces(Delivery(p), MAX_LEN)
       /\ overlong' = (overlong \/ Len(Delivery(p)) > MAX_LEN)
  /\ mqueue' = SubSeq(mqueue, 1, Len(mqueue) - 1)
  /\ UNCHANGED <<clientVars, up, server, room, posted>>

\* a message is dequeued and sent; the client's receive sees it in pieces
Deliver ==
  /\ server = "serve" /\ at # "gone"
  /\ mqueue # << >> /\ Len(down) < MaxDown
  /\ down' = down \o Pieces(Delivery(Head(mqueue)), MAX_LEN)
  /\ overlong' = (overlong \/ Len(Delivery(Head(mqueue))) > MAX_LEN)
  /\ mqueue' = Tail(mqueue)
  /\ UNCHANGED <<clientVars, up, server, room, posted>>

\* nothing came for a second: "Empty error", which has no colon
DequeueTimeout ==
  /\ server = "serve" /\ at # "gone"
  /\ mqueue = << >> /\ Len(down) < MaxDown
  /\ down' = Append(down, Err)
  /\ UNCHANGED <<clientVars, up, server, roomVars, overlong>>

\* a delivery to a client that has gone: the user leaves the room
SendFails ==
  /\ server = "serve" /\ at = "gone"
  /\ mqueue # << >>
  /\ mqueue' = Tail(mqueue)
  /\ UNCHANGED <<clientVars, up, down, room, posted, overlong>>
  /\ EndThread

\* the client is gone before it is in the room
ServerEOF ==
  /\ server \in {"login", "join"} /\ at = "gone"
  /\ up = << >> \/ down # << >>
  /\ server' = "closed"
  /\ UNCHANGED <<clientVars, up, down, roomVars, overlong>>

\* where the thread waits for a line, and has one
Requested == server \in {"login", "join"} /\ up # << >>

\* the line the thread may be writing when the server ends
Writing ==
  CASE server = "login" /\ Requested -> Welcome
    [] server = "join" /\ Requested /\ ~Joinable -> Err
    [] server = "member" -> Ok
    [] server = "serve" /\ mqueue = << >> -> Err
    [] server = "serve" /\ mqueue # << >> -> Delivery(Head(mqueue))
    [] OTHER -> << >>

\* the server is killed, or Accept ends it (Sockets); the connection may break
ServerDies ==
  /\ ~Over
  /\ up' = IF Requested THEN Tail(up) ELSE up
  /\ \/ up' = << >> /\ server' = "closed"
     \/ server' = "reset"
  /\ \E k \in 0..Len(Writing) : down' = down \o Pieces(SubSeq(Writing, 1, k), MAX_LEN)
  /\ UNCHANGED <<clientVars, roomVars, overlong>>

-------------------------------------------------------------------------------
Finished == at = "gone" /\ UNCHANGED vars

\* the client prints for ever, beyond the bound
Spinning == at = "loop" /\ ConnectionLost /\ UNCHANGED vars

Client == LoginReply \/ JoinReply \/ ReplyLost \/ NextLine \/ NextLineLost

Serve ==
  \/ ServerLogin \/ ServerJoin \/ ServerRefuses \/ ServerConfirms \/ Deliver
  \/ SendFails \/ ServerEOF

Next ==
  \/ Login \/ Client \/ Killed
  \/ Serve \/ DequeueTimeout \/ ServerDies
  \/ \E p \in Posts : Post(p)
  \/ Finished \/ Spinning

Spec == Init /\ [][Next]_vars

\* the thread runs, and the client reads what arrives; a timeout need not come
FairSpec == Spec /\ WF_vars(Client) /\ WF_vars(Serve)

-------------------------------------------------------------------------------
TypeOK ==
  /\ at \in {"start", "login", "join", "loop", "gone"}
  /\ argv \in Arguments
  /\ msg \in Messages
  /\ shown \in Seq([sender : Seq(Bytes), text : Seq(Bytes)])
  /\ {up, down} \subseteq Seq(Seq(Bytes))
  /\ \A i \in 1..Len(up) : Len(up[i]) \in 1..MAX_LEN
  /\ \A i \in 1..Len(down) : Len(down[i]) \in 1..MAX_LEN
  /\ server \in {"login", "join", "member", "serve", "closed", "reset"}
  /\ room \in Seq(Bytes)
  /\ mqueue \in Seq(Posts)
  /\ posted \in Seq(Posts)
  /\ overlong \in BOOLEAN

Colonless(s) == \A i \in 1..Len(s) : s[i] # ":"

\* a delivery is printed only if it has no colons but those of its structure
Printable(p) == Colonless(p.sender) /\ Colonless(p.text)

\* the lines the client takes for replies before its loop: a long welcome is
\* two, and what its rest says depends on the name
Skip == CASE at = "loop" -> 0 [] at = "join" -> 1 [] OTHER -> 2

\* the lines under way bring the messages posted after the first n[0], in
\* their order; those after the first n[i] are behind the i-th line, which
\* may also be a reply or "Empty error"
Bring(n) ==
  /\ \A i \in 1..Len(down) :
       \/ n[i] = n[i - 1] /\ (down[i] \in {Ok, Err} \/ i <= Skip)
       \/ n[i] = n[i - 1] + 1 /\ down[i] = Delivery(posted[n[i]])
  /\ mqueue = SubSeq(posted, n[Len(down)] + 1, Len(posted))

\* of the first k messages, those the client can print
PrintableTo(k) == {i \in 1..k : Printable(posted[i])}

(***************************************************************************)
(* While the server serves it, a client that has not given up has printed  *)
(* the printable ones of the first messages broadcast since its user is in *)
(* the room, each once, in the order of the broadcasts, and all other      *)
(* messages are on their way, in that order: none falls between add_member *)
(* and the reply, none is taken for a reply, and neither the rest of a     *)
(* long welcome nor the "Empty error" lines in between do any harm.  It    *)
(* holds as long as deliveries keep to MAX_LEN.                            *)
(***************************************************************************)
ShownInOrder ==
  Inside /\ at \in {"login", "join", "loop"} /\ ~overlong =>
    \E n \in [0..Len(down) -> 0..Len(posted)] :
      Bring(n) /\ Lists(shown, posted, PrintableTo(n[0]))

IsPrefixOf(s, t) == Len(s) <= Len(t) /\ s = SubSeq(t, 1, Len(s))

IsPartOf(s, t) ==
  \E k \in 0..(Len(t) - Len(s)) : \A i \in 1..Len(s) : s[i] = t[k + i]

\* a printed line is the message, its text perhaps cut
LooksLike(s, p) == s.sender = p.sender /\ IsPrefixOf(s.text, p.text)

Printed(s) == s.sender \o <<":">> \o s.text

\* the client may take colons of the message for those of the structure: in a
\* name, or in a text when the delivery is cut and a piece reads like a message
Garbled(p) ==
  ~Colonless(p.sender) \/ (Len(Delivery(p)) > MAX_LEN /\ ~Colonless(p.text))

(***************************************************************************)
(* Whatever is cut and however the server ends, the client prints only     *)
(* what was broadcast, and never goes back behind a message it has         *)
(* printed.  It prints it under the name of who said it, the text perhaps  *)
(* cut, with one exception: of a message with colons in the name, or with  *)
(* colons in the text and too long for a line, it may print any part as if *)
(* somebody else had said it.  A message may be printed again: that        *)
(* happens, since receiver.cpp:66 takes no notice of a failure.            *)
(***************************************************************************)
ShownKeepsOrder ==
  \E source \in [1..Len(shown) -> 1..Len(posted)] :
    /\ \A i, j \in 1..Len(shown) : i <= j => source[i] <= source[j]
    /\ \A i \in 1..Len(shown) :
         LET p == posted[source[i]] IN
           LooksLike(shown[i], p) \/ (Garbled(p) /\ IsPartOf(Printed(shown[i]), Printed(p)))

(***************************************************************************)
(* The client never waits for ever for the reply to its login or its join, *)
(* and the two do not wait for each other, even when a long name makes two *)
(* lines of the request or of the reply.                                   *)
(***************************************************************************)
LoginEnds == at \in {"login", "join"} ~> at \in {"loop", "gone"}

Elements(q) == {q[i] : i \in 1..Len(q)}

(***************************************************************************)
(* A printable message in the queue is printed in the end, unless one of   *)
(* the two has gone or a delivery was cut, however many idle seconds pass. *)
(***************************************************************************)
EveryPostShown == \A p \in Posts :
  Printable(p) /\ p \in Elements(mqueue)
    ~> p \in Elements(shown) \/ at = "gone" \/ Over \/ overlong
===============================================================================
