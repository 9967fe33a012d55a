---------------------------- MODULE SenderSession ----------------------------
(***************************************************************************)
(* The conversation of the sender client (sender.cpp) with its thread of   *)
(* the server (worker and chat_with_sender): the client sends one request, *)
(* reads one reply, and prompts its user again.  Requests and replies      *)
(* carry no number; only their order pairs them.                           *)
(*                                                                         *)
(* Each direction is the stream of Connection, line by line: a message     *)
(* longer than MAX_LEN, or one with a newline in it, arrives as several    *)
(* lines, of which all but the first are whatever the rest looks like.     *)
(***************************************************************************)
EXTENDS Integers, Sequences

CONSTANTS
  Logins,   \* what the server's receive makes of the login of a user name
  Lines,    \* what the server's receive makes of the lines users type
  MaxSends  \* bound: messages the client sends after the login

\* "badname": a join whose name isValidRoomName refuses; "other": a message
\* with any other tag; "invalid": receive fails with INVALID_MSG
Requests == {"slogin", "join", "badname", "leave", "sendall", "quit", "other", "invalid"}

\* what the client itself makes of a typed line
Typed == {"join", "badname", "leave", "sendall", "quit"}

\* a user name is an argument of the program and may hold a newline; a typed
\* line may not
ASSUME LinesAssumption ==
  /\ Logins \subseteq Seq(Requests) \ {<< >>}
  /\ \A l \in Logins : l[1] = "slogin"
  /\ Lines \subseteq Seq(Requests) \ {<< >>}
  /\ \A l \in Lines : l[1] \in Typed
  /\ MaxSends \in Nat

VARIABLES
  at,        \* where the client is
  sent,      \* number of messages it has sent
  asked,     \* what it asked last
  believed,  \* history: in a room, as the replies it read tell
  up,        \* lines on their way to the server
  down,      \* replies on their way to the client
  server,    \* the thread: before or in chat_with_sender, or over
  inRoom,    \* room # nullptr
  overlong   \* history: a request or a reply took more than one line

clientVars == <<at, sent, asked, believed>>
serverVars == <<server, inRoom>>
vars == <<clientVars, up, down, serverVars, overlong>>

Init ==
  /\ at = "start"
  /\ sent = 0
  /\ asked = "slogin"
  /\ believed = FALSE
  /\ up = << >>
  /\ down = << >>
  /\ server = "login"
  /\ inRoom = FALSE
  /\ overlong = FALSE

Waiting == at \in {"login", "reply", "quitting"}

Over == server \in {"closed", "reset"}

-------------------------------------------------------------------------------
(***************************************************************************)
(* The client                                                              *)
(***************************************************************************)
\* A failed send is reported and the reply is waited for all the same.  What
\* is written after the server has closed comes back as a reset.
ClientSend(line) ==
  /\ sent' = sent + 1
  /\ asked' = line[1]
  /\ overlong' = (overlong \/ Len(line) > 1)
  /\ up' = IF Over THEN up
           ELSE up \o [i \in 1..Len(line) |->
                       [request |-> line[i], no |-> sent', part |-> i]]
  /\ server' = IF Over THEN "reset" ELSE server
  /\ UNCHANGED <<believed, down, inRoom>>

Login(line) ==
  /\ at = "start"
  /\ at' = "login"
  /\ ClientSend(line)

Command(line) ==
  /\ at = "prompt"
  /\ sent <= MaxSends
  /\ at' = IF line[1] = "quit" THEN "quitting" ELSE "reply"
  /\ ClientSend(line)

SaysOk(tag) == tag \in {"ok", "okrest"}

\* where the client goes once it has the reply, or the error, it waited for
AfterReply(tag) ==
  CASE at = "login" -> IF SaysOk(tag) THEN "prompt" ELSE "gone"
    [] at = "reply" -> "prompt"
    [] at = "quitting" -> "gone"

ReadReply ==
  /\ Waiting /\ down # << >>
  /\ LET tag == Head(down).tag IN
       /\ at' = AfterReply(tag)
       /\ believed' = IF SaysOk(tag) /\ asked \in {"join", "leave"}
                      THEN asked = "join" ELSE believed
  /\ down' = Tail(down)
  /\ UNCHANGED <<sent, asked, up, serverVars, overlong>>

\* end of file, or a reset, which may overtake replies: receive sets the tag
\* of msg to "err" and the client goes on
ReadFails ==
  /\ Waiting
  /\ (server = "closed" /\ down = << >>) \/ server = "reset"
  /\ at' = AfterReply("err")
  /\ down' = << >>
  /\ UNCHANGED <<sent, asked, believed, up, serverVars, overlong>>

\* "/join" alone: substr(6) throws out_of_range, which nobody catches
BareJoin ==
  /\ at = "prompt"
  /\ at' = "gone"
  /\ UNCHANGED <<sent, asked, believed, up, down, serverVars, overlong>>

\* the user, or a SIGPIPE, ends the client wherever it is
Killed ==
  /\ at # "gone"
  /\ at' = "gone"
  /\ UNCHANGED <<sent, asked, believed, up, down, serverVars, overlong>>

-------------------------------------------------------------------------------
(***************************************************************************)
(* The server's thread                                                     *)
(***************************************************************************)
Line(tag) == [tag |-> tag, to |-> Head(up).no, part |-> Head(up).part]

Answer(tags) ==
  /\ up' = Tail(up)
  /\ down' = down \o [i \in 1..Len(tags) |-> Line(tags[i])]

\* A reply that quotes names may be too long for a line.  The second line of
\* a welcome ends the user name, and may read as a reply of its own: "okrest".
\* The later lines of the others are letters, digits and blanks, and invalid.
AnswerQuoting(rests) ==
  \/ Answer(<<"ok">>) /\ UNCHANGED overlong
  \/ \E rest \in rests : Answer(<<"ok">> \o rest) /\ overlong' = TRUE

Reads(request) == up # << >> /\ Head(up).request = request

\* Mutant: return instead of break.
EndThreadInRoom ==
  /\ server' = IF up' = << >> THEN "closed" ELSE "reset"
  /\ UNCHANGED inRoom

\* the thread returns: its ConnInfo closes the connection, with a reset when
\* there are bytes nobody has read
EndThread ==
  /\ server' = IF up' = << >> THEN "closed" ELSE "reset"
  /\ inRoom' = FALSE

LoginRequest ==
  /\ server = "login" /\ Reads("slogin")
  /\ AnswerQuoting({<<"rest">>, <<"okrest">>})
  /\ server' = "chat"
  /\ UNCHANGED <<clientVars, inRoom>>

\* Mutant: the old room is left before the name is looked at.
JoinRefusedLate ==
  /\ server = "chat" /\ Reads("badname")
  /\ Answer(<<"err">>)
  /\ inRoom' = FALSE
  /\ UNCHANGED <<clientVars, server, overlong>>

JoinRefused ==
  /\ server = "chat" /\ Reads("badname")
  /\ Answer(<<"err">>)
  /\ UNCHANGED <<clientVars, serverVars, overlong>>

JoinRequest ==
  /\ server = "chat" /\ Reads("join")
  /\ AnswerQuoting({<<"rest">>})
  /\ inRoom' = TRUE
  /\ UNCHANGED <<clientVars, server>>

\* Mutant: outside any room, leave is ignored.
LeaveRequestIgnored ==
  /\ server = "chat" /\ Reads("leave")
  /\ \/ inRoom /\ AnswerQuoting({<<"rest">>, <<"rest", "rest">>})
     \/ ~inRoom /\ Answer(<< >>) /\ UNCHANGED overlong
  /\ inRoom' = FALSE
  /\ UNCHANGED <<clientVars, server>>

LeaveRequest ==
  /\ server = "chat" /\ Reads("leave")
  /\ \/ inRoom /\ AnswerQuoting({<<"rest">>, <<"rest", "rest">>})
     \/ ~inRoom /\ Answer(<<"err">>) /\ UNCHANGED overlong
  /\ inRoom' = FALSE
  /\ UNCHANGED <<clientVars, server>>

\* Mutant: the branch of sendall goes on to the reply of the last else.
SendAllAnsweredTwice ==
  /\ server = "chat" /\ Reads("sendall")
  /\ Answer(IF inRoom THEN <<"ok">> ELSE <<"err", "err">>)
  /\ UNCHANGED <<clientVars, serverVars, overlong>>

SendAllRequest ==
  /\ server = "chat" /\ Reads("sendall")
  /\ Answer(IF inRoom THEN <<"ok">> ELSE <<"err">>)
  /\ UNCHANGED <<clientVars, serverVars, overlong>>

QuitRequest ==
  /\ server = "chat" /\ Reads("quit")
  /\ Answer(<<"ok">>)
  /\ EndThread
  /\ UNCHANGED <<clientVars, overlong>>

OtherRequest ==
  /\ server = "chat" /\ \E tag \in {"other", "slogin"} : Reads(tag)
  /\ Answer(<<"err">>)
  /\ UNCHANGED <<clientVars, serverVars, overlong>>

\* receive failed: after the reply to that, msg has the tag "err", and the
\* last else replies once more
InvalidRequest ==
  /\ server = "chat" /\ Reads("invalid")
  /\ Answer(<<"err", "err">>)
  /\ UNCHANGED <<clientVars, serverVars, overlong>>

\* Mutant: end of file is answered, and the loop continues.
ServerEOFIgnored ==
  /\ ~Over
  /\ at = "gone" /\ (up = << >> \/ down # << >>)
  /\ UNCHANGED vars

\* the client is gone; it may have reset the connection, leaving replies unread
ServerEOF ==
  /\ ~Over
  /\ at = "gone" /\ (up = << >> \/ down # << >>)
  /\ up' = << >>
  /\ EndThread
  /\ UNCHANGED <<clientVars, down, overlong>>

-------------------------------------------------------------------------------
\* both processes are done with the conversation
Finished == at = "gone" /\ Over /\ UNCHANGED vars

ReadAnswer == ReadReply \/ ReadFails

Serve ==
  \/ LoginRequest \/ JoinRefused \/ JoinRequest \/ LeaveRequest \/ SendAllRequest
  \/ QuitRequest \/ OtherRequest \/ InvalidRequest \/ ServerEOF

Next ==
  \/ \E line \in Logins : Login(line)
  \/ \E line \in Lines : Command(line)
  \/ ReadAnswer \/ BareJoin \/ Killed
  \/ Serve \/ Finished

Spec == Init /\ [][Next]_vars

\* the server's thread runs; the client, once blocked in receive, reads what
\* arrives.  Users need not type.
FairSpec == Spec /\ WF_vars(Serve) /\ WF_vars(ReadAnswer)

-------------------------------------------------------------------------------
Numbers == 1..MaxSends + 1

Tags == {"ok", "err", "rest", "okrest"}

\* the last conjunct: a session that is over is in no room (server.cpp:185)
TypeOK ==
  /\ at \in {"start", "login", "prompt", "reply", "quitting", "gone"}
  /\ sent \in 0..MaxSends + 1
  /\ asked \in Typed \cup {"slogin"}
  /\ believed \in BOOLEAN
  /\ up \in Seq([request : Requests, no : Numbers, part : Nat])
  /\ down \in Seq([tag : Tags, to : Numbers, part : Nat])
  /\ server \in {"login", "chat", "closed", "reset"}
  /\ inRoom \in BOOLEAN
  /\ overlong \in BOOLEAN
  /\ inRoom => server = "chat"

(***************************************************************************)
(* Whatever is cut, while the client waits, a request or a reply is under  *)
(* way, unless the connection is over: replies may pile up (sender.cpp:98  *)
(* reads one of them), but none is ever missing.  And as long as each      *)
(* request and each reply takes one line, the client reads the reply to    *)
(* the request it has just sent, and nothing is under way when it prompts. *)
(***************************************************************************)
NoneMissing == Waiting /\ ~Over => up # << >> \/ down # << >>

InStep ==
  /\ Len(up) + Len(down) <= IF Waiting THEN 1 ELSE 0
  /\ \A i \in 1..Len(down) : down[i].to = sent

ReplyAnswersRequest ==
  /\ NoneMissing
  /\ ~overlong /\ at # "gone" => InStep

(***************************************************************************)
(* What the replies told the client of its room is what the server has in  *)
(* room: a refused join, in particular, leaves the session where it was    *)
(* (server.cpp:149-153).                                                   *)
(***************************************************************************)
RoomAsBelieved ==
  ~overlong /\ at = "prompt" /\ ~Over => (believed <=> inRoom)

(***************************************************************************)
(* Every request is answered, or its wait is ended by the connection: the  *)
(* two never wait for each other, whatever is typed.                       *)
(***************************************************************************)
WaitEnds == Waiting ~> ~Waiting

(***************************************************************************)
(* The thread outlives its client by no more than the requests already on  *)
(* their way (server.cpp:139-142 and 183-185).                             *)
(***************************************************************************)
SessionEnds == at = "gone" ~> Over

(***************************************************************************)
(* server.cpp:136-138 answers an invalid message and says "can try again", *)
(* that is, with the next message.  But the same message is answered once  *)
(* more at the end of the loop, and the client reads that reply, too late, *)
(* as the one to its next request.                                         *)
(***************************************************************************)
OneReplyPerRequest == \A i, j \in 1..Len(down) :
  i # j /\ {"rest", "okrest"} \cap {down[i].tag, down[j].tag} = {}
    => <<down[i].to, down[i].part>> # <<down[j].to, down[j].part>>
===============================================================================
