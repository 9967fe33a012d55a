------------------------- MODULE SenderSessionProofs -------------------------
(***************************************************************************)
(* The safety of SenderSession for any lines and any number of them.  That *)
(* no reply is ever missing is inductive as it stands.  The rest is about  *)
(* a conversation in which everything took one line, and follows from what *)
(* it can look like then: nothing is under way, or one request, or the one *)
(* reply to it, whose content says where the session is (Exchange).        *)
(***************************************************************************)
EXTENDS SenderSession, SequenceTheorems, TLAPS

UpLines == [request : Requests, no : Numbers, part : Nat]
DownLines == [tag : Tags, to : Numbers, part : Nat]

Quiet == up = << >> /\ down = << >>

\* the room the client will believe in, once it has read the reply
Told(tag) ==
  IF tag = "ok" /\ asked \in {"join", "leave"} THEN asked = "join" ELSE believed

Asked ==
  /\ down = << >>
  /\ \E line \in UpLines :
       up = <<line>> /\ line.request = asked /\ line.no = sent
  /\ server = (IF at = "login" THEN "login" ELSE "chat")
  /\ believed <=> inRoom

Answered ==
  /\ up = << >>
  /\ \E line \in DownLines :
       /\ down = <<line>> /\ line.to = sent /\ line.tag \in {"ok", "err"}
       /\ at # "quitting" => (inRoom <=> Told(line.tag))
  /\ server = (IF at = "quitting" THEN "closed" ELSE "chat")

Exchange ==
  /\ at = "start" => Quiet /\ server = "login" /\ ~believed /\ ~inRoom
  /\ at = "prompt" => Quiet /\ server = "chat" /\ (believed <=> inRoom)
  /\ Waiting => /\ Asked \/ Answered
                /\ at = "login" <=> asked = "slogin"
                /\ at = "quitting" <=> asked = "quit"

Started == at = "start" => sent = 0

IInv == TypeOK /\ Started /\ NoneMissing /\ (~overlong /\ at # "gone" => Exchange)

LEMMA InitIInv == Init => IInv
<1>. SUFFICES ASSUME Init PROVE IInv
  OBVIOUS
<1>1. TypeOK
  <2>1. sent \in 0..MaxSends + 1
    BY LinesAssumption DEF Init
  <2>2. /\ up \in Seq([request : Requests, no : Numbers, part : Nat])
        /\ down \in Seq([tag : Tags, to : Numbers, part : Nat])
    BY DEF Init
  <2>. QED  BY <2>1, <2>2 DEF Init, TypeOK
<1>2. Started /\ Exchange /\ NoneMissing
  BY DEF Init, Started, Exchange, Quiet, Waiting, NoneMissing
<1>. QED  BY <1>1, <1>2 DEF IInv

(***************************************************************************)
(* What a send puts on the wire, and what a reply does.                    *)
(***************************************************************************)
LEMMA SentType ==
  ASSUME NEW line \in Seq(Requests), NEW n \in Numbers
  PROVE  LET s == [i \in 1..Len(line) |-> [request |-> line[i], no |-> n, part |-> i]]
         IN s \in Seq(UpLines) /\ Len(s) = Len(line)
BY DEF UpLines

LEMMA AnswerType ==
  ASSUME TypeOK, up # << >>, NEW tags \in Seq(Tags), Answer(tags)
  PROVE  /\ up' \in Seq(UpLines)
         /\ down' \in Seq(DownLines)
<1>. up \in Seq(UpLines) /\ down \in Seq(DownLines)
  BY DEF TypeOK, UpLines, DownLines
<1>1. Head(up) \in UpLines /\ up' \in Seq(UpLines)
  BY DEF Answer
<1>2. [i \in 1..Len(tags) |-> Line(tags[i])] \in Seq(DownLines)
  BY <1>1 DEF UpLines, DownLines, Line
<1>. QED  BY <1>1, <1>2 DEF Answer
LEMMA SendKeepsTypes ==
  ASSUME TypeOK, NEW line \in Seq(Requests), line[1] \in Typed \cup {"slogin"},
         sent <= MaxSends, ClientSend(line),
         at' \in {"login", "reply", "quitting"}
  PROVE  TypeOK'
<1>1. sent' \in Numbers /\ sent' \in 0..MaxSends + 1
  BY LinesAssumption DEF ClientSend, TypeOK, Numbers
<1>2. up' \in Seq(UpLines)
  <2>1. up \in Seq(UpLines)
    BY DEF TypeOK, UpLines
  <2>2. CASE Over
    BY <2>1, <2>2 DEF ClientSend
  <2>3. CASE ~Over
    <3>1. up' = up \o [i \in 1..Len(line) |->
                        [request |-> line[i], no |-> sent', part |-> i]]
      BY <2>3 DEF ClientSend
    <3>. QED  BY <1>1, <2>1, <3>1, SentType
  <2>. QED  BY <2>2, <2>3
<1>3. /\ asked' \in Typed \cup {"slogin"} /\ overlong' \in BOOLEAN
      /\ UNCHANGED <<believed, down, inRoom>>
      /\ server' \in {"login", "chat", "closed", "reset"} /\ (inRoom' => server' = "chat")
  BY DEF ClientSend, TypeOK, Over
<1>. QED  BY <1>1, <1>2, <1>3 DEF TypeOK, UpLines

LEMMA NextCases ==
  ASSUME [Next]_vars
  PROVE  \/ \E line \in Logins : Login(line)
         \/ ReadReply \/ ReadFails \/ BareJoin \/ Killed
         \/ \E line \in Lines : Command(line)
         \/ LoginRequest \/ JoinRefused \/ JoinRequest \/ LeaveRequest \/ SendAllRequest
         \/ QuitRequest \/ OtherRequest \/ InvalidRequest \/ ServerEOF
         \/ UNCHANGED vars
BY DEF Next, ReadAnswer, Serve, Finished

LEMMA TypeOKStep == ASSUME TypeOK, Started, [Next]_vars PROVE TypeOK'
<1>. USE DEF clientVars, serverVars
<1>1. ASSUME NEW line \in Logins, Login(line) PROVE TypeOK'
  <2>1. line \in Seq(Requests) /\ line[1] = "slogin"
    BY LinesAssumption
  <2>2. sent <= MaxSends /\ at' = "login" /\ ClientSend(line)
    BY <1>1, LinesAssumption DEF Login, Started
  <2>. QED  BY <2>1, <2>2, SendKeepsTypes
<1>2. ASSUME NEW line \in Lines, Command(line) PROVE TypeOK'
  <2>1. line \in Seq(Requests) /\ line[1] \in Typed
    BY LinesAssumption
  <2>. QED  BY <1>2, <2>1, SendKeepsTypes DEF Command
<1>3. CASE ReadReply
  <2>1. at' \in {"prompt", "gone"} /\ believed' \in BOOLEAN
    BY <1>3 DEF ReadReply, AfterReply, Waiting, TypeOK
  <2>. QED  BY <1>3, <2>1 DEF ReadReply, TypeOK
<1>4. CASE ReadFails
  <2>1. at' \in {"prompt", "gone"}
    BY <1>4 DEF ReadFails, AfterReply, Waiting
  <2>. QED  BY <1>4, <2>1 DEF ReadFails, TypeOK
<1>5. CASE BareJoin \/ Killed
  BY <1>5 DEF BareJoin, Killed, TypeOK
<1>6. ASSUME NEW tags \in Seq(Tags), up # << >>, Answer(tags),
             UNCHANGED clientVars, overlong' \in BOOLEAN, inRoom' \in BOOLEAN,
             server' \in {"chat", "closed", "reset"}, inRoom' => server' = "chat"
      PROVE  TypeOK'
  BY <1>6, AnswerType DEF TypeOK, UpLines, DownLines
<1>7. /\ <<"ok">> \in Seq(Tags) /\ <<"err">> \in Seq(Tags) /\ <<"err", "err">> \in Seq(Tags)
      /\ <<"rest">> \in Seq(Tags) /\ <<"okrest">> \in Seq(Tags)
      /\ <<"rest", "rest">> \in Seq(Tags)
  BY DEF Tags
<1>14. ASSUME NEW rests \in SUBSET Seq(Tags), up # << >>, AnswerQuoting(rests),
              UNCHANGED clientVars, inRoom' \in BOOLEAN, server' = "chat"
       PROVE  TypeOK'
  <2>1. CASE Answer(<<"ok">>) /\ UNCHANGED overlong
    BY <1>6, <1>7, <1>14, <2>1 DEF TypeOK
  <2>2. ASSUME NEW rest \in rests, Answer(<<"ok">> \o rest), overlong' = TRUE
        PROVE  TypeOK'
    <3>1. <<"ok">> \o rest \in Seq(Tags)
      BY <1>7
    <3>. QED  BY <1>6, <1>14, <2>2, <3>1
  <2>. QED  BY <1>14, <2>1, <2>2 DEF AnswerQuoting
<1>8. CASE LoginRequest \/ JoinRequest
  <2>1. /\ up # << >> /\ UNCHANGED clientVars /\ server' = "chat" /\ inRoom' \in BOOLEAN
        /\ AnswerQuoting({<<"rest">>, <<"okrest">>}) \/ AnswerQuoting({<<"rest">>})
    BY <1>8 DEF LoginRequest, JoinRequest, Reads, TypeOK
  <2>. QED  BY <1>7, <1>14, <2>1
<1>9. CASE LeaveRequest
  <2>1. /\ up # << >> /\ UNCHANGED clientVars /\ server' = "chat" /\ inRoom' = FALSE
        /\ \/ AnswerQuoting({<<"rest">>, <<"rest", "rest">>})
           \/ Answer(<<"err">>) /\ UNCHANGED overlong
    BY <1>9 DEF LeaveRequest, Reads
  <2>2. CASE AnswerQuoting({<<"rest">>, <<"rest", "rest">>})
    BY <1>7, <1>14, <2>1, <2>2
  <2>3. CASE Answer(<<"err">>) /\ UNCHANGED overlong
    BY <1>6, <1>7, <2>1, <2>3 DEF TypeOK
  <2>. QED  BY <2>1, <2>2, <2>3
<1>10. CASE JoinRefused \/ SendAllRequest \/ OtherRequest \/ InvalidRequest
  <2>1. /\ up # << >> /\ UNCHANGED <<clientVars, overlong, inRoom>> /\ server' = "chat"
        /\ Answer(<<"err">>) \/ Answer(<<"ok">>) \/ Answer(<<"err", "err">>)
    BY <1>10 DEF JoinRefused, SendAllRequest, OtherRequest, InvalidRequest, Reads
  <2>. QED  BY <1>6, <1>7, <2>1 DEF TypeOK
<1>11. CASE QuitRequest
  <2>1. /\ up # << >> /\ UNCHANGED <<clientVars, overlong>> /\ Answer(<<"ok">>)
        /\ server' \in {"closed", "reset"} /\ inRoom' = FALSE
    BY <1>11 DEF QuitRequest, EndThread, Reads
  <2>. QED  BY <1>6, <1>7, <2>1 DEF TypeOK
<1>12. CASE ServerEOF
  <2>1. /\ UNCHANGED <<clientVars, down, overlong>> /\ inRoom' = FALSE
        /\ server' \in {"closed", "reset"}
    BY <1>12 DEF ServerEOF, EndThread
  <2>2. up' \in Seq([request : Requests, no : Numbers, part : Nat])
    BY <1>12 DEF ServerEOF
  <2>. QED  BY <2>1, <2>2 DEF TypeOK
<1>13. CASE UNCHANGED vars
  BY <1>13 DEF vars, TypeOK
<1>. QED
  BY <1>1, <1>2, <1>3, <1>4, <1>5, <1>8, <1>9, <1>10, <1>11, <1>12, <1>13, NextCases

LEMMA StartedStep == ASSUME Started, [Next]_vars PROVE Started'
<1>1. at' = "start" => at = "start" /\ UNCHANGED sent
  BY NextCases DEF Login, Command, ReadReply, ReadFails, AfterReply, Waiting, BareJoin, Killed,
     LoginRequest, JoinRefused, JoinRequest, LeaveRequest, SendAllRequest, QuitRequest,
     OtherRequest, InvalidRequest, ServerEOF, vars, clientVars
<1>. QED  BY <1>1 DEF Started

(***************************************************************************)
(* Each request puts a line on the wire, and each line read puts a reply   *)
(* there, whatever its length.                                             *)
(***************************************************************************)
LEMMA NoneMissingStep == ASSUME TypeOK, NoneMissing, [Next]_vars PROVE NoneMissing'
<1>. USE DEF clientVars, serverVars
<1>1. ASSUME NEW line \in Seq(Requests) \ {<< >>}, ClientSend(line)
      PROVE  NoneMissing'
  <2>1. CASE Over
    BY <1>1, <2>1 DEF ClientSend, NoneMissing, Over
  <2>2. CASE ~Over
    <3>. DEFINE s == [i \in 1..Len(line) |-> [request |-> line[i], no |-> sent', part |-> i]]
    <3>1. up' = up \o s
      BY <1>1, <2>2 DEF ClientSend
    <3>2. Len(line) \in Nat \ {0}
      BY <1>1
    <3>. DEFINE R == [request : Requests, no : Int, part : Nat]
    <3>3. Len(s) = Len(line) /\ s \in Seq(R) /\ up \in Seq(R)
      <4>1. \A n : n \in Numbers => n \in Int
        BY LinesAssumption DEF Numbers
      <4>2. sent' \in Int /\ \A i \in 1..Len(line) : line[i] \in Requests
        BY <1>1, LinesAssumption DEF ClientSend, TypeOK
      <4>3. Len(s) = Len(line) /\ s \in Seq(R)
        BY <3>2, <4>2
      <4>4. [request : Requests, no : Numbers, part : Nat] \subseteq R
        BY <4>1
      <4>5. up \in Seq(R)
        <5>1. up \in Seq([request : Requests, no : Numbers, part : Nat])
          BY DEF TypeOK
        <5>. DEFINE U == [request : Requests, no : Numbers, part : Nat]
        <5>2. U \subseteq R /\ up \in Seq(U)
          BY <4>4, <5>1
        <5>. HIDE DEF R, U
        <5>. QED  BY <5>2
      <4>. QED  BY <4>3, <4>5
    <3>. HIDE DEF s, R
    <3>4. up' # << >>
      BY <3>1, <3>2, <3>3
    <3>. QED  BY <3>4 DEF NoneMissing
  <2>. QED  BY <2>1, <2>2
<1>2. ASSUME NEW tags, tags \in Seq(Tags) \ {<< >>}, up # << >>, Answer(tags)
      PROVE  NoneMissing'
  <2>. DEFINE r == [i \in 1..Len(tags) |-> Line(tags[i])]
  <2>1. r \in Seq(DownLines) /\ Len(r) = Len(tags) /\ Len(tags) \in Nat \ {0}
    <3>1. Head(up) \in UpLines
      <4>1. up \in Seq(UpLines)
        BY DEF TypeOK, UpLines
      <4>. QED  BY <1>2, <4>1
    <3>2. \A i \in 1..Len(tags) : Line(tags[i]) \in DownLines
      BY <1>2, <3>1 DEF UpLines, DownLines, Line
    <3>. QED  BY <1>2, <3>2
  <2>2. down' = down \o r /\ down \in Seq(DownLines)
    BY <1>2 DEF Answer, TypeOK, DownLines
  <2>. HIDE DEF r
  <2>3. down' # << >>
    BY <2>1, <2>2
  <2>. QED  BY <2>3 DEF NoneMissing
<1>3. /\ <<"ok">> \in Seq(Tags) /\ <<"err">> \in Seq(Tags) /\ <<"err", "err">> \in Seq(Tags)
      /\ \A rest \in {<<"rest">>, <<"okrest">>, <<"rest", "rest">>} :
           <<"ok">> \o rest \in Seq(Tags) \ {<< >>}
  BY DEF Tags
<1>4. ASSUME NEW rests, rests \subseteq {<<"rest">>, <<"okrest">>, <<"rest", "rest">>},
             up # << >>, AnswerQuoting(rests)
      PROVE  NoneMissing'
  BY <1>2, <1>3, <1>4 DEF AnswerQuoting
<1>5. ASSUME NEW line \in Logins, Login(line) PROVE NoneMissing'
  BY <1>1, <1>5, LinesAssumption DEF Login
<1>6. ASSUME NEW line \in Lines, Command(line) PROVE NoneMissing'
  BY <1>1, <1>6, LinesAssumption DEF Command
<1>7. CASE ReadReply \/ ReadFails
  BY <1>7 DEF ReadReply, ReadFails, AfterReply, NoneMissing, Waiting
<1>8. CASE BareJoin \/ Killed
  BY <1>8 DEF BareJoin, Killed, NoneMissing, Waiting
<1>9. CASE LoginRequest \/ JoinRequest
  BY <1>4, <1>9 DEF LoginRequest, JoinRequest, Reads
<1>10. CASE LeaveRequest
  BY <1>2, <1>3, <1>4, <1>10 DEF LeaveRequest, Reads
<1>11. CASE JoinRefused \/ SendAllRequest \/ OtherRequest \/ InvalidRequest \/ QuitRequest
  <2>1. up # << >> /\ (Answer(<<"err">>) \/ Answer(<<"ok">>) \/ Answer(<<"err", "err">>))
    BY <1>11 DEF JoinRefused, SendAllRequest, OtherRequest, InvalidRequest, QuitRequest, Reads
  <2>. QED  BY <1>2, <1>3, <2>1
<1>12. CASE ServerEOF
  BY <1>12 DEF ServerEOF, NoneMissing, Waiting
<1>13. CASE UNCHANGED vars
  BY <1>13 DEF vars, NoneMissing, Waiting, Over
<1>. QED
  BY <1>5, <1>6, <1>7, <1>8, <1>9, <1>10, <1>11, <1>12, <1>13, NextCases

(***************************************************************************)
(* One request makes one reply.                                            *)
(***************************************************************************)
LEMMA SentAlone ==
  ASSUME TypeOK, Quiet, ~Over, NEW line \in Seq(Requests), line # << >>, sent' \in Numbers,
         ClientSend(line), ~overlong'
  PROVE  /\ down' = << >>
         /\ \E l \in UpLines : up' = <<l>> /\ l.request = line[1] /\ l.no = sent'
<1>1. Len(line) = 1
  <2>1. ~(Len(line) > 1)
    BY Zenon DEF ClientSend
  <2>2. Len(line) \in Nat /\ Len(line) # 0
    OBVIOUS
  <2>3. \A n \in Nat : n = 0 \/ n = 1 \/ n > 1
    OBVIOUS
  <2>. QED  BY <2>1, <2>2, <2>3, Zenon
<1>2. line[1] \in Requests
  BY <1>1
<1>. DEFINE l == [request |-> line[1], no |-> sent', part |-> 1]
<1>3. l \in UpLines /\ l.request = line[1] /\ l.no = sent'
  BY <1>2 DEF UpLines
<1>4. up' = << >> \o [i \in 1..1 |-> [request |-> line[i], no |-> sent', part |-> i]]
  BY <1>1 DEF ClientSend, Quiet
<1>5. [i \in 1..1 |-> [request |-> line[i], no |-> sent', part |-> i]] = <<l>>
  OBVIOUS
<1>6. up' = <<l>>
  BY <1>3, <1>4, <1>5
<1>. QED  BY <1>3, <1>6 DEF ClientSend, Quiet

LEMMA ServerTurn ==
  ASSUME Exchange, at # "gone", TypeOK, up # << >>
  PROVE  Waiting /\ Asked /\ Head(up) \in UpLines /\ Head(up).request = asked
         /\ asked \in Typed \cup {"slogin"}
BY DEF Exchange, Quiet, Waiting, Asked, Answered, TypeOK

LEMMA RepliedAlone ==
  ASSUME TypeOK, Exchange, at # "gone", up # << >>, NEW tag \in {"ok", "err"},
         Answer(<<tag>>), UNCHANGED clientVars,
         server' = (IF at = "quitting" THEN "closed" ELSE "chat"),
         at # "quitting" => (inRoom' <=> Told(tag))
  PROVE  Exchange'
<1>1. Waiting /\ Asked
  BY ServerTurn
<1>2. PICK line \in UpLines : up = <<line>> /\ line.no = sent
  BY <1>1 DEF Asked
<1>. DEFINE reply == [tag |-> tag, to |-> sent, part |-> line.part]
<1>3. reply \in DownLines /\ reply.to = sent /\ reply.tag = tag
  BY <1>2 DEF DownLines, UpLines, Tags
<1>4. up' = << >>
  BY <1>2 DEF Answer
<1>5. Line(tag) = reply
  BY <1>2 DEF Line
<1>6. down' = << >> \o [i \in 1..1 |-> Line(<<tag>>[i])]
  BY <1>1 DEF Asked, Answer
<1>7. [i \in 1..1 |-> Line(<<tag>>[i])] = <<reply>>
  BY <1>5
<1>8. down' = <<reply>>
  BY <1>3, <1>6, <1>7
<1>. HIDE DEF reply
<1>9. UNCHANGED <<at, sent, asked, believed>>
  BY DEF clientVars
<1>10. Told(tag)' <=> Told(tag)
  BY <1>9 DEF Told
<1>11. Answered'
  BY <1>3, <1>4, <1>8, <1>9, <1>10 DEF Answered, Told
<1>. QED  BY <1>1, <1>9, <1>11 DEF Exchange, Waiting

LEMMA ExchangeStep ==
  ASSUME TypeOK, Started, ~overlong /\ at # "gone" => Exchange, [Next]_vars,
         ~overlong', at' # "gone"
  PROVE  Exchange'
<1>. USE DEF clientVars, serverVars
<1>1. ASSUME NEW line \in Logins, Login(line) PROVE Exchange'
  <2>1. ClientSend(line)
    BY <1>1 DEF Login
  <2>3. line \in Seq(Requests) /\ line # << >> /\ line[1] = "slogin"
    BY LinesAssumption
  <2>4. /\ Quiet /\ server = "login" /\ ~believed /\ ~inRoom /\ ~Over
        /\ at' = "login" /\ sent' = 1 /\ sent' \in Numbers
    <3>1. at = "start" /\ at' = "login" /\ ~overlong
      BY <1>1, <2>1 DEF Login, ClientSend
    <3>2. Quiet /\ server = "login" /\ ~believed /\ ~inRoom
      BY <3>1 DEF Exchange
    <3>3. sent' = 1 /\ 1 \in Numbers
      BY <2>1, <3>1, LinesAssumption DEF ClientSend, Started, Numbers
    <3>. QED  BY <3>1, <3>2, <3>3 DEF Over
  <2>5. /\ down' = << >>
        /\ \E l \in UpLines : up' = <<l>> /\ l.request = line[1] /\ l.no = sent'
    BY <2>1, <2>3, <2>4, SentAlone
  <2>6. asked' = "slogin" /\ server' = "login" /\ UNCHANGED <<believed, inRoom>>
    BY <2>1, <2>3, <2>4 DEF ClientSend
  <2>7. Asked'
    BY <2>3, <2>4, <2>5, <2>6 DEF Asked
  <2>. QED  BY <2>4, <2>6, <2>7 DEF Exchange, Waiting
<1>2. ASSUME NEW line \in Lines, Command(line) PROVE Exchange'
  <2>1. line \in Seq(Requests) /\ line # << >> /\ line[1] \in Typed
    BY LinesAssumption
  <2>2. /\ Quiet /\ server = "chat" /\ (believed <=> inRoom) /\ ~Over /\ sent' \in Numbers
        /\ at' = IF line[1] = "quit" THEN "quitting" ELSE "reply"
    BY <1>2, LinesAssumption DEF Command, ClientSend, Exchange, Over, Numbers, TypeOK
  <2>3. /\ down' = << >>
        /\ \E l \in UpLines : up' = <<l>> /\ l.request = line[1] /\ l.no = sent'
    BY <1>2, <2>1, <2>2, SentAlone DEF Command
  <2>4. asked' = line[1] /\ server' = "chat" /\ UNCHANGED <<believed, inRoom>>
    BY <1>2, <2>2 DEF Command, ClientSend
  <2>5. Asked'
    BY <2>2, <2>3, <2>4 DEF Asked
  <2>. QED  BY <2>1, <2>2, <2>4, <2>5 DEF Exchange, Waiting, Typed
<1>3. CASE ReadReply
  <2>1. Exchange /\ Waiting /\ Answered
    BY <1>3 DEF ReadReply, Exchange, Asked, Waiting
  <2>2. PICK line \in DownLines :
          /\ down = <<line>> /\ line.tag \in {"ok", "err"}
          /\ at # "quitting" => (inRoom <=> Told(line.tag))
    BY <2>1 DEF Answered
  <2>3. down' = << >> /\ Head(down) = line
    BY <1>3, <2>2 DEF ReadReply
  <2>4. believed' = Told(line.tag) /\ at' = AfterReply(line.tag) /\ UNCHANGED <<up, server, inRoom>>
    BY <1>3, <2>2, <2>3 DEF ReadReply, Told, SaysOk
  <2>5. at' = "prompt" /\ at # "quitting"
    BY <2>1, <2>4 DEF AfterReply, Waiting
  <2>. QED  BY <2>1, <2>2, <2>3, <2>4, <2>5 DEF Exchange, Quiet, Answered, Waiting
<1>4. CASE ReadFails
  <2>1. Exchange /\ Waiting /\ server \in {"closed", "reset"}
    BY <1>4 DEF ReadFails, Waiting
  <2>2. at = "quitting"
    BY <2>1 DEF Exchange, Asked, Answered
  <2>. QED  BY <1>4, <2>2 DEF ReadFails, AfterReply
<1>5. CASE BareJoin \/ Killed
  BY <1>5 DEF BareJoin, Killed
<1>6. SUFFICES ASSUME LoginRequest \/ JoinRefused \/ JoinRequest \/ LeaveRequest
                      \/ SendAllRequest \/ QuitRequest \/ OtherRequest \/ InvalidRequest
               PROVE  Exchange'
  <2>1. CASE ServerEOF
    BY <2>1 DEF ServerEOF
  <2>2. CASE UNCHANGED vars
    BY <2>2 DEF vars, Exchange, Quiet, Waiting, Asked, Answered, Told
  <2>. QED  BY <1>1, <1>2, <1>3, <1>4, <1>5, <1>6, <2>1, <2>2, NextCases
<1>7. UNCHANGED clientVars /\ up # << >> /\ at # "gone"
  BY <1>6 DEF LoginRequest, JoinRefused, JoinRequest, LeaveRequest, SendAllRequest, QuitRequest,
     OtherRequest, InvalidRequest, Reads
<1>8. ~overlong
  BY <1>6 DEF LoginRequest, JoinRefused, JoinRequest, LeaveRequest, SendAllRequest, QuitRequest,
     OtherRequest, InvalidRequest, AnswerQuoting
<1>9. Exchange /\ Waiting /\ Asked /\ Head(up).request = asked /\ asked \in Typed \cup {"slogin"}
  BY <1>7, <1>8, ServerTurn
<1>10. /\ (at = "login" <=> asked = "slogin") /\ (at = "quitting" <=> asked = "quit")
       /\ server = (IF at = "login" THEN "login" ELSE "chat")
       /\ believed <=> inRoom
  BY <1>9 DEF Exchange, Asked
<1>11. ASSUME NEW tag \in {"ok", "err"}, Answer(<<tag>>),
              server' = (IF at = "quitting" THEN "closed" ELSE "chat"),
              at # "quitting" => (inRoom' <=> Told(tag))
       PROVE  Exchange'
  BY <1>7, <1>9, <1>11, RepliedAlone
<1>12. CASE LoginRequest
  <2>1. Answer(<<"ok">>) /\ server' = "chat" /\ at = "login" /\ inRoom' = inRoom
    BY <1>9, <1>10, <1>12 DEF LoginRequest, AnswerQuoting, Reads
  <2>2. inRoom' <=> Told("ok")
    BY <1>10, <2>1 DEF Told
  <2>. QED  BY <1>11, <2>1, <2>2
<1>13. CASE JoinRequest
  <2>1. Answer(<<"ok">>) /\ server' = "chat" /\ asked = "join" /\ inRoom' = TRUE
    BY <1>9, <1>13 DEF JoinRequest, AnswerQuoting, Reads
  <2>. QED  BY <1>10, <1>11, <2>1 DEF Told
<1>14. CASE JoinRefused
  <2>1. Answer(<<"err">>) /\ server' = "chat" /\ asked = "badname" /\ inRoom' = inRoom
    BY <1>9, <1>14 DEF JoinRefused, Reads
  <2>. QED  BY <1>10, <1>11, <2>1 DEF Told
<1>15. CASE LeaveRequest
  <2>1. server' = "chat" /\ asked = "leave" /\ inRoom' = FALSE
    BY <1>9, <1>15 DEF LeaveRequest, Reads
  <2>2. CASE inRoom /\ Answer(<<"ok">>)
    BY <1>10, <1>11, <2>1, <2>2 DEF Told
  <2>3. CASE ~inRoom /\ Answer(<<"err">>)
    BY <1>10, <1>11, <2>1, <2>3 DEF Told
  <2>. QED  BY <1>15, <2>2, <2>3 DEF LeaveRequest, AnswerQuoting
<1>16. CASE SendAllRequest
  <2>1. /\ server' = "chat" /\ asked = "sendall" /\ inRoom' = inRoom
        /\ Answer(<<"ok">>) \/ Answer(<<"err">>)
    BY <1>9, <1>16 DEF SendAllRequest, Reads
  <2>. QED  BY <1>10, <1>11, <2>1 DEF Told
<1>17. CASE QuitRequest
  <2>1. Answer(<<"ok">>) /\ asked = "quit" /\ at = "quitting"
    BY <1>9, <1>10, <1>17 DEF QuitRequest, Reads
  <2>2. up' = << >>
    BY <1>9, <2>1 DEF Asked, Answer
  <2>3. server' = "closed"
    BY <1>17, <2>2 DEF QuitRequest, EndThread
  <2>. QED  BY <1>11, <2>1, <2>3
<1>18. CASE OtherRequest
  BY <1>9, <1>10, <1>18 DEF OtherRequest, Reads, Typed
<1>19. CASE InvalidRequest
  BY <1>9, <1>19 DEF InvalidRequest, Reads, Typed
<1>. QED  BY <1>6, <1>12, <1>13, <1>14, <1>15, <1>16, <1>17, <1>18, <1>19

LEMMA Invariance == Spec => []IInv
<1>1. IInv /\ [Next]_vars => IInv'
  BY TypeOKStep, StartedStep, NoneMissingStep, ExchangeStep DEF IInv
<1>. QED  BY <1>1, InitIInv, PTL DEF Spec

-------------------------------------------------------------------------------
(***************************************************************************)
(* Types of the session; and its user is in no room once it is over.       *)
(***************************************************************************)
THEOREM TypeCorrect == Spec => []TypeOK
<1>1. IInv => TypeOK
  BY DEF IInv
<1>. QED  BY <1>1, Invariance, PTL

(***************************************************************************)
(* While the sender client waits and the connection stands, a request or a *)
(* reply is under way, whatever was cut; and in a conversation that keeps  *)
(* to one line each, the reply it reads is that to its last request        *)
(* (sender.cpp:98-99).                                                     *)
(***************************************************************************)
THEOREM RepliesAreInStep == Spec => []ReplyAnswersRequest
<1>1. ASSUME TypeOK, Exchange, at # "gone"
      PROVE  InStep
  <2>1. CASE Quiet /\ ~Waiting
    BY <2>1 DEF Quiet, InStep
  <2>2. CASE Waiting /\ Asked
    BY <2>2 DEF Asked, InStep
  <2>3. CASE Waiting /\ Answered
    BY <2>3 DEF Answered, InStep
  <2>. QED  BY <1>1, <2>1, <2>2, <2>3 DEF Exchange, Waiting, TypeOK
<1>2. IInv => ReplyAnswersRequest
  BY <1>1 DEF IInv, ReplyAnswersRequest
<1>. QED  BY <1>2, Invariance, PTL

(***************************************************************************)
(* In such a conversation the room the client believes to be in is the one *)
(* the server has it in (server.cpp:146-167).                              *)
(***************************************************************************)
THEOREM RoomIsKnown == Spec => []RoomAsBelieved
<1>1. IInv => RoomAsBelieved
  BY DEF IInv, Exchange, RoomAsBelieved
<1>. QED  BY <1>1, Invariance, PTL
===============================================================================
