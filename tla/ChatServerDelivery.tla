-------------------------- MODULE ChatServerDelivery --------------------------
(***************************************************************************)
(* What the server's threads do to the stream of messages of each client,  *)
(* for any number of clients, rooms and requests: the mail of a user (its  *)
(* queue and what a running broadcast still owes it) grows by one message, *)
(* for every other member of the room at once, when a broadcast acquires   *)
(* the room's lock, and shrinks by one when its thread dequeues.  Hence    *)
(* DeliveryStream and the steps of the refinement of GroupChat.            *)
(***************************************************************************)
EXTENDS ChatServerProofs, SequenceFacts

USE DEF Clients, PC

(***************************************************************************)
(* Sequences of messages.                                                  *)
(***************************************************************************)
LEMMA MessagesAssociate ==
  \A s, t, u \in Seq(Messages) : (s \o t) \o u = s \o (t \o u)
BY ConcatAssociative

LEMMA AppendAtEnd ==
  ASSUME NEW s \in Seq(Messages), NEW t \in Seq(Messages), NEW m \in Messages
  PROVE  s \o Append(t, m) = Append(s \o t, m)
<1>1. /\ Append(t, m) = t \o <<m>>
      /\ Append(s \o t, m) = (s \o t) \o <<m>>
  BY AppendIsConcat, ConcatProperties
<1>2. <<m>> \in Seq(Messages)
  OBVIOUS
<1>3. (s \o t) \o <<m>> = s \o (t \o <<m>>)
  BY <1>2, MessagesAssociate
<1>. QED  BY <1>1, <1>3

(***************************************************************************)
(* Places in a log.                                                        *)
(***************************************************************************)
LEMMA DueIsFinite ==
  ASSUME NEW l \in Seq(Messages), NEW n \in Nat, NEW name
  PROVE  /\ Due(l, n, name) \subseteq 1..Len(l)
         /\ IsFiniteSet(Due(l, n, name))
<1>1. Due(l, n, name) \subseteq 1..Len(l)
  BY LenProperties DEF Due
<1>2. IsFiniteSet(1..Len(l))
  BY LenProperties, FS_Interval
<1>. QED  BY <1>1, <1>2, FS_Subset

LEMMA DueOfAppend ==
  ASSUME NEW l \in Seq(Messages), NEW m \in Messages, NEW n \in Nat, n <= Len(l),
         NEW name
  PROVE  Due(Append(l, m), n, name)
           = IF m.sender # name THEN Due(l, n, name) \cup {Len(l) + 1}
             ELSE Due(l, n, name)
<1>1. /\ Len(l) \in Nat /\ Len(Append(l, m)) = Len(l) + 1
      /\ \A i \in 1..Len(l) : Append(l, m)[i] = l[i]
      /\ Append(l, m)[Len(l) + 1] = m
  BY LenProperties, AppendProperties
<1>2. (n + 1)..(Len(l) + 1) = ((n + 1)..Len(l)) \cup {Len(l) + 1}
  BY <1>1
<1>3. \A i \in (n + 1)..Len(l) : Append(l, m)[i].sender = l[i].sender
  BY <1>1
<1>4. Append(l, m)[Len(l) + 1].sender = m.sender
  BY <1>1
<1>. QED  BY <1>1, <1>2, <1>3, <1>4 DEF Due

LEMMA NothingDue ==
  ASSUME NEW l \in Seq(Messages), NEW name
  PROVE  Lists(<< >>, l, Due(l, Len(l), name))
<1>1. Due(l, Len(l), name) = {}
  BY LenProperties DEF Due
<1>. QED  BY <1>1, ListsNothing

\* a message at the end of the log, listed at the end of q
LEMMA ListsLatest ==
  ASSUME NEW l \in Seq(Messages), NEW m \in Messages, NEW q \in Seq(Messages),
         NEW D \in SUBSET (1..Len(l)), Lists(q, l, D)
  PROVE  Lists(Append(q, m), Append(l, m), D \cup {Len(l) + 1})
<1>1. Len(l) \in Nat /\ Append(l, m)[Len(l) + 1] = m
  BY LenProperties, AppendProperties
<1>2. Lists(q, Append(l, m), D)
  BY ListsIgnoresAppend
<1>3. Len(l) + 1 \in Nat /\ \A i \in D : i \in 1..(Len(l) + 1) /\ i # Len(l) + 1
  BY <1>1
<1>. QED  BY <1>1, <1>2, <1>3, ListsGrows

-------------------------------------------------------------------------------
(***************************************************************************)
(* What a stream relies on besides the locks: a broadcast starts with      *)
(* nobody visited and a dequeue with no message in hand; a receiver joins  *)
(* once, and before it has joined nothing is queued for it or written.     *)
(***************************************************************************)
Serving == {"dequeue", "waiting", "deliver"}

Arriving == {"absent", "login", "join", "find.lock", "find", "create",
             "add.lock", "add"}

BroadcastInv == \A c \in Clients :
  /\ pc[c] # "broadcast" => visited[c] = {}
  /\ pc[c] # "deliver" => newMsg[c] = NoMessage

ReceiverInv == \A r \in Receivers :
  /\ after[r] = "done"
  /\ pc[r] \in Arriving => written[r] = << >> /\ mqueue[r] = << >>
  /\ pc[r] \in Serving => joinedAt[r] <= Len(log[room[r]])

(***************************************************************************)
(* Steps that touch neither a member set nor a queue: what they leave      *)
(* alone, stated once.                                                     *)
(***************************************************************************)
Quiet(c) ==
  \/ Peer(c) \/ Input(c) \/ EarlyEOF(c)
  \/ FindLock(c) \/ FindExisting(c) \/ FindNothing(c) \/ CreateRoom(c)
  \/ AddLock(c) \/ RemoveLock(c)
  \/ c \in Senders /\ SenderEOF(c)
  \/ c \in Receivers /\ (DequeueWait(c) \/ DequeueTimeout(c))

KeepsStage(d) ==
  /\ pc'[d] = "broadcast" <=> pc[d] = "broadcast"
  /\ pc'[d] = "deliver" <=> pc[d] = "deliver"
  /\ pc[d] \in Inside => room'[d] = room[d]
  /\ pc[d] = "broadcast" => requests'[d] = requests[d]
  /\ d \in Receivers => /\ after'[d] = after[d]
                        /\ pc'[d] \in Arriving => pc[d] \in Arriving
                        /\ pc'[d] \in Serving => pc[d] \in Serving

LEMMA QuietStep ==
  ASSUME TypeOK, NEW c \in Clients, Quiet(c)
  PROVE  /\ UNCHANGED <<members, visited, mqueue, newMsg, written, log, joinedAt>>
         /\ \A d \in Clients : KeepsStage(d)
<1>. USE DEF TypeOK, Types, LocalsSet, Goto, sharedVars, queueVars, sessionVars,
             Arriving, Serving, Inside, KeepsStage
<1>1. CASE Peer(c)
  BY <1>1 DEF Peer, Connect, PeerClose, PeerReset
<1>2. CASE Login(c) \/ LoginRefused(c) \/ EarlyEOF(c)
  BY <1>2, ClientsAssumption DEF Login, LoginRefused, EarlyEOF
<1>3. CASE c \in Senders /\ (RequestRefused(c) \/ SendAllRequest(c))
  BY <1>3, ClientsAssumption DEF RequestRefused, SendAllRequest, ReadRequest
<1>4. CASE c \in Senders /\ JoinRequest(c)
  BY <1>4, ClientsAssumption DEF JoinRequest, ReadRequest
<1>5. CASE c \in Senders /\ LeaveRequest(c)
  BY <1>5, ClientsAssumption DEF LeaveRequest, ReadRequest
<1>6. CASE c \in Senders /\ (QuitRequest(c) \/ SenderEOF(c))
  BY <1>6, ClientsAssumption DEF QuitRequest, SenderEOF, ReadRequest, EndChat
<1>7. CASE c \in Receivers /\ (ReceiverJoin(c) \/ ReceiverJoinRefused(c))
  BY <1>7 DEF ReceiverJoin, ReceiverJoinRefused
<1>8. CASE c \in Receivers /\ (DequeueWait(c) \/ DequeueTimeout(c))
  BY <1>8 DEF DequeueWait, DequeueTimeout
<1>9. CASE FindLock(c) \/ FindNothing(c) \/ AddLock(c) \/ RemoveLock(c)
  BY <1>9 DEF FindLock, FindNothing, AddLock, RemoveLock
<1>10. CASE FindExisting(c) \/ CreateRoom(c)
  BY <1>10 DEF FindExisting, CreateRoom
<1>. QED
  BY <1>1, <1>2, <1>3, <1>4, <1>5, <1>6, <1>7, <1>8, <1>9, <1>10 DEF Quiet, Input

LEMMA StepCases ==
  ASSUME [Next]_vars
  PROVE  \/ UNCHANGED vars
         \/ \E c \in Clients : Quiet(c) \/ AddMember(c) \/ RemoveMember(c)
         \/ \E s \in Senders : BroadcastLock(s) \/ BroadcastEnd(s)
         \/ \E s \in Senders, u \in Clients : BroadcastTo(s, u)
         \/ \E r \in Receivers : DequeueMessage(r) \/ SendDelivery(r) \/ SendFails(r)
BY DEF Next, Quiet, Internal, Output, Join, Leave, Broadcast, Quiescent

LEMMA InitBroadcastInv == Init => BroadcastInv /\ ReceiverInv
BY DEF Init, BroadcastInv, ReceiverInv, Serving, Arriving

LEMMA BroadcastInvStep ==
  ASSUME TypeOK, BroadcastInv, [Next]_vars PROVE BroadcastInv'
<1>. SUFFICES ASSUME NEW d \in Clients
              PROVE  /\ pc'[d] # "broadcast" => visited'[d] = {}
                     /\ pc'[d] # "deliver" => newMsg'[d] = NoMessage
  BY DEF BroadcastInv
<1>. USE DEF TypeOK, Types, BroadcastInv, Goto
<1>1. ASSUME NEW c \in Clients, Quiet(c)
      PROVE  /\ pc'[d] # "broadcast" => visited'[d] = {}
             /\ pc'[d] # "deliver" => newMsg'[d] = NoMessage
  <2>1. KeepsStage(d) /\ UNCHANGED <<visited, newMsg>>
    BY <1>1, QuietStep
  <2>. QED  BY <2>1 DEF KeepsStage
<1>2. ASSUME NEW c \in Clients, AddMember(c) \/ RemoveMember(c)
      PROVE  /\ pc'[d] # "broadcast" => visited'[d] = {}
             /\ pc'[d] # "deliver" => newMsg'[d] = NoMessage
  BY <1>2 DEF AddMember, RemoveMember, queueVars
<1>3. ASSUME NEW s \in Senders, BroadcastLock(s) \/ BroadcastEnd(s)
      PROVE  /\ pc'[d] # "broadcast" => visited'[d] = {}
             /\ pc'[d] # "deliver" => newMsg'[d] = NoMessage
  BY <1>3 DEF BroadcastLock, BroadcastEnd
<1>4. ASSUME NEW s \in Senders, NEW u \in Clients, BroadcastTo(s, u)
      PROVE  /\ pc'[d] # "broadcast" => visited'[d] = {}
             /\ pc'[d] # "deliver" => newMsg'[d] = NoMessage
  BY <1>4 DEF BroadcastTo, sessionVars
<1>5. ASSUME NEW r \in Receivers, DequeueMessage(r) \/ SendDelivery(r) \/ SendFails(r)
      PROVE  /\ pc'[d] # "broadcast" => visited'[d] = {}
             /\ pc'[d] # "deliver" => newMsg'[d] = NoMessage
  BY <1>5 DEF DequeueMessage, SendDelivery, SendFails
<1>6. CASE UNCHANGED vars
  BY <1>6 DEF vars, sessionVars, queueVars
<1>. QED  BY <1>1, <1>2, <1>3, <1>4, <1>5, <1>6, StepCases

(***************************************************************************)
(* The message a running broadcast owes a user: at most one, since the     *)
(* broadcasts in the user's room are those of the holder of its lock.      *)
(***************************************************************************)
LEMMA RoomOfMember ==
  ASSUME IInv, NEW u \in Clients, NEW s \in Clients,
         pc[s] \in Inside, room[s] \in Rooms, u \in members[room[s]]
  PROVE  room[u] = room[s] /\ pc[u] \in Inside
BY DEF IInv, MembershipMatchesSession

LEMMA BroadcasterHolds ==
  ASSUME IInv, NEW s \in Senders, pc[s] = "broadcast"
  PROVE  /\ room[s] \in Rooms /\ lock[room[s]] = s
         /\ Delivery(s) \in Messages
BY DeliveryIsMessage DEF IInv, TypeOK, LocalsSet, LockInv

LEMMA AwaitedIsHolder ==
  ASSUME IInv, NEW u \in Clients, NEW s \in Awaited(u)
  PROVE  /\ s \in Senders /\ room[u] = room[s] /\ room[s] \in Rooms
         /\ lock[room[u]] = s
         /\ Delivery(s) \in Messages
         /\ Awaited(u) = {s}
<1>1. \A t \in Awaited(u) : /\ t \in Senders /\ pc[t] = "broadcast"
                            /\ room[u] = room[t] /\ room[t] \in Rooms
                            /\ lock[room[u]] = t
  <2>. SUFFICES ASSUME NEW t \in Awaited(u)
                PROVE  /\ t \in Senders /\ pc[t] = "broadcast"
                       /\ room[u] = room[t] /\ room[t] \in Rooms
                       /\ lock[room[u]] = t
    OBVIOUS
  <2>1. t \in Senders /\ pc[t] = "broadcast" /\ u \in members[room[t]]
    BY DEF Awaited
  <2>2. room[t] \in Rooms /\ lock[room[t]] = t
    BY <2>1, BroadcasterHolds
  <2>3. room[u] = room[t]
    BY <2>1, <2>2, RoomOfMember DEF Inside
  <2>. QED  BY <2>1, <2>2, <2>3
<1>2. Delivery(s) \in Messages
  BY <1>1, BroadcasterHolds
<1>3. Awaited(u) = {s}
  BY <1>1
<1>. QED  BY <1>1, <1>2, <1>3

LEMMA PendingCases ==
  ASSUME NEW u
  PROVE  /\ Awaited(u) = {} => Pending(u) = << >>
         /\ \A s : Awaited(u) = {s} => Pending(u) = <<Delivery(s)>>
BY DEF Pending

LEMMA PendingCasesNext ==
  ASSUME NEW u
  PROVE  /\ Awaited(u)' = {} => Pending(u)' = << >>
         /\ \A s : Awaited(u)' = {s} => Pending(u)' = <<Delivery(s)'>>
BY DEF Pending, Delivery

Mail(u) == mqueue[u] \o Pending(u)

LEMMA PendingType ==
  ASSUME IInv, NEW u \in Clients
  PROVE  /\ Pending(u) \in Seq(Messages)
         /\ mqueue[u] \in Seq(Messages)
         /\ Mail(u) \in Seq(Messages)
<1>1. Pending(u) \in Seq(Messages)
  <2>1. CASE Awaited(u) = {}
    BY <2>1, PendingCases, EmptySeq
  <2>2. CASE Awaited(u) # {}
    <3>1. PICK s : s \in Awaited(u)
      BY <2>2
    <3>2. Awaited(u) = {s} /\ Delivery(s) \in Messages
      BY <3>1, AwaitedIsHolder
    <3>3. Pending(u) = <<Delivery(s)>>
      BY <3>2, PendingCases
    <3>. QED  BY <3>2, <3>3
  <2>. QED  BY <2>1, <2>2
<1>2. mqueue[u] \in Seq(Messages)
  BY DEF IInv, TypeOK, Types
<1>. QED  BY <1>1, <1>2, ConcatProperties DEF Mail

(***************************************************************************)
(* The same message is owed after a step that changes neither who owes it  *)
(* nor what the sender says.                                               *)
(***************************************************************************)
LEMMA PendingStays ==
  ASSUME IInv, NEW u \in Clients,
         Awaited(u)' = Awaited(u),
         \A s \in Awaited(u) : room'[s] = room[s] /\ requests'[s] = requests[s]
  PROVE  Pending(u)' = Pending(u)
<1>1. CASE Awaited(u) = {}
  BY <1>1, PendingCases, PendingCasesNext
<1>2. CASE Awaited(u) # {}
  <2>1. PICK s : s \in Awaited(u)
    BY <1>2
  <2>2. Awaited(u) = {s}
    BY <2>1, AwaitedIsHolder
  <2>3. Delivery(s)' = Delivery(s)
    BY <2>1 DEF Delivery
  <2>4. Pending(u) = <<Delivery(s)>>
    BY <2>2, PendingCases
  <2>5. Pending(u)' = <<Delivery(s)'>>
    BY <2>2, PendingCasesNext
  <2>. QED  BY <2>3, <2>4, <2>5
<1>. QED  BY <1>1, <1>2

LEMMA PendingUndisturbed ==
  ASSUME IInv, NEW u \in Clients,
         \A s \in Senders :
           /\ pc'[s] = "broadcast" <=> pc[s] = "broadcast"
           /\ pc[s] = "broadcast" =>
                /\ room'[s] = room[s] /\ requests'[s] = requests[s]
                /\ visited'[s] = visited[s]
                /\ members'[room[s]] = members[room[s]]
  PROVE  Pending(u)' = Pending(u)
<1>1. Awaited(u)' = Awaited(u)
  BY DEF Awaited
<1>2. \A s \in Awaited(u) : room'[s] = room[s] /\ requests'[s] = requests[s]
  BY DEF Awaited
<1>. QED  BY <1>1, <1>2, PendingStays

(***************************************************************************)
(* Members come and go only while no broadcast runs in the room.           *)
(***************************************************************************)
LEMMA QuietKeepsPending ==
  ASSUME IInv, NEW c \in Clients, Quiet(c), NEW u \in Clients
  PROVE  Pending(u)' = Pending(u)
<1>1. \A s \in Clients : KeepsStage(s)
  BY QuietStep DEF IInv
<1>2. UNCHANGED <<members, visited>>
  BY QuietStep DEF IInv
<1>. QED  BY <1>1, <1>2, PendingUndisturbed DEF KeepsStage, Inside

LEMMA MembershipKeepsPending ==
  ASSUME IInv, NEW c \in Clients, AddMember(c) \/ RemoveMember(c), NEW u \in Clients
  PROVE  Pending(u)' = Pending(u)
<1>1. /\ room[c] \in Rooms /\ lock[room[c]] = c /\ pc[c] \in {"add", "remove"}
      /\ pc'[c] # "broadcast"
      /\ \A d \in Clients : d # c => pc'[d] = pc[d] /\ room'[d] = room[d]
      /\ \A o \in Rooms : o # room[c] => members'[o] = members[o]
      /\ UNCHANGED <<requests, visited>>
  <2>1. pc[c] \in {"add", "remove"} /\ UNCHANGED <<requests, visited>>
    BY DEF AddMember, RemoveMember, Goto, queueVars
  <2>2. room[c] \in Rooms /\ lock[room[c]] = c
    BY <2>1 DEF IInv, TypeOK, LocalsSet, LockInv
  <2>3. pc'[c] # "broadcast"
    BY DEF AddMember, RemoveMember, Goto, IInv, TypeOK, Types
  <2>4. \A d \in Clients : d # c => pc'[d] = pc[d] /\ room'[d] = room[d]
    BY DEF AddMember, RemoveMember, Goto, IInv, TypeOK, Types
  <2>5. \A o \in Rooms : o # room[c] => members'[o] = members[o]
    BY DEF AddMember, RemoveMember, IInv, TypeOK, Types
  <2>. QED  BY <2>1, <2>2, <2>3, <2>4, <2>5
<1>2. ASSUME NEW s \in Senders, pc[s] = "broadcast"
      PROVE  s # c /\ room[s] \in Rooms /\ room[s] # room[c]
  BY <1>1, <1>2, BroadcasterHolds
<1>. QED  BY <1>1, <1>2, PendingUndisturbed

LEMMA ReceiverKeepsPending ==
  ASSUME IInv, NEW r \in Receivers, NEW u \in Clients,
         DequeueMessage(r) \/ SendDelivery(r) \/ SendFails(r)
  PROVE  Pending(u)' = Pending(u)
<1>1. /\ UNCHANGED <<room, requests, visited, members>>
      /\ r \notin Senders
      /\ \A d \in Clients : d # r => pc'[d] = pc[d]
  BY ClientsAssumption
     DEF DequeueMessage, SendDelivery, SendFails, Goto, sharedVars, IInv, TypeOK, Types
<1>. QED  BY <1>1, PendingUndisturbed

LEMMA EndKeepsPending ==
  ASSUME IInv, NEW s \in Senders, BroadcastEnd(s), NEW u \in Clients
  PROVE  Pending(u)' = Pending(u)
<1>1. /\ pc[s] = "broadcast" /\ pc'[s] # "broadcast"
      /\ members[room[s]] \subseteq visited[s]
      /\ UNCHANGED <<room, requests, members>>
      /\ \A d \in Clients : d # s => pc'[d] = pc[d] /\ visited'[d] = visited[d]
  BY DEF BroadcastEnd, Goto, IInv, TypeOK, Types
<1>2. s \notin Awaited(u)
  BY <1>1 DEF Awaited
<1>3. Awaited(u)' = Awaited(u)
  BY <1>1, <1>2 DEF Awaited
<1>. QED  BY <1>1, <1>3, PendingStays

(***************************************************************************)
(* One turn of a broadcast moves the message from what is owed to the      *)
(* queue, or skips a namesake, to whom nothing is owed.                    *)
(***************************************************************************)
LEMMA TurnKeepsMail ==
  ASSUME IInv, NEW s \in Senders, NEW v \in Clients, BroadcastTo(s, v),
         NEW u \in Clients
  PROVE  Mail(u)' = Mail(u)
<1>1. /\ pc[s] = "broadcast" /\ v \in members[room[s]] /\ v \notin visited[s]
      /\ UNCHANGED <<pc, room, requests, members>>
      /\ visited' = [visited EXCEPT ![s] = @ \cup {v}]
      /\ visited \in [Clients -> SUBSET Clients]
  BY DEF BroadcastTo, sessionVars, sharedVars, IInv, TypeOK, Types
<1>2. CASE u = v /\ UserName[v] # UserName[s]
  <2>1. s \in Awaited(u)
    BY <1>1, <1>2 DEF Awaited
  <2>2. Awaited(u) = {s} /\ Delivery(s) \in Messages
    BY <2>1, AwaitedIsHolder
  <2>3. Awaited(u)' = {}
    <3>1. s \notin Awaited(u)'
      BY <1>1, <1>2 DEF Awaited
    <3>2. \A d \in Senders : d # s => visited'[d] = visited[d]
      BY <1>1
    <3>3. Awaited(u)' \subseteq Awaited(u)
      BY <1>1, <3>1, <3>2 DEF Awaited
    <3>. QED  BY <2>2, <3>1, <3>3
  <2>4. Pending(u) = <<Delivery(s)>> /\ Pending(u)' = << >>
    BY <2>2, <2>3, PendingCases, PendingCasesNext
  <2>5. mqueue'[u] = Append(mqueue[u], Delivery(s)) /\ mqueue[u] \in Seq(Messages)
    BY <1>2 DEF BroadcastTo, IInv, TypeOK, Types
  <2>6. /\ Append(mqueue[u], Delivery(s)) \in Seq(Messages)
        /\ Append(mqueue[u], Delivery(s)) = mqueue[u] \o <<Delivery(s)>>
    BY <2>2, <2>5, AppendProperties, AppendIsConcat
  <2>7. mqueue'[u] \o << >> = mqueue'[u]
    BY <2>5, <2>6, ConcatEmptySeq
  <2>. QED  BY <2>4, <2>5, <2>6, <2>7 DEF Mail
<1>3. CASE ~(u = v /\ UserName[v] # UserName[s])
  <2>1. mqueue'[u] = mqueue[u]
    BY <1>3 DEF BroadcastTo, IInv, TypeOK, Types
  <2>2. \A d \in Senders : d # s => visited'[d] = visited[d]
    BY <1>1
  <2>3. visited'[s] = visited[s] \cup {v}
    BY <1>1
  <2>4. s \in Awaited(u)' <=> s \in Awaited(u)
    BY <1>1, <1>3, <2>3 DEF Awaited
  <2>5. \A d \in Senders : d # s => (d \in Awaited(u)' <=> d \in Awaited(u))
    BY <1>1, <2>2 DEF Awaited
  <2>6. Awaited(u) \subseteq Senders /\ Awaited(u)' \subseteq Senders
    BY DEF Awaited
  <2>7. Awaited(u)' = Awaited(u)
    BY <2>4, <2>5, <2>6
  <2>8. Pending(u)' = Pending(u)
    BY <1>1, <2>7, PendingStays
  <2>. QED  BY <2>1, <2>8 DEF Mail
<1>. QED  BY <1>2, <1>3

(***************************************************************************)
(* A broadcast that acquires the lock owes its message to every other      *)
(* member at once, and to nobody else.                                     *)
(***************************************************************************)
LEMMA LockPostsMail ==
  ASSUME IInv, BroadcastInv, NEW s \in Senders, BroadcastLock(s), NEW u \in Clients
  PROVE  /\ Delivery(s) \in Messages
         /\ Mail(u)' = IF u \in members[room[s]] /\ UserName[u] # UserName[s]
                       THEN Append(Mail(u), Delivery(s)) ELSE Mail(u)
<1>1. /\ pc[s] = "broadcast.lock" /\ pc'[s] = "broadcast"
      /\ room[s] \in Rooms /\ lock[room[s]] = NoSession
      /\ UNCHANGED <<room, requests, members, visited, mqueue>>
      /\ \A d \in Clients : d # s => pc'[d] = pc[d]
      /\ s \in Clients /\ visited[s] = {}
  BY DEF BroadcastLock, LockRoom, Goto, IInv, TypeOK, Types, LocalsSet, BroadcastInv
<1>2. Delivery(s) \in Messages
  BY <1>1, DeliveryIsMessage DEF IInv
<1>3. \A d \in Senders : d # s => (d \in Awaited(u)' <=> d \in Awaited(u))
  BY <1>1 DEF Awaited
<1>4. s \notin Awaited(u)
  BY <1>1 DEF Awaited
<1>5. s \in Awaited(u)' <=> u \in members[room[s]] /\ UserName[u] # UserName[s]
  BY <1>1 DEF Awaited
<1>6. Awaited(u) \subseteq Senders /\ Awaited(u)' \subseteq Senders
  BY DEF Awaited
<1>7. CASE u \in members[room[s]] /\ UserName[u] # UserName[s]
  <2>1. room[u] = room[s]
    BY <1>1, <1>7, RoomOfMember DEF Inside
  <2>2. Awaited(u) = {}
    <3>1. ASSUME NEW t \in Awaited(u) PROVE FALSE
      BY <1>1, <2>1, <3>1, AwaitedIsHolder, ClientsAssumption
    <3>. QED  BY <3>1
  <2>3. Awaited(u)' = {s}
    BY <1>3, <1>5, <1>6, <1>7, <2>2
  <2>4. Delivery(s)' = Delivery(s)
    BY <1>1 DEF Delivery
  <2>5. Pending(u) = << >> /\ Pending(u)' = <<Delivery(s)>>
    BY <2>2, <2>3, <2>4, PendingCases, PendingCasesNext
  <2>6. mqueue[u] \in Seq(Messages)
    BY PendingType
  <2>7. mqueue[u] \o << >> = mqueue[u]
    BY <2>6, ConcatEmptySeq
  <2>8. Append(mqueue[u], Delivery(s)) = mqueue[u] \o <<Delivery(s)>>
    BY <1>2, <2>6, AppendIsConcat
  <2>. QED  BY <1>1, <1>2, <1>7, <2>5, <2>7, <2>8 DEF Mail
<1>8. CASE ~(u \in members[room[s]] /\ UserName[u] # UserName[s])
  <2>1. Awaited(u)' = Awaited(u)
    BY <1>3, <1>4, <1>5, <1>6, <1>8
  <2>2. Pending(u)' = Pending(u)
    BY <1>1, <2>1, PendingStays
  <2>. QED  BY <1>1, <1>2, <1>8, <2>2 DEF Mail
<1>. QED  BY <1>7, <1>8

(***************************************************************************)
(* A dequeue takes the first message of the mail.                          *)
(***************************************************************************)
LEMMA DequeueTakesMail ==
  ASSUME IInv, NEW r \in Receivers, DequeueMessage(r)
  PROVE  /\ Mail(r) # << >> /\ Mail(r)' = Tail(Mail(r))
         /\ newMsg'[r] \in Messages
         /\ Mail(r) = <<newMsg'[r]>> \o Mail(r)'
         /\ \A u \in Clients : u # r => Mail(u)' = Mail(u)
<1>1. /\ mqueue[r] # << >> /\ mqueue[r] \in Seq(Messages)
      /\ newMsg'[r] = Head(mqueue[r]) /\ mqueue'[r] = Tail(mqueue[r])
      /\ \A u \in Clients : u # r => mqueue'[u] = mqueue[u]
  BY DEF DequeueMessage, IInv, TypeOK, Types
<1>2. \A u \in Clients : Pending(u)' = Pending(u)
  BY ReceiverKeepsPending
<1>3. Pending(r) \in Seq(Messages)
  BY PendingType
<1>4. /\ Head(mqueue[r]) \in Messages /\ Tail(mqueue[r]) \in Seq(Messages)
      /\ mqueue[r] = <<Head(mqueue[r])>> \o Tail(mqueue[r])
  BY <1>1, HeadTailProperties, SMT
<1>5. Mail(r) = <<Head(mqueue[r])>> \o (Tail(mqueue[r]) \o Pending(r))
  <2>1. <<Head(mqueue[r])>> \in Seq(Messages)
    BY <1>4
  <2>2. (<<Head(mqueue[r])>> \o Tail(mqueue[r])) \o Pending(r)
          = <<Head(mqueue[r])>> \o (Tail(mqueue[r]) \o Pending(r))
    BY <1>3, <1>4, <2>1, MessagesAssociate, Zenon
  <2>3. Mail(r) = (<<Head(mqueue[r])>> \o Tail(mqueue[r])) \o Pending(r)
    BY <1>4, Zenon DEF Mail
  <2>. QED  BY <2>2, <2>3, Zenon
<1>6. Mail(r)' = Tail(mqueue[r]) \o Pending(r)
  BY <1>1, <1>2 DEF Mail
<1>7. Mail(r)' \in Seq(Messages)
  BY <1>3, <1>4, <1>6, ConcatProperties
<1>8. ASSUME NEW m \in Messages, NEW q \in Seq(Messages)
      PROVE  <<m>> \o q # << >> /\ Tail(<<m>> \o q) = q
  BY <1>8, SMT
<1>9. \A u \in Clients : u # r => Mail(u)' = Mail(u)
  BY <1>1, <1>2 DEF Mail
<1>. QED  BY <1>1, <1>4, <1>5, <1>6, <1>7, <1>8, <1>9

(***************************************************************************)
(* The stream is what the thread has taken followed by the mail.           *)
(***************************************************************************)
Taken(r) == written[r] \o InHand(r)

StreamSplits == \A r \in Receivers :
  /\ Taken(r) \in Seq(Messages) /\ Mail(r) \in Seq(Messages)
  /\ Stream(r) = Taken(r) \o Mail(r)

LEMMA StreamIsTakenAndMail == IInv => StreamSplits
<1>. SUFFICES ASSUME IInv, NEW r \in Receivers
              PROVE  /\ Taken(r) \in Seq(Messages) /\ Mail(r) \in Seq(Messages)
                     /\ Stream(r) = Taken(r) \o Mail(r)
  BY DEF StreamSplits
<1>1. /\ mqueue[r] \in Seq(Messages) /\ Pending(r) \in Seq(Messages)
      /\ Mail(r) \in Seq(Messages)
  BY PendingType
<1>2. written[r] \in Seq(Messages) /\ InHand(r) \in Seq(Messages)
  <2>1. newMsg[r] \in Messages \cup {NoMessage} /\ written[r] \in Seq(Messages)
    BY DEF IInv, TypeOK, Types
  <2>2. CASE newMsg[r] = NoMessage
    BY <2>1, <2>2, EmptySeq DEF InHand
  <2>3. CASE newMsg[r] # NoMessage
    <3>1. newMsg[r] \in Messages
      BY <2>1, <2>3
    <3>2. <<newMsg[r]>> \in Seq(Messages)
      BY <3>1
    <3>. QED  BY <2>1, <2>3, <3>2 DEF InHand
  <2>. QED  BY <2>2, <2>3
<1>3. Taken(r) \in Seq(Messages)
  BY <1>2, ConcatProperties DEF Taken
<1>4. (Taken(r) \o mqueue[r]) \o Pending(r) = Taken(r) \o (mqueue[r] \o Pending(r))
  BY <1>1, <1>3, MessagesAssociate, Zenon
<1>. QED  BY <1>1, <1>3, <1>4, Zenon DEF Stream, Taken, Mail

LEMMA StreamSplitsNext == IInv' => StreamSplits'
<1>. QED  BY StreamIsTakenAndMail, PTL

-------------------------------------------------------------------------------
LEMMA ReceiverInvStep ==
  ASSUME IInv, ReceiverInv, [Next]_vars PROVE ReceiverInv'
<1>. DEFINE Goal(r) ==
       /\ after'[r] = "done"
       /\ pc'[r] \in Arriving => written'[r] = << >> /\ mqueue'[r] = << >>
       /\ pc'[r] \in Serving => joinedAt'[r] <= Len(log'[room'[r]])
<1>. SUFFICES ASSUME NEW r \in Receivers PROVE Goal(r)
  BY DEF ReceiverInv
<1>0. /\ after[r] = "done" /\ r \in Clients /\ r \notin Senders
      /\ pc[r] \in Arriving => written[r] = << >> /\ mqueue[r] = << >>
      /\ pc[r] \in Serving => joinedAt[r] <= Len(log[room[r]])
  BY ClientsAssumption DEF ReceiverInv
<1>1. ASSUME NEW c \in Clients, Quiet(c) PROVE Goal(r)
  <2>1. /\ KeepsStage(r)
        /\ UNCHANGED <<mqueue, written, log, joinedAt>>
    BY <1>0, <1>1, QuietStep DEF IInv
  <2>. QED  BY <1>0, <2>1 DEF KeepsStage, Serving, Inside
<1>2. ASSUME NEW c \in Clients, AddMember(c) PROVE Goal(r)
  <2>1. /\ UNCHANGED <<after, mqueue, written, log, room>>
        /\ c # r => pc'[r] = pc[r] /\ joinedAt'[r] = joinedAt[r]
        /\ c = r => pc'[r] = "dequeue" /\ joinedAt'[r] = Len(log[room[r]])
    BY <1>0, <1>2 DEF AddMember, Goto, queueVars, IInv, TypeOK, Types
  <2>2. c = r => room[r] \in Rooms
    BY <1>2 DEF AddMember, Goto, IInv, TypeOK, LocalsSet
  <2>3. c = r => Len(log[room[r]]) \in Nat
    BY <2>2, LenProperties DEF IInv, TypeOK, Types
  <2>. QED  BY <1>0, <2>1, <2>3 DEF Serving, Arriving
<1>3. ASSUME NEW c \in Clients, RemoveMember(c) PROVE Goal(r)
  <2>1. /\ UNCHANGED <<mqueue, written, log, joinedAt>>
        /\ c # r => pc'[r] = pc[r] /\ room'[r] = room[r] /\ after'[r] = after[r]
        /\ c = r => pc'[r] = after[r] /\ after'[r] = "done"
    BY <1>0, <1>3 DEF RemoveMember, Goto, queueVars, IInv, TypeOK, Types
  <2>. QED  BY <1>0, <2>1 DEF Serving, Arriving
<1>4. ASSUME NEW s \in Senders, BroadcastLock(s) PROVE Goal(r)
  <2>1. /\ UNCHANGED <<after, mqueue, written, room, joinedAt>>
        /\ pc'[r] = pc[r]
        /\ room[s] \in Rooms
        /\ log' = [log EXCEPT ![room[s]] = Append(@, Delivery(s))]
        /\ Delivery(s) \in Messages
    BY <1>0, <1>4, DeliveryIsMessage
       DEF BroadcastLock, Goto, IInv, TypeOK, Types, LocalsSet
  <2>2. ASSUME pc[r] \in Serving
        PROVE  Len(log[room[r]]) \in Nat /\ Len(log'[room[r]]) >= Len(log[room[r]])
    <3>1. room[r] \in Rooms /\ log \in [Rooms -> Seq(Messages)]
      BY <2>2 DEF Serving, IInv, TypeOK, Types, LocalsSet
    <3>2. Len(log[room[r]]) \in Nat
      BY <3>1, LenProperties
    <3>3. CASE room[r] = room[s]
      <4>1. log'[room[r]] = Append(log[room[r]], Delivery(s))
        BY <2>1, <3>1, <3>3
      <4>. QED  BY <2>1, <3>1, <3>2, <4>1, AppendProperties
    <3>4. CASE room[r] # room[s]
      BY <2>1, <3>1, <3>2, <3>4
    <3>. QED  BY <3>3, <3>4
  <2>3. joinedAt[r] \in Nat
    BY <1>0 DEF IInv, TypeOK, Types
  <2>4. ASSUME pc[r] \in Serving PROVE joinedAt'[r] <= Len(log'[room'[r]])
    <3>1. PICK a \in Nat : a = Len(log[room[r]])
      BY <2>2, <2>4
    <3>2. Len(log'[room[r]]) \in Nat
      BY <2>1, <2>4, LenProperties, IInvStep DEF Serving, IInv, TypeOK, Types, LocalsSet
    <3>. QED  BY <1>0, <2>1, <2>2, <2>3, <2>4, <3>1, <3>2
  <2>. QED  BY <1>0, <2>1, <2>4
<1>5. ASSUME NEW s \in Senders, NEW u \in Clients, BroadcastTo(s, u) PROVE Goal(r)
  <2>1. /\ UNCHANGED <<pc, after, written, room, log, joinedAt>>
        /\ pc[s] = "broadcast" /\ u \in members[room[s]]
        /\ u # r => mqueue'[r] = mqueue[r]
    BY <1>0, <1>5 DEF BroadcastTo, sessionVars, IInv, TypeOK, Types
  <2>2. pc[u] \in Inside
    BY <2>1, BroadcasterHolds, RoomOfMember DEF Inside
  <2>. QED  BY <1>0, <2>1, <2>2 DEF Inside, Arriving
<1>6. ASSUME NEW s \in Senders, BroadcastEnd(s) PROVE Goal(r)
  <2>1. /\ UNCHANGED <<after, mqueue, written, room, log, joinedAt>>
        /\ pc'[r] = pc[r]
    BY <1>0, <1>6 DEF BroadcastEnd, Goto, IInv, TypeOK, Types
  <2>. QED  BY <1>0, <2>1
<1>7. ASSUME NEW q \in Receivers, DequeueMessage(q) \/ SendDelivery(q) \/ SendFails(q)
      PROVE  Goal(r)
  <2>1. UNCHANGED <<after, room, log, joinedAt>>
    BY <1>7 DEF DequeueMessage, SendDelivery, SendFails
  <2>2. q # r => pc'[r] = pc[r] /\ mqueue'[r] = mqueue[r] /\ written'[r] = written[r]
    BY <1>0, <1>7
       DEF DequeueMessage, SendDelivery, SendFails, Goto, IInv, TypeOK, Types
  <2>3. q = r => pc'[r] \notin Arriving /\ (pc'[r] \in Serving => pc[r] \in Serving)
    BY <1>0, <1>7
       DEF DequeueMessage, SendDelivery, SendFails, Goto, IInv, TypeOK, Types,
           Arriving, Serving
  <2>. QED  BY <1>0, <2>1, <2>2, <2>3
<1>8. CASE UNCHANGED vars
  BY <1>0, <1>8 DEF vars, sessionVars, queueVars
<1>. QED  BY <1>1, <1>2, <1>3, <1>4, <1>5, <1>6, <1>7, <1>8, StepCases

(***************************************************************************)
(* DeliveryStream, one receiver at a time.                                 *)
(***************************************************************************)
Listed(r) ==
  Lists(Stream(r), log[room[r]], Due(log[room[r]], joinedAt[r], UserName[r]))

DInv == IInv /\ BroadcastInv /\ ReceiverInv /\ DeliveryStream

LEMMA StreamListed == DeliveryStream <=> \A r \in Receivers : pc[r] \in Serving => Listed(r)
BY DEF DeliveryStream, Serving, Listed

(***************************************************************************)
(* Steps that neither change the log a receiver follows nor what it has    *)
(* taken and its mail, put together.                                       *)
(***************************************************************************)
LEMMA ListedStays ==
  ASSUME IInv, IInv', NEW r \in Receivers, Listed(r),
         room'[r] = room[r], joinedAt'[r] = joinedAt[r],
         log'[room[r]] = log[room[r]],
         Taken(r)' \o Mail(r)' = Taken(r) \o Mail(r)
  PROVE  Listed(r)'
<1>1. Stream(r)' = Taken(r)' \o Mail(r)'
  BY StreamSplitsNext DEF StreamSplits
<1>2. Stream(r) = Taken(r) \o Mail(r)
  BY StreamIsTakenAndMail DEF StreamSplits
<1>3. Stream(r)' = Stream(r)
  BY <1>1, <1>2
<1>. QED  BY <1>3 DEF Listed

LEMMA TakenStays ==
  ASSUME NEW r, written'[r] = written[r], newMsg'[r] = newMsg[r]
  PROVE  Taken(r)' = Taken(r)
BY DEF Taken, InHand

LEMMA MailStays ==
  ASSUME NEW r, mqueue'[r] = mqueue[r], Pending(r)' = Pending(r)
  PROVE  Mail(r)' = Mail(r)
BY DEF Mail

(***************************************************************************)
(* A receiver that joins starts with an empty stream at the end of the log.*)
(***************************************************************************)
LEMMA JoinStartsStream ==
  ASSUME IInv, IInv', BroadcastInv, ReceiverInv, NEW r \in Receivers, AddMember(r)
  PROVE  Listed(r)'
<1>1. /\ pc[r] = "add" /\ room'[r] = room[r] /\ room[r] \in Rooms
      /\ joinedAt'[r] = Len(log[room[r]])
      /\ UNCHANGED <<mqueue, newMsg, written, log>>
  BY DEF AddMember, Goto, queueVars, IInv, TypeOK, Types, LocalsSet
<1>2. written[r] = << >> /\ mqueue[r] = << >> /\ newMsg[r] = NoMessage
  BY <1>1 DEF ReceiverInv, BroadcastInv, Arriving
<1>3. Awaited(r) = {}
  <2>1. ASSUME NEW s \in Awaited(r) PROVE FALSE
    <3>1. s \in Senders /\ pc[s] = "broadcast" /\ r \in members[room[s]]
      BY DEF Awaited
    <3>2. pc[r] \in Inside
      BY <3>1, BroadcasterHolds, RoomOfMember DEF Inside
    <3>. QED  BY <1>1, <3>2 DEF Inside
  <2>. QED  BY <2>1
<1>4. Pending(r)' = << >>
  BY <1>3, PendingCases, MembershipKeepsPending
<1>5. Stream(r)' = << >>
  <2>1. InHand(r)' = << >>
    BY <1>1, <1>2 DEF InHand
  <2>2. Stream(r)' = ((<< >> \o << >>) \o << >>) \o << >>
    BY <1>1, <1>2, <1>4, <2>1 DEF Stream
  <2>3. << >> \o << >> = << >>
    BY EmptySeq, ConcatEmptySeq
  <2>. QED  BY <2>2, <2>3
<1>6. log[room[r]] \in Seq(Messages)
  BY <1>1 DEF IInv, TypeOK, Types
<1>. QED  BY <1>1, <1>5, <1>6, NothingDue DEF Listed

(***************************************************************************)
(* A broadcast adds its message to the log and, unless the receiver has    *)
(* the sender's name, to its stream.                                       *)
(***************************************************************************)
LEMMA PostKeepsListed ==
  ASSUME IInv, IInv', BroadcastInv, ReceiverInv,
         NEW s \in Senders, BroadcastLock(s),
         NEW r \in Receivers, pc[r] \in Serving, Listed(r)
  PROVE  Listed(r)'
<1>1. /\ room[s] \in Rooms /\ UNCHANGED <<room, joinedAt, written, newMsg, members>>
      /\ log' = [log EXCEPT ![room[s]] = Append(@, Delivery(s))]
      /\ log \in [Rooms -> Seq(Messages)]
  BY DEF BroadcastLock, Goto, IInv, TypeOK, Types, LocalsSet
<1>2. /\ Delivery(s) \in Messages
      /\ Mail(r)' = IF r \in members[room[s]] /\ UserName[r] # UserName[s]
                    THEN Append(Mail(r), Delivery(s)) ELSE Mail(r)
  BY LockPostsMail
<1>3. /\ Taken(r) \in Seq(Messages) /\ Mail(r) \in Seq(Messages)
      /\ Stream(r) = Taken(r) \o Mail(r)
      /\ Stream(r)' = Taken(r)' \o Mail(r)'
  BY StreamIsTakenAndMail, StreamSplitsNext DEF StreamSplits
<1>4. Taken(r)' = Taken(r)
  BY <1>1, TakenStays
<1>5. /\ room[r] \in Rooms /\ r \in members[room[r]]
      /\ joinedAt[r] \in Nat /\ joinedAt[r] <= Len(log[room[r]])
  BY DEF IInv, TypeOK, Types, LocalsSet, MembershipMatchesSession, ReceiverInv,
         Serving, Inside
<1>6. CASE room[r] # room[s]
  <2>1. r \notin members[room[s]]
    BY <1>1, <1>6 DEF IInv, MembershipMatchesSession
  <2>2. log'[room[r]] = log[room[r]] /\ Mail(r)' = Mail(r)
    BY <1>1, <1>2, <1>5, <1>6, <2>1
  <2>. QED  BY <1>1, <1>4, <2>2, ListedStays
<1>7. CASE room[r] = room[s]
  <2>. DEFINE l == log[room[r]]
              D == Due(l, joinedAt[r], UserName[r])
              m == Delivery(s)
  <2>1. /\ l \in Seq(Messages) /\ m \in Messages /\ m.sender = UserName[s]
        /\ log'[room[r]] = Append(l, m)
    BY <1>1, <1>2, <1>5, <1>7 DEF Delivery
  <2>2. D \subseteq 1..Len(l) /\ Lists(Stream(r), l, D) /\ Stream(r) \in Seq(Messages)
    BY <1>3, <1>5, <2>1, DueIsFinite, ConcatProperties DEF Listed
  <2>3. Listed(r)' <=> Lists(Stream(r)', Append(l, m),
                             Due(Append(l, m), joinedAt[r], UserName[r]))
    BY <1>1, <2>1 DEF Listed
  <2>4. CASE UserName[r] # UserName[s]
    <3>1. Due(Append(l, m), joinedAt[r], UserName[r]) = D \cup {Len(l) + 1}
      BY <1>5, <2>1, <2>4, DueOfAppend
    <3>2. Stream(r)' = Append(Stream(r), m)
      BY <1>2, <1>3, <1>4, <1>5, <1>7, <2>4, AppendAtEnd
    <3>. QED  BY <2>1, <2>2, <2>3, <3>1, <3>2, ListsLatest
  <2>5. CASE UserName[r] = UserName[s]
    <3>1. Due(Append(l, m), joinedAt[r], UserName[r]) = D
      BY <1>5, <2>1, <2>5, DueOfAppend
    <3>2. Stream(r)' = Stream(r)
      BY <1>2, <1>3, <1>4, <2>5
    <3>. QED  BY <2>1, <2>2, <2>3, <3>1, <3>2, ListsIgnoresAppend
  <2>. QED  BY <2>4, <2>5
<1>. QED  BY <1>6, <1>7

(***************************************************************************)
(* A dequeue moves the first message of the mail into the thread's hand, a *)
(* send moves it from the hand to the socket.                              *)
(***************************************************************************)
LEMMA DequeueKeepsListed ==
  ASSUME IInv, IInv', BroadcastInv,
         NEW r \in Receivers, DequeueMessage(r), Listed(r)
  PROVE  Listed(r)'
<1>1. /\ UNCHANGED <<room, joinedAt, log, written>>
      /\ newMsg[r] = NoMessage /\ r \in Clients
      /\ written[r] \in Seq(Messages)
  BY DEF DequeueMessage, Goto, BroadcastInv, IInv, TypeOK, Types
<1>2. newMsg'[r] \in Messages /\ Mail(r) = <<newMsg'[r]>> \o Mail(r)'
  BY DequeueTakesMail
<1>3. Taken(r)' = written[r] \o <<newMsg'[r]>>
  BY <1>1, <1>2, ValuesAssumption DEF Taken, InHand
<1>4. Taken(r) = written[r]
  <2>1. Taken(r) = written[r] \o << >>
    BY <1>1 DEF Taken, InHand
  <2>. QED  BY <1>1, <2>1, ConcatEmptySeq
<1>5. Mail(r)' \in Seq(Messages) /\ <<newMsg'[r]>> \in Seq(Messages)
  BY <1>2, StreamSplitsNext DEF StreamSplits
<1>6. (written[r] \o <<newMsg'[r]>>) \o Mail(r)'
        = written[r] \o (<<newMsg'[r]>> \o Mail(r)')
  BY <1>1, <1>5, MessagesAssociate, Zenon
<1>7. Taken(r)' \o Mail(r)' = Taken(r) \o Mail(r)
  BY <1>2, <1>3, <1>4, <1>6, Zenon
<1>. QED  BY <1>1, <1>7, ListedStays

LEMMA SendKeepsListed ==
  ASSUME IInv, IInv', NEW r \in Receivers, SendDelivery(r), Listed(r)
  PROVE  Listed(r)'
<1>1. /\ UNCHANGED <<room, joinedAt, log, mqueue>>
      /\ written'[r] = Append(written[r], newMsg[r]) /\ newMsg'[r] = NoMessage
      /\ newMsg[r] \in Messages /\ written[r] \in Seq(Messages)
  BY DEF SendDelivery, Goto, IInv, TypeOK, Types, LocalsSet
<1>2. Taken(r) = written[r] \o <<newMsg[r]>>
  BY <1>1, ValuesAssumption DEF Taken, InHand
<1>3. Taken(r)' = Append(written[r], newMsg[r])
  <2>1. Taken(r)' = Append(written[r], newMsg[r]) \o << >>
    BY <1>1 DEF Taken, InHand
  <2>. QED  BY <1>1, <2>1, AppendProperties, ConcatEmptySeq
<1>4. Taken(r)' = Taken(r)
  BY <1>1, <1>2, <1>3, AppendIsConcat
<1>5. Mail(r)' = Mail(r)
  BY <1>1, ReceiverKeepsPending, MailStays
<1>. QED  BY <1>1, <1>4, <1>5, ListedStays

LEMMA DeliveryStreamStep ==
  ASSUME DInv, IInv', [Next]_vars PROVE DeliveryStream'
<1>. SUFFICES ASSUME NEW r \in Receivers, pc'[r] \in Serving PROVE Listed(r)'
  BY DEF DeliveryStream, Serving, Listed
<1>. USE DEF DInv
<1>0. /\ r \in Clients /\ r \notin Senders
      /\ pc[r] \in Serving => Listed(r)
      /\ pc \in [Clients -> PC]
  BY StreamListed, ClientsAssumption DEF IInv, TypeOK, Types
<1>1. ASSUME NEW c \in Clients, Quiet(c) PROVE Listed(r)'
  <2>1. KeepsStage(r) /\ UNCHANGED <<mqueue, newMsg, written, log, joinedAt>>
    BY <1>0, <1>1, QuietStep DEF IInv
  <2>2. pc[r] \in Serving /\ room'[r] = room[r]
    BY <1>0, <2>1 DEF KeepsStage, Serving, Inside
  <2>3. Taken(r)' = Taken(r) /\ Mail(r)' = Mail(r)
    BY <1>0, <1>1, <2>1, TakenStays, MailStays, QuietKeepsPending
  <2>. QED  BY <1>0, <2>1, <2>2, <2>3, ListedStays
<1>2. ASSUME NEW c \in Clients, AddMember(c) PROVE Listed(r)'
  <2>1. CASE c = r
    BY <1>2, <2>1, JoinStartsStream
  <2>2. CASE c # r
    <3>1. /\ pc'[r] = pc[r] /\ joinedAt'[r] = joinedAt[r]
          /\ UNCHANGED <<room, mqueue, newMsg, written, log>>
      BY <1>0, <1>2, <2>2 DEF AddMember, Goto, queueVars, IInv, TypeOK, Types
    <3>2. Taken(r)' = Taken(r) /\ Mail(r)' = Mail(r)
      BY <1>0, <1>2, <3>1, TakenStays, MailStays, MembershipKeepsPending
    <3>. QED  BY <1>0, <3>1, <3>2, ListedStays
  <2>. QED  BY <2>1, <2>2
<1>3. ASSUME NEW c \in Clients, RemoveMember(c) PROVE Listed(r)'
  <2>1. c # r
    BY <1>3 DEF RemoveMember, Goto, ReceiverInv, Serving, IInv, TypeOK, Types
  <2>2. /\ pc'[r] = pc[r] /\ room'[r] = room[r]
        /\ UNCHANGED <<mqueue, newMsg, written, log, joinedAt>>
    BY <1>0, <1>3, <2>1 DEF RemoveMember, Goto, queueVars, IInv, TypeOK, Types
  <2>3. Taken(r)' = Taken(r) /\ Mail(r)' = Mail(r)
    BY <1>0, <1>3, <2>2, TakenStays, MailStays, MembershipKeepsPending
  <2>. QED  BY <1>0, <2>2, <2>3, ListedStays
<1>4. ASSUME NEW s \in Senders, BroadcastLock(s) PROVE Listed(r)'
  <2>1. pc'[r] = pc[r]
    BY <1>0, <1>4 DEF BroadcastLock, Goto
  <2>. QED  BY <1>0, <1>4, <2>1, PostKeepsListed
<1>5. ASSUME NEW s \in Senders, NEW u \in Clients, BroadcastTo(s, u) PROVE Listed(r)'
  <2>1. UNCHANGED <<pc, room, newMsg, written, log, joinedAt>>
    BY <1>5 DEF BroadcastTo, sessionVars
  <2>2. Taken(r)' = Taken(r) /\ Mail(r)' = Mail(r)
    BY <1>0, <1>5, <2>1, TakenStays, TurnKeepsMail
  <2>. QED  BY <1>0, <2>1, <2>2, ListedStays
<1>6. ASSUME NEW s \in Senders, BroadcastEnd(s) PROVE Listed(r)'
  <2>1. /\ pc'[r] = pc[r]
        /\ UNCHANGED <<room, mqueue, newMsg, written, log, joinedAt>>
    BY <1>0, <1>6 DEF BroadcastEnd, Goto
  <2>2. Taken(r)' = Taken(r) /\ Mail(r)' = Mail(r)
    BY <1>0, <1>6, <2>1, TakenStays, MailStays, EndKeepsPending
  <2>. QED  BY <1>0, <2>1, <2>2, ListedStays
<1>7. ASSUME NEW q \in Receivers, DequeueMessage(q) \/ SendDelivery(q) \/ SendFails(q)
      PROVE  Listed(r)'
  <2>1. CASE q = r
    <3>1. ~SendFails(r)
      BY <1>0 DEF SendFails, Goto, Serving
    <3>2. pc[r] \in Serving
      BY <1>7, <2>1, <3>1 DEF DequeueMessage, SendDelivery, Goto, Serving
    <3>. QED  BY <1>0, <1>7, <2>1, <3>1, <3>2, DequeueKeepsListed, SendKeepsListed
  <2>2. CASE q # r
    <3>1. /\ pc'[r] = pc[r] /\ mqueue'[r] = mqueue[r]
          /\ newMsg'[r] = newMsg[r] /\ written'[r] = written[r]
          /\ UNCHANGED <<room, log, joinedAt>>
      BY <1>0, <1>7, <2>2
         DEF DequeueMessage, SendDelivery, SendFails, Goto, IInv, TypeOK, Types
    <3>2. Taken(r)' = Taken(r) /\ Mail(r)' = Mail(r)
      BY <1>0, <1>7, <3>1, TakenStays, MailStays, ReceiverKeepsPending
    <3>. QED  BY <1>0, <3>1, <3>2, ListedStays
  <2>. QED  BY <2>1, <2>2
<1>8. CASE UNCHANGED vars
  BY <1>0, <1>8
     DEF vars, sessionVars, sharedVars, queueVars, Listed, Stream, InHand, Pending,
         Awaited, Delivery
<1>. QED  BY <1>1, <1>2, <1>3, <1>4, <1>5, <1>6, <1>7, <1>8, StepCases

-------------------------------------------------------------------------------
LEMMA InitDInv == Init => DInv
<1>1. Init => DeliveryStream
  BY DEF Init, DeliveryStream
<1>. QED  BY <1>1, InitIInv, InitBroadcastInv DEF DInv

LEMMA DInvStep == DInv /\ [Next]_vars => DInv'
BY IInvStep, BroadcastInvStep, ReceiverInvStep, DeliveryStreamStep DEF DInv, IInv

LEMMA DInvariance == Spec => []DInv
BY InitDInv, DInvStep, PTL DEF Spec

(***************************************************************************)
(* What a serving receiver was written, holds and is still to get are the  *)
(* messages of other users in its room's log since it joined: none lost,   *)
(* doubled or reordered, whoever broadcasts, joins and leaves meanwhile.   *)
(***************************************************************************)
THEOREM StreamsFollowTheLog == Spec => []DeliveryStream
<1>1. DInv => DeliveryStream
  BY DEF DInv
<1>. QED  BY <1>1, DInvariance, PTL

-------------------------------------------------------------------------------
(***************************************************************************)
(* ChatServer implements GroupChat: AddMember and RemoveMember are the     *)
(* moments a client enters and leaves, a broadcast is posted to everybody  *)
(* when it acquires the lock of its room, and a dequeue reads.  Every      *)
(* other step, the turns of a broadcast among them, changes nothing that a *)
(* client can tell.                                                        *)
(***************************************************************************)
WhereMap == [c \in Clients |-> Where(c)]
MailMap == [c \in Clients |-> Mail(c)]

LEMMA MapsAreGroups ==
  /\ Group!GInit <=> /\ WhereMap = [c \in Clients |-> NoRoom]
                     /\ MailMap = [c \in Clients |-> << >>]
  /\ UNCHANGED <<WhereMap, MailMap>> => [Group!GNext]_(Group!gvars)
BY DEF WhereMap, MailMap, Mail, Group!GInit, Group!gvars

(***************************************************************************)
(* A client is somewhere exactly while its thread is Inside, and clients   *)
(* are in the same place exactly when they are members of one Room.        *)
(***************************************************************************)
LEMMA WhereIsRoom ==
  ASSUME IInv, NEW c \in Clients
  PROVE  /\ pc[c] \in Inside /\ room[c] \in Rooms =>
              Where(c) = room[c].name /\ room[c].name \in RoomNames /\ Where(c) # NoRoom
         /\ pc[c] \notin Inside => Where(c) = NoRoom
         /\ room[c] = NoRoom => Where(c) = NoRoom
<1>1. room[c] \in Rooms \cup {NoRoom}
  BY DEF IInv, TypeOK, Types
<1>2. room[c] \in Rooms => (c \in members[room[c]] <=> pc[c] \in Inside)
  BY DEF IInv, MembershipMatchesSession
<1>3. room[c] \in Rooms => room[c].name \in RoomNames /\ room[c] # NoRoom
  BY ValuesAssumption DEF Rooms
<1>. QED  BY <1>1, <1>2, <1>3, ValuesAssumption DEF Where

LEMMA SamePlaceSameRoom ==
  ASSUME IInv, NEW s \in Clients, NEW d \in Clients,
         pc[s] \in Inside, room[s] \in Rooms
  PROVE  Where(d) = Where(s) <=> d \in members[room[s]]
<1>1. Where(s) = room[s].name /\ Where(s) # NoRoom
  BY WhereIsRoom
<1>2. ASSUME d \in members[room[s]] PROVE Where(d) = Where(s)
  <2>1. room[d] = room[s] /\ pc[d] \in Inside
    BY <1>2, RoomOfMember
  <2>. QED  BY <1>1, <2>1, WhereIsRoom
<1>3. ASSUME Where(d) = Where(s) PROVE d \in members[room[s]]
  <2>1. /\ room[d] # NoRoom /\ d \in members[room[d]]
        /\ room[d].name = room[s].name
    BY <1>1, <1>3 DEF Where
  <2>2. room[s] # NoRoom
    BY ValuesAssumption
  <2>3. room[d] = room[s]
    BY <2>1, <2>2 DEF IInv, OneRoomPerName
  <2>. QED  BY <2>1, <2>3
<1>. QED  BY <1>2, <1>3

LEMMA WhereStays ==
  ASSUME NEW c, room'[c] = room[c],
         room[c] # NoRoom => (c \in members'[room[c]] <=> c \in members[room[c]])
  PROVE  Where(c)' = Where(c)
BY DEF Where

(***************************************************************************)
(* Steps that leave the mail and the members alone.                        *)
(***************************************************************************)
LEMMA QuietStutters ==
  ASSUME IInv, IInv', NEW c \in Clients, Quiet(c)
  PROVE  UNCHANGED <<WhereMap, MailMap>>
<1>1. UNCHANGED <<members, mqueue>> /\ \A d \in Clients : KeepsStage(d)
  BY QuietStep DEF IInv
<1>2. \A d \in Clients : Mail(d)' = Mail(d)
  BY <1>1, QuietKeepsPending, MailStays
<1>3. ASSUME NEW d \in Clients PROVE Where(d)' = Where(d)
  <2>1. CASE pc[d] \in Inside
    <3>1. room'[d] = room[d]
      BY <1>1, <2>1 DEF KeepsStage
    <3>. QED  BY <1>1, <3>1, WhereStays
  <2>2. CASE pc[d] \notin Inside
    <3>1. Where(d) = NoRoom
      BY <2>2, WhereIsRoom
    <3>2. \A o \in Rooms : d \notin members'[o]
      BY <1>1, <2>2 DEF IInv, MembershipMatchesSession
    <3>3. room'[d] \in Rooms \cup {NoRoom}
      BY DEF IInv, TypeOK, Types
    <3>4. Where(d)' = NoRoom
      BY <3>2, <3>3 DEF Where
    <3>. QED  BY <3>1, <3>4
  <2>. QED  BY <2>1, <2>2
<1>. QED  BY <1>2, <1>3, Zenon DEF WhereMap, MailMap

LEMMA TurnStutters ==
  ASSUME IInv, NEW s \in Senders, NEW v \in Clients, BroadcastTo(s, v)
  PROVE  UNCHANGED <<WhereMap, MailMap>>
<1>1. UNCHANGED <<room, members>>
  BY DEF BroadcastTo, sessionVars, sharedVars
<1>2. \A d \in Clients : Mail(d)' = Mail(d) /\ Where(d)' = Where(d)
  BY <1>1, TurnKeepsMail, WhereStays
<1>. QED  BY <1>2, Zenon DEF WhereMap, MailMap

LEMMA EndStutters ==
  ASSUME IInv, NEW s \in Senders, BroadcastEnd(s)
  PROVE  UNCHANGED <<WhereMap, MailMap>>
<1>1. UNCHANGED <<room, members, mqueue>>
  BY DEF BroadcastEnd
<1>2. \A d \in Clients : Mail(d)' = Mail(d) /\ Where(d)' = Where(d)
  BY <1>1, EndKeepsPending, MailStays, WhereStays
<1>. QED  BY <1>2, Zenon DEF WhereMap, MailMap

LEMMA SendStutters ==
  ASSUME IInv, NEW r \in Receivers, SendDelivery(r) \/ SendFails(r)
  PROVE  UNCHANGED <<WhereMap, MailMap>>
<1>1. UNCHANGED <<room, members, mqueue>>
  BY DEF SendDelivery, SendFails, sharedVars
<1>2. \A d \in Clients : Mail(d)' = Mail(d) /\ Where(d)' = Where(d)
  BY <1>1, ReceiverKeepsPending, MailStays, WhereStays
<1>. QED  BY <1>2, Zenon DEF WhereMap, MailMap

(***************************************************************************)
(* The four steps a client can tell.                                       *)
(***************************************************************************)
LEMMA AddMemberEnters ==
  ASSUME IInv, IInv', NEW c \in Clients, AddMember(c)
  PROVE  \E n \in RoomNames : Group!Enter(c, n)
<1>1. /\ pc[c] = "add" /\ pc'[c] \in Inside /\ room[c] \in Rooms
      /\ UNCHANGED <<room, mqueue>>
      /\ members' = [members EXCEPT ![room[c]] = @ \cup {c}]
  BY DEF AddMember, Goto, queueVars, Inside, IInv, TypeOK, Types, LocalsSet
<1>2. Where(c) = NoRoom
  BY <1>1, WhereIsRoom DEF Inside
<1>3. room[c].name \in RoomNames /\ room[c] # NoRoom
  BY <1>1, ValuesAssumption DEF Rooms
<1>4. Where(c)' = room[c].name
  BY <1>1, <1>3 DEF Where, IInv, TypeOK, Types
<1>5. ASSUME NEW d \in Clients, d # c PROVE Where(d)' = Where(d)
  <2>1. room[d] # NoRoom => (d \in members'[room[d]] <=> d \in members[room[d]])
    BY <1>1, <1>5 DEF IInv, TypeOK, Types
  <2>. QED  BY <1>1, <2>1, WhereStays
<1>6. \A d \in Clients : Mail(d)' = Mail(d)
  BY <1>1, MembershipKeepsPending, MailStays
<1>7. WhereMap' = [WhereMap EXCEPT ![c] = room[c].name] /\ WhereMap[c] = NoRoom
  BY <1>2, <1>4, <1>5 DEF WhereMap
<1>8. MailMap' = MailMap
  BY <1>6, Zenon DEF MailMap
<1>9. Group!Enter(c, room[c].name)
  BY <1>7, <1>8 DEF Group!Enter, WhereMap, MailMap, Mail
<1>. QED  BY <1>3, <1>9

LEMMA RemoveMemberExits ==
  ASSUME IInv, IInv', NEW c \in Clients, RemoveMember(c)
  PROVE  Group!Exit(c)
<1>1. /\ pc[c] = "remove" /\ room[c] \in Rooms
      /\ room' = [room EXCEPT ![c] = NoRoom] /\ UNCHANGED mqueue
      /\ members' = [members EXCEPT ![room[c]] = @ \ {c}]
      /\ room \in [Clients -> Rooms \cup {NoRoom}]
      /\ members \in [Rooms -> SUBSET Clients]
  BY DEF RemoveMember, Goto, queueVars, IInv, TypeOK, Types, LocalsSet
<1>2. Where(c) # NoRoom
  BY <1>1, WhereIsRoom DEF Inside
<1>3. Where(c)' = NoRoom
  BY <1>1 DEF Where
<1>4. ASSUME NEW d \in Clients, d # c PROVE Where(d)' = Where(d)
  <2>1. room[d] # NoRoom => (d \in members'[room[d]] <=> d \in members[room[d]])
    BY <1>1, <1>4
  <2>. QED  BY <1>1, <1>4, <2>1, WhereStays
<1>5. \A d \in Clients : Mail(d)' = Mail(d)
  BY <1>1, MembershipKeepsPending, MailStays
<1>6. WhereMap' = [WhereMap EXCEPT ![c] = NoRoom] /\ WhereMap[c] # NoRoom
  BY <1>2, <1>3, <1>4 DEF WhereMap
<1>7. MailMap' = MailMap
  BY <1>5, Zenon DEF MailMap
<1>. QED  BY <1>6, <1>7 DEF Group!Exit, WhereMap, MailMap, Mail

LEMMA BroadcastLockPosts ==
  ASSUME IInv, BroadcastInv, NEW s \in Senders, BroadcastLock(s)
  PROVE  \E t \in Texts : Group!Post(s, t)
<1>1. /\ pc[s] \in Inside /\ room[s] \in Rooms /\ s \in Clients
      /\ UNCHANGED <<room, members>> /\ requests[s] \in 1..MaxRequests
  BY ValuesAssumption DEF BroadcastLock, Goto, Inside, IInv, TypeOK, Types, LocalsSet
<1>2. PICK t \in Texts : t = [by |-> s, no |-> requests[s]]
  BY <1>1 DEF Texts
<1>3. Where(s) = room[s].name /\ Where(s) # NoRoom
  BY <1>1, WhereIsRoom
<1>4. Delivery(s) = [room |-> WhereMap[s], sender |-> UserName[s], text |-> t]
  BY <1>1, <1>2, <1>3 DEF Delivery, WhereMap
<1>5. ASSUME NEW d \in Clients
      PROVE  Mail(d)' = IF WhereMap[d] = WhereMap[s] /\ UserName[d] # UserName[s]
                        THEN Append(MailMap[d], Delivery(s)) ELSE MailMap[d]
  <2>1. Mail(d)' = IF d \in members[room[s]] /\ UserName[d] # UserName[s]
                   THEN Append(Mail(d), Delivery(s)) ELSE Mail(d)
    BY LockPostsMail
  <2>2. WhereMap[d] = WhereMap[s] <=> d \in members[room[s]]
    BY <1>1, SamePlaceSameRoom DEF WhereMap
  <2>3. MailMap[d] = Mail(d)
    BY DEF MailMap
  <2>. QED  BY <2>1, <2>2, <2>3
<1>6. MailMap' = [d \in Clients |->
                    IF WhereMap[d] = WhereMap[s] /\ UserName[d] # UserName[s]
                    THEN Append(MailMap[d], Delivery(s)) ELSE MailMap[d]]
  BY <1>5, Zenon DEF MailMap
<1>7. \A d \in Clients : Where(d)' = Where(d)
  BY <1>1, WhereStays
<1>8. WhereMap' = WhereMap
  BY <1>7, Zenon DEF WhereMap
<1>9. WhereMap[s] # NoRoom
  BY <1>1, <1>3 DEF WhereMap
<1>10. Group!Post(s, t)
  BY <1>4, <1>6, <1>8, <1>9 DEF Group!Post, WhereMap, MailMap, Mail
<1>. QED  BY <1>2, <1>10

LEMMA DequeueReads ==
  ASSUME IInv, NEW r \in Receivers, DequeueMessage(r)
  PROVE  Group!Read(r)
<1>1. UNCHANGED <<room, members>>
  BY DEF DequeueMessage, sharedVars
<1>2. \A d \in Clients : Where(d)' = Where(d)
  BY <1>1, WhereStays
<1>3. WhereMap' = WhereMap
  BY <1>2, Zenon DEF WhereMap
<1>4. /\ Mail(r) # << >> /\ Mail(r)' = Tail(Mail(r))
      /\ \A u \in Clients : u # r => Mail(u)' = Mail(u)
  BY DequeueTakesMail
<1>5. MailMap[r] # << >> /\ MailMap' = [MailMap EXCEPT ![r] = Tail(@)]
  BY <1>4 DEF MailMap
<1>. QED  BY <1>3, <1>5 DEF Group!Read, WhereMap, MailMap, Mail

-------------------------------------------------------------------------------
LEMMA InitMaps == Init => Group!GInit
<1>. SUFFICES ASSUME Init PROVE Group!GInit
  OBVIOUS
<1>1. ASSUME NEW c \in Clients PROVE Where(c) = NoRoom
  BY DEF Init, Where
<1>2. ASSUME NEW c \in Clients PROVE Mail(c) = << >>
  <2>1. Awaited(c) = {}
    BY DEF Init, Awaited
  <2>2. Mail(c) = << >> \o << >>
    BY <2>1, PendingCases DEF Init, Mail
  <2>. QED  BY <2>2, EmptySeq, ConcatEmptySeq
<1>. QED  BY <1>1, <1>2, MapsAreGroups DEF WhereMap, MailMap

LEMMA StepMaps == ASSUME DInv, DInv', [Next]_vars PROVE [Group!GNext]_(Group!gvars)
<1>. USE DEF DInv
<1>1. ASSUME NEW c \in Clients, Quiet(c) PROVE [Group!GNext]_(Group!gvars)
  BY <1>1, QuietStutters, MapsAreGroups
<1>2. ASSUME NEW c \in Clients, AddMember(c) PROVE [Group!GNext]_(Group!gvars)
  BY <1>2, AddMemberEnters DEF Group!GNext
<1>3. ASSUME NEW c \in Clients, RemoveMember(c) PROVE [Group!GNext]_(Group!gvars)
  BY <1>3, RemoveMemberExits DEF Group!GNext
<1>4. ASSUME NEW s \in Senders, BroadcastLock(s) PROVE [Group!GNext]_(Group!gvars)
  BY <1>4, BroadcastLockPosts DEF Group!GNext
<1>5. ASSUME NEW s \in Senders, NEW u \in Clients, BroadcastTo(s, u)
      PROVE  [Group!GNext]_(Group!gvars)
  BY <1>5, TurnStutters, MapsAreGroups
<1>6. ASSUME NEW s \in Senders, BroadcastEnd(s) PROVE [Group!GNext]_(Group!gvars)
  BY <1>6, EndStutters, MapsAreGroups
<1>7. ASSUME NEW r \in Receivers, DequeueMessage(r) PROVE [Group!GNext]_(Group!gvars)
  BY <1>7, DequeueReads DEF Group!GNext
<1>8. ASSUME NEW r \in Receivers, SendDelivery(r) \/ SendFails(r)
      PROVE  [Group!GNext]_(Group!gvars)
  BY <1>8, SendStutters, MapsAreGroups
<1>9. CASE UNCHANGED vars
  <2>1. UNCHANGED <<WhereMap, MailMap>>
    BY <1>9 DEF vars, sessionVars, sharedVars, queueVars, WhereMap, MailMap, Where,
                Mail, Pending, Awaited, Delivery
  <2>. QED  BY <2>1, MapsAreGroups
<1>. QED  BY <1>1, <1>2, <1>3, <1>4, <1>5, <1>6, <1>7, <1>8, <1>9, StepCases

(***************************************************************************)
(* The threads, the two kinds of mutex, the Room objects and the queues    *)
(* together are the one-step group chat: entering and leaving a room,      *)
(* posting to all its other users and reading are atomic for the clients.  *)
(***************************************************************************)
THEOREM ServerIsGroupChat == Spec => ImplementsGroupChat
<1>1. Init => Group!GInit
  BY InitMaps
<1>2. DInv /\ DInv' /\ [Next]_vars => [Group!GNext]_(Group!gvars)
  BY StepMaps
<1>. QED
  BY <1>1, <1>2, DInvariance, PTL DEF Spec, ImplementsGroupChat, Group!GSpec
===============================================================================
