------------------------------ MODULE ChatServer ------------------------------
(***************************************************************************)
(* The server process (server.cpp, room.cpp, user.h): one thread per       *)
(* accepted connection runs worker and then chat_with_sender or            *)
(* chat_with_receiver; the threads share the map of rooms, guarded by      *)
(* Server::m_lock, the member set of each Room, guarded by Room::lock, and *)
(* the MessageQueue of each User.                                          *)
(*                                                                         *)
(* A thread can be preempted before it acquires a mutex and between any    *)
(* two accesses to shared state, so each of those is a step.  A call on a  *)
(* MessageQueue is one step (AtomicQueue, which MessageQueue implements);  *)
(* its own mutex is innermost: no other is acquired while it is held.      *)
(***************************************************************************)
EXTENDS Listing

CONSTANTS
  Senders,      \* connections that log in with slogin
  Receivers,    \* connections that log in with rlogin
  RoomNames,    \* names that isValidRoomName accepts
  UserName,     \* the user name each connection logs in with
  MaxRequests,  \* bound: requests a sender makes after its login
  NoRoom,       \* a null Room pointer, or no room name
  NoSession,    \* a mutex that is free
  NoMessage     \* a null Message pointer

Clients == Senders \cup Receivers

ASSUME ClientsAssumption ==
  /\ IsFiniteSet(Clients)
  /\ Senders \cap Receivers = {}
  /\ NoSession \notin Clients

\* A Room object: each session creates at most one under a given name.
Rooms == [name : RoomNames, maker : Clients]

Texts == [by : Senders, no : 1..MaxRequests]

Messages == [room : RoomNames, sender : {UserName[s] : s \in Senders},
             text : Texts]

ASSUME ValuesAssumption ==
  /\ NoRoom \notin RoomNames \cup Rooms
  /\ NoMessage \notin Messages
  /\ MaxRequests \in Nat

VARIABLES
  pc,        \* where the thread of each connection is
  after,     \* what the thread does when remove_member returns
  conn,      \* the peer's side: none, open, closed (FIN), reset (RST)
  requests,  \* requests a sender's thread has read since its login
  target,    \* local roomName of a join in progress
  room,      \* local room: the Room the session is in, or NoRoom
  m_lock,    \* Server::m_lock: its holder, or NoSession
  m_rooms,   \* Server::m_rooms: the Room registered under each name
  lock,      \* Room::lock: its holder, or NoSession
  members,   \* Room::members
  visited,   \* members the running broadcast has dealt with
  mqueue,    \* User::mqueue: the messages pending for each user
  newMsg,    \* local newMsg: the message a receiver's thread is sending
  written,   \* history: deliveries written to the receiver's socket
  log,       \* history: the messages broadcast in each Room
  joinedAt   \* history: the length of the Room's log when the user joined

sessionVars == <<pc, after, conn, requests, target, room>>
sharedVars  == <<m_lock, m_rooms, lock, members>>
queueVars   == <<visited, mqueue, newMsg, written, log>>
vars == <<sessionVars, sharedVars, queueVars, joinedAt>>

PC == {"absent", "login", "request", "join",
       "find.lock", "find", "create", "add.lock", "add",
       "remove.lock", "remove", "broadcast.lock", "broadcast",
       "dequeue", "waiting", "deliver", "done"}

Init ==
  /\ pc = [c \in Clients |-> "absent"]
  /\ after = [c \in Clients |-> "done"]
  /\ conn = [c \in Clients |-> "none"]
  /\ requests = [c \in Clients |-> 0]
  /\ target = [c \in Clients |-> NoRoom]
  /\ room = [c \in Clients |-> NoRoom]
  /\ m_lock = NoSession
  /\ m_rooms = [n \in RoomNames |-> NoRoom]
  /\ lock = [o \in Rooms |-> NoSession]
  /\ members = [o \in Rooms |-> {}]
  /\ visited = [c \in Clients |-> {}]
  /\ mqueue = [c \in Clients |-> << >>]
  /\ newMsg = [c \in Clients |-> NoMessage]
  /\ written = [c \in Clients |-> << >>]
  /\ log = [o \in Rooms |-> << >>]
  /\ joinedAt = [c \in Clients |-> 0]

Goto(c, from, to) ==
  /\ pc[c] = from
  /\ pc' = [pc EXCEPT ![c] = to]

(***************************************************************************)
(* Guard: the mutex is held from the Guard's construction to the end of    *)
(* its scope.                                                              *)
(***************************************************************************)
\* Mutant: the mutex is not waited for.
LockRoomUnguarded(c, o) == lock' = [lock EXCEPT ![o] = c]

LockRoom(c, o) ==
  /\ lock[o] = NoSession
  /\ lock' = [lock EXCEPT ![o] = c]

UnlockRoom(o) == lock' = [lock EXCEPT ![o] = NoSession]

\* Mutant: find_or_create_room without its Guard.
LockServerUnguarded(c) == m_lock' = c

LockServer(c) ==
  /\ m_lock = NoSession
  /\ m_lock' = c

UnlockServer == m_lock' = NoSession

-------------------------------------------------------------------------------
(***************************************************************************)
(* The peer.  It closes its end at any time; the kernel answers later      *)
(* traffic with a reset, after which a write fails.  What the peer sent    *)
(* before closing can still be read.                                       *)
(***************************************************************************)
PeerClose(c) ==
  /\ conn[c] = "open"
  /\ pc[c] # "done"
  /\ conn' = [conn EXCEPT ![c] = "closed"]
  /\ UNCHANGED <<pc, after, requests, target, room, sharedVars, queueVars, joinedAt>>

PeerReset(c) ==
  /\ conn[c] = "closed"
  /\ pc[c] # "done"
  /\ conn' = [conn EXCEPT ![c] = "reset"]
  /\ UNCHANGED <<pc, after, requests, target, room, sharedVars, queueVars, joinedAt>>

Gone(c) == conn[c] \in {"closed", "reset"}

-------------------------------------------------------------------------------
(***************************************************************************)
(* handle_client_requests and worker                                       *)
(***************************************************************************)
Connect(c) ==
  /\ Goto(c, "absent", "login")
  /\ conn' = [conn EXCEPT ![c] = "open"]
  /\ UNCHANGED <<after, requests, target, room, sharedVars, queueVars, joinedAt>>

\* the first message is slogin or rlogin: the User is made and welcomed, by
\* the one reply whose failure ends the session
Login(c) ==
  /\ \/ conn[c] = "reset" /\ Goto(c, "login", "done")
     \/ conn[c] # "reset" /\ c \in Senders /\ Goto(c, "login", "request")
     \/ conn[c] # "reset" /\ c \in Receivers /\ Goto(c, "login", "join")
  /\ UNCHANGED <<after, conn, requests, target, room, sharedVars, queueVars, joinedAt>>

\* an invalid first message, or one with another tag
LoginRefused(c) ==
  /\ Goto(c, "login", "done")
  /\ UNCHANGED <<after, conn, requests, target, room, sharedVars, queueVars, joinedAt>>

-------------------------------------------------------------------------------
(***************************************************************************)
(* find_or_create_room, Room::add_member and Room::remove_member, called   *)
(* by both kinds of session                                                *)
(***************************************************************************)
FindLock(c) ==
  /\ Goto(c, "find.lock", "find")
  /\ LockServer(c)
  /\ UNCHANGED <<after, conn, requests, target, room, m_rooms, lock, members, queueVars, joinedAt>>

FindExisting(c) ==
  /\ Goto(c, "find", "add.lock")
  /\ m_rooms[target[c]] # NoRoom
  /\ room' = [room EXCEPT ![c] = m_rooms[target[c]]]
  /\ UnlockServer
  /\ UNCHANGED <<after, conn, requests, target, m_rooms, lock, members, queueVars, joinedAt>>

FindNothing(c) ==
  /\ Goto(c, "find", "create")
  /\ m_rooms[target[c]] = NoRoom
  /\ UNCHANGED <<after, conn, requests, target, room, sharedVars, queueVars, joinedAt>>

CreateRoom(c) ==
  LET newRoom == [name |-> target[c], maker |-> c] IN
  /\ Goto(c, "create", "add.lock")
  /\ m_rooms' = [m_rooms EXCEPT ![target[c]] = newRoom]
  /\ room' = [room EXCEPT ![c] = newRoom]
  /\ UnlockServer
  /\ UNCHANGED <<after, conn, requests, target, lock, members, queueVars, joinedAt>>

\* Mutant: add_member without its Guard.
AddLockUnguarded(c) ==
  /\ Goto(c, "add.lock", "add")
  /\ UNCHANGED <<after, conn, requests, target, room, sharedVars, queueVars, joinedAt>>

AddLock(c) ==
  /\ Goto(c, "add.lock", "add")
  /\ LockRoom(c, room[c])
  /\ UNCHANGED <<after, conn, requests, target, room, m_lock, m_rooms, members, queueVars, joinedAt>>

AddMember(c) ==
  /\ Goto(c, "add", IF c \in Senders THEN "request" ELSE "dequeue")
  /\ members' = [members EXCEPT ![room[c]] = @ \cup {c}]
  /\ joinedAt' = [joinedAt EXCEPT ![c] = Len(log[room[c]])]
  /\ target' = [target EXCEPT ![c] = NoRoom]
  /\ UnlockRoom(room[c])
  /\ UNCHANGED <<after, conn, requests, room, m_lock, m_rooms, queueVars>>

RemoveLock(c) ==
  /\ Goto(c, "remove.lock", "remove")
  /\ LockRoom(c, room[c])
  /\ UNCHANGED <<after, conn, requests, target, room, m_lock, m_rooms, members, queueVars, joinedAt>>

\* the callers assign room afterwards: nullptr on leave, the new Room on join
RemoveMember(c) ==
  /\ Goto(c, "remove", after[c])
  /\ after' = [after EXCEPT ![c] = "done"]
  /\ members' = [members EXCEPT ![room[c]] = @ \ {c}]
  /\ room' = [room EXCEPT ![c] = NoRoom]
  /\ UnlockRoom(room[c])
  /\ UNCHANGED <<conn, requests, target, m_lock, m_rooms, queueVars, joinedAt>>

-------------------------------------------------------------------------------
(***************************************************************************)
(* chat_with_sender.  The replies change nothing the threads share and     *)
(* their failure is ignored, so a request that is only answered is a step  *)
(* that does nothing but consume the request.                              *)
(***************************************************************************)
ReadRequest(s) ==
  /\ pc[s] = "request"
  /\ requests[s] < MaxRequests
  /\ requests' = [requests EXCEPT ![s] = @ + 1]

\* an invalid message, another tag, an invalid room name; leave and sendall
\* outside any room
RequestRefused(s) ==
  /\ ReadRequest(s)
  /\ UNCHANGED <<pc, after, conn, target, room, sharedVars, queueVars, joinedAt>>

JoinRequest(s) ==
  /\ ReadRequest(s)
  /\ \E n \in RoomNames : target' = [target EXCEPT ![s] = n]
  /\ \/ /\ room[s] = NoRoom
        /\ pc' = [pc EXCEPT ![s] = "find.lock"]
        /\ UNCHANGED after
     \/ /\ room[s] # NoRoom
        /\ pc' = [pc EXCEPT ![s] = "remove.lock"]
        /\ after' = [after EXCEPT ![s] = "find.lock"]
  /\ UNCHANGED <<conn, room, sharedVars, queueVars, joinedAt>>

LeaveRequest(s) ==
  /\ ReadRequest(s)
  /\ room[s] # NoRoom
  /\ pc' = [pc EXCEPT ![s] = "remove.lock"]
  /\ after' = [after EXCEPT ![s] = "request"]
  /\ UNCHANGED <<conn, target, room, sharedVars, queueVars, joinedAt>>

\* Mutant: room is not compared with nullptr.
SendAllRequestUnchecked(s) ==
  /\ ReadRequest(s)
  /\ pc' = [pc EXCEPT ![s] = "broadcast.lock"]
  /\ UNCHANGED <<after, conn, target, room, sharedVars, queueVars, joinedAt>>

SendAllRequest(s) ==
  /\ ReadRequest(s)
  /\ room[s] # NoRoom
  /\ pc' = [pc EXCEPT ![s] = "broadcast.lock"]
  /\ UNCHANGED <<after, conn, target, room, sharedVars, queueVars, joinedAt>>

\* Mutant: return instead of break.
EndChatInRoom(s) ==
  /\ pc' = [pc EXCEPT ![s] = "done"]
  /\ UNCHANGED <<after, conn, target, room, sharedVars, queueVars, joinedAt>>

\* the end of chat_with_sender: remove_member if in a room
EndChat(s) ==
  /\ pc' = [pc EXCEPT ![s] = IF room[s] = NoRoom THEN "done" ELSE "remove.lock"]
  /\ UNCHANGED <<after, conn, target, room, sharedVars, queueVars, joinedAt>>

QuitRequest(s) ==
  /\ ReadRequest(s)
  /\ EndChat(s)

\* Mutant: the loop goes on after EOF_OR_ERROR.
SenderEOFIgnored(s) ==
  /\ pc[s] = "request"
  /\ Gone(s)
  /\ UNCHANGED vars

\* receive fails with EOF_OR_ERROR: the peer is gone
SenderEOF(s) ==
  /\ pc[s] = "request"
  /\ Gone(s)
  /\ EndChat(s)
  /\ UNCHANGED requests

(***************************************************************************)
(* Room::broadcast_message                                                 *)
(***************************************************************************)
Delivery(s) == [room |-> room[s].name, sender |-> UserName[s],
                text |-> [by |-> s, no |-> requests[s]]]

BroadcastLock(s) ==
  /\ Goto(s, "broadcast.lock", "broadcast")
  /\ LockRoom(s, room[s])
  /\ log' = [log EXCEPT ![room[s]] = Append(@, Delivery(s))]
  /\ UNCHANGED <<after, conn, requests, target, room, m_lock, m_rooms, members,
                 visited, mqueue, newMsg, written, joinedAt>>

\* Mutant: a user of the sender's name is skipped without advancing.
BroadcastToStuck(s, u) ==
  /\ pc[s] = "broadcast"
  /\ u \in members[room[s]] \ visited[s]
  /\ IF UserName[u] # UserName[s]
     THEN /\ visited' = [visited EXCEPT ![s] = @ \cup {u}]
          /\ mqueue' = [mqueue EXCEPT ![u] = Append(@, Delivery(s))]
     ELSE UNCHANGED <<visited, mqueue>>
  /\ UNCHANGED <<sessionVars, sharedVars, newMsg, written, log, joinedAt>>

\* Mutant: users are compared, not their names.
BroadcastToNamesake(s, u) ==
  /\ pc[s] = "broadcast"
  /\ u \in members[room[s]] \ visited[s]
  /\ visited' = [visited EXCEPT ![s] = @ \cup {u}]
  /\ mqueue' = IF u # s THEN [mqueue EXCEPT ![u] = Append(@, Delivery(s))]
               ELSE mqueue
  /\ UNCHANGED <<sessionVars, sharedVars, newMsg, written, log, joinedAt>>

\* one turn of the loop; std::set<User *> is ordered by address: any order
BroadcastTo(s, u) ==
  /\ pc[s] = "broadcast"
  /\ u \in members[room[s]] \ visited[s]
  /\ visited' = [visited EXCEPT ![s] = @ \cup {u}]
  /\ mqueue' = IF UserName[u] # UserName[s]
               THEN [mqueue EXCEPT ![u] = Append(@, Delivery(s))]
               ELSE mqueue
  /\ UNCHANGED <<sessionVars, sharedVars, newMsg, written, log, joinedAt>>

BroadcastEnd(s) ==
  /\ Goto(s, "broadcast", "request")
  /\ members[room[s]] \subseteq visited[s]
  /\ visited' = [visited EXCEPT ![s] = {}]
  /\ UnlockRoom(room[s])
  /\ UNCHANGED <<after, conn, requests, target, room, m_lock, m_rooms, members,
                 mqueue, newMsg, written, log, joinedAt>>

-------------------------------------------------------------------------------
(***************************************************************************)
(* chat_with_receiver                                                      *)
(***************************************************************************)
ReceiverJoin(r) ==
  /\ Goto(r, "join", "find.lock")
  /\ \E n \in RoomNames : target' = [target EXCEPT ![r] = n]
  /\ UNCHANGED <<after, conn, requests, room, sharedVars, queueVars, joinedAt>>

\* an invalid message, another tag, an invalid room name
ReceiverJoinRefused(r) ==
  /\ Goto(r, "join", "done")
  /\ UNCHANGED <<after, conn, requests, target, room, sharedVars, queueVars, joinedAt>>

\* receive fails with EOF_OR_ERROR before the session has joined a room
EarlyEOF(c) ==
  /\ \E from \in {"login", "join"} : Goto(c, from, "done")
  /\ Gone(c)
  /\ UNCHANGED <<after, conn, requests, target, room, sharedVars, queueVars, joinedAt>>

DequeueMessage(r) ==
  /\ \E from \in {"dequeue", "waiting"} : Goto(r, from, "deliver")
  /\ mqueue[r] # << >>
  /\ newMsg' = [newMsg EXCEPT ![r] = Head(mqueue[r])]
  /\ mqueue' = [mqueue EXCEPT ![r] = Tail(@)]
  /\ UNCHANGED <<after, conn, requests, target, room, sharedVars,
                 visited, written, log, joinedAt>>

DequeueWait(r) ==
  /\ Goto(r, "dequeue", "waiting")
  /\ mqueue[r] = << >>
  /\ UNCHANGED <<after, conn, requests, target, room, sharedVars, queueVars, joinedAt>>

\* dequeue returned nullptr: an err message is sent and its failure ignored
DequeueTimeout(r) ==
  /\ Goto(r, "waiting", "dequeue")
  /\ UNCHANGED <<after, conn, requests, target, room, sharedVars, queueVars, joinedAt>>

\* Mutant: the loop ends when the send succeeds.
SendDeliveryLast(r) ==
  /\ Goto(r, "deliver", "remove.lock")
  /\ conn[r] # "reset"
  /\ written' = [written EXCEPT ![r] = Append(@, newMsg[r])]
  /\ newMsg' = [newMsg EXCEPT ![r] = NoMessage]
  /\ UNCHANGED <<after, conn, requests, target, room, sharedVars,
                 visited, mqueue, log, joinedAt>>

\* after the peer has closed, a write succeeds until the reset arrives
SendDelivery(r) ==
  /\ Goto(r, "deliver", "dequeue")
  /\ conn[r] # "reset"
  /\ written' = [written EXCEPT ![r] = Append(@, newMsg[r])]
  /\ newMsg' = [newMsg EXCEPT ![r] = NoMessage]
  /\ UNCHANGED <<after, conn, requests, target, room, sharedVars,
                 visited, mqueue, log, joinedAt>>

\* Mutant: return instead of break.
SendFailsInRoom(r) ==
  /\ Goto(r, "deliver", "done")
  /\ conn[r] = "reset"
  /\ newMsg' = [newMsg EXCEPT ![r] = NoMessage]
  /\ UNCHANGED <<after, conn, requests, target, room, sharedVars,
                 visited, mqueue, written, log, joinedAt>>

\* Mutant: the result of the send is ignored.
SendFailsIgnored(r) ==
  /\ Goto(r, "deliver", "dequeue")
  /\ conn[r] = "reset"
  /\ newMsg' = [newMsg EXCEPT ![r] = NoMessage]
  /\ UNCHANGED <<after, conn, requests, target, room, sharedVars,
                 visited, mqueue, written, log, joinedAt>>

SendFails(r) ==
  /\ Goto(r, "deliver", "remove.lock")
  /\ conn[r] = "reset"
  /\ newMsg' = [newMsg EXCEPT ![r] = NoMessage]
  /\ UNCHANGED <<after, conn, requests, target, room, sharedVars,
                 visited, mqueue, written, log, joinedAt>>

-------------------------------------------------------------------------------
\* the loop of handle_client_requests, when every session has ended: blocked
\* in Accept
Quiescent ==
  /\ \A c \in Clients : pc[c] = "done"
  /\ UNCHANGED vars

Peer(c) == Connect(c) \/ PeerClose(c) \/ PeerReset(c)

Join(c) ==
  \/ FindLock(c) \/ FindExisting(c) \/ FindNothing(c) \/ CreateRoom(c)
  \/ AddLock(c) \/ AddMember(c)

Leave(c) == RemoveLock(c) \/ RemoveMember(c)

Broadcast(s) ==
  \/ BroadcastLock(s) \/ BroadcastEnd(s)
  \/ \E u \in Clients : BroadcastTo(s, u)

\* steps that wait for the peer to send something
Input(c) ==
  \/ Login(c) \/ LoginRefused(c)
  \/ /\ c \in Senders
     /\ \/ RequestRefused(c) \/ JoinRequest(c) \/ LeaveRequest(c)
        \/ SendAllRequest(c) \/ QuitRequest(c)
  \/ c \in Receivers /\ (ReceiverJoin(c) \/ ReceiverJoinRefused(c))

\* steps a thread takes without its peer
Internal(c) ==
  \/ EarlyEOF(c) \/ Join(c) \/ Leave(c)
  \/ c \in Senders /\ (SenderEOF(c) \/ Broadcast(c))
  \/ c \in Receivers /\ (DequeueMessage(c) \/ DequeueWait(c))

\* steps that write to a receiver and so may wait for it to read
Output(c) ==
  c \in Receivers /\ (DequeueTimeout(c) \/ SendDelivery(c) \/ SendFails(c))

Next ==
  \/ \E c \in Clients : Peer(c) \/ Input(c) \/ Internal(c) \/ Output(c)
  \/ Quiescent

Spec == Init /\ [][Next]_vars

(***************************************************************************)
(* A thread that waits for nothing runs, and a write to a connection that  *)
(* was reset returns.  A mutex that is free again and again but always     *)
(* taken by another thread may be missed: no strong fairness.              *)
(***************************************************************************)
ThreadFairness == \A c \in Clients :
  /\ WF_vars(Internal(c))
  /\ WF_vars(conn[c] = "reset" /\ Output(c))

\* receivers that are there read what they are sent
ReaderFairness == \A r \in Receivers : WF_vars(Output(r))

FairSpec == Spec /\ ThreadFairness

-------------------------------------------------------------------------------
Types ==
  /\ pc \in [Clients -> PC]
  /\ after \in [Clients -> {"done", "find.lock", "request"}]
  /\ conn \in [Clients -> {"none", "open", "closed", "reset"}]
  /\ requests \in [Clients -> 0..MaxRequests]
  /\ target \in [Clients -> RoomNames \cup {NoRoom}]
  /\ room \in [Clients -> Rooms \cup {NoRoom}]
  /\ m_lock \in Clients \cup {NoSession}
  /\ m_rooms \in [RoomNames -> Rooms \cup {NoRoom}]
  /\ lock \in [Rooms -> Clients \cup {NoSession}]
  /\ members \in [Rooms -> SUBSET Clients]
  /\ visited \in [Clients -> SUBSET Clients]
  /\ mqueue \in [Clients -> Seq(Messages)]
  /\ newMsg \in [Clients -> Messages \cup {NoMessage}]
  /\ written \in [Clients -> Seq(Messages)]
  /\ log \in [Rooms -> Seq(Messages)]
  /\ joinedAt \in [Clients -> Nat]

\* the locals a thread uses are set wherever it uses them: no null pointer is
\* dereferenced (sendall and leave outside any room: server.cpp:161 and 175)
LocalsSet(c) ==
  /\ pc[c] \in {"absent", "login"} => room[c] = NoRoom
  /\ pc[c] \in {"find.lock", "find", "create"} => target[c] \in RoomNames
  /\ IF pc[c] \in {"remove.lock", "remove"}
     THEN after[c] = "find.lock" => target[c] \in RoomNames
     ELSE after[c] = "done"
  /\ pc[c] \in {"add.lock", "add", "remove.lock", "remove", "broadcast.lock",
                "broadcast", "dequeue", "waiting", "deliver"}
       => room[c] \in Rooms
  /\ pc[c] \in {"broadcast.lock", "broadcast"} => requests[c] > 0
  /\ pc[c] = "deliver" => newMsg[c] \in Messages

TypeOK == Types /\ \A c \in Clients : LocalsSet(c)

(***************************************************************************)
(* A thread holds m_lock exactly while it looks a room up, and the lock of *)
(* its own room exactly while it touches the members: the map and the sets *)
(* are never accessed by two threads at once, and no thread ever holds     *)
(* both kinds of lock.  README.txt:52 claims it ("We don't have any race   *)
(* conditions").                                                           *)
(***************************************************************************)
LockInv == \A c \in Clients :
  /\ m_lock = c <=> pc[c] \in {"find", "create"}
  /\ \A o \in Rooms :
       lock[o] = c <=> room[c] = o /\ pc[c] \in {"add", "remove", "broadcast"}

(***************************************************************************)
(* Sessions that joined under one name share one Room object, the one in   *)
(* the map, however their lookups interleave: otherwise members of "the    *)
(* same" room would not hear each other (server.cpp:118-127).              *)
(***************************************************************************)
OneRoomPerName == \A c \in Clients :
  room[c] # NoRoom => m_rooms[room[c].name] = room[c]

\* where a thread is while its user is a member of its room
Inside == {"request", "remove.lock", "remove", "broadcast.lock", "broadcast",
           "dequeue", "waiting", "deliver"}

(***************************************************************************)
(* The members of a room are exactly the users whose sessions are in it:   *)
(* nobody is in two rooms while switching, and a session that ended by     *)
(* quit, end of file or a failed send has left no ghost behind             *)
(* ("make sure to remove the User from the room", server.cpp:241).         *)
(* Between find_or_create_room and add_member room is set already.         *)
(***************************************************************************)
MembershipMatchesSession == \A c \in Clients, o \in Rooms :
  c \in members[o] <=> room[c] = o /\ pc[c] \in Inside

(***************************************************************************)
(* The message a running broadcast will still add to a user's queue.       *)
(***************************************************************************)
Awaited(u) == {s \in Senders :
  /\ pc[s] = "broadcast"
  /\ u \in members[room[s]] \ visited[s]
  /\ UserName[u] # UserName[s]}

Pending(u) ==
  IF Awaited(u) = {} THEN << >> ELSE <<Delivery(CHOOSE s \in Awaited(u) : TRUE)>>

InHand(r) == IF newMsg[r] = NoMessage THEN << >> ELSE <<newMsg[r]>>

\* what was written to a receiver and what it is still to be written
Stream(r) == written[r] \o InHand(r) \o mqueue[r] \o Pending(r)

\* the places in a log, after its first n, of messages by users of other names
Due(l, n, name) == {i \in (n + 1)..Len(l) : l[i].sender # name}

(***************************************************************************)
(* As long as a receiver's session serves it, what was written to it, what *)
(* its thread holds, what its queue holds and what a running broadcast     *)
(* still owes it are, in this order, the messages other users broadcast in *)
(* its room since it joined: none is lost, doubled or reordered, and all   *)
(* receivers of a room see the same order, with any number of senders      *)
(* broadcasting while users join and leave.                                *)
(***************************************************************************)
DeliveryStream == \A r \in Receivers :
  pc[r] \in {"dequeue", "waiting", "deliver"} =>
    LET l == log[room[r]]
    IN Lists(Stream(r), l, Due(l, joinedAt[r], UserName[r]))

(***************************************************************************)
(* Once a thread has ended nobody enqueues for its user any more: a        *)
(* broadcast never touches the User of a session that is over, which       *)
(* would be a use after free were the User destroyed (worker should).      *)
(***************************************************************************)
NoEnqueueAfterExit ==
  [][\A c \in Clients : pc[c] = "done" => mqueue'[c] = mqueue[c]]_vars

(***************************************************************************)
(* A sendall finishes although receivers do not read: their sockets are    *)
(* written by their own threads, which hold no lock meanwhile.             *)
(***************************************************************************)
BroadcastCompletes == \A s \in Senders :
  pc[s] = "broadcast.lock" ~> pc[s] = "request"

(***************************************************************************)
(* The thread of a sender whose peer has gone ends, whatever it was doing  *)
(* when the peer went, and so its user leaves its room.                    *)
(***************************************************************************)
DepartedSenderEnds == \A s \in Senders :
  Gone(s) ~> pc[s] = "done"

(***************************************************************************)
(* The thread of a receiver whose connection was reset ends once there is  *)
(* a message to send it.                                                   *)
(***************************************************************************)
BackloggedReceiverEnds == \A r \in Receivers :
  conn[r] = "reset" /\ mqueue[r] # << >> ~> pc[r] = "done"

Elements(q) == {q[i] : i \in 1..Len(q)}

(***************************************************************************)
(* A message in the queue of a receiver that stays and reads is sent to it.*)
(***************************************************************************)
QueuedIsWritten == ReaderFairness => \A r \in Receivers, m \in Messages :
  m \in Elements(mqueue[r]) ~> m \in Elements(written[r]) \/ conn[r] # "open"

(***************************************************************************)
(* What the comments say and the code does not do.                         *)
(***************************************************************************)

(***************************************************************************)
(* server.cpp:223-226 and 241: "If the send is unsuccessful, break out of  *)
(* the loop", "make sure to remove the User from the room".  The reply to  *)
(* an empty queue is a send as well, but its result is ignored: a receiver *)
(* that went while nobody speaks stays a member for ever.                  *)
(***************************************************************************)
DepartedReceiverEnds == ReaderFairness => \A r \in Receivers :
  conn[r] = "reset" ~> pc[r] = "done"

(***************************************************************************)
(* message_queue.h:27-28: "a queue of Messages waiting to be delivered to  *)
(* a receiver".  Senders are members too, and nobody dequeues for them.    *)
(***************************************************************************)
OnlyReceiversQueue == \A s \in Senders : mqueue[s] = << >>

-------------------------------------------------------------------------------
(***************************************************************************)
(* Refinement: a user is in the room it is a member of, and a broadcast    *)
(* takes effect for every member at the moment it acquires the lock.       *)
(***************************************************************************)
Where(c) ==
  IF room[c] # NoRoom /\ c \in members[room[c]] THEN room[c].name ELSE NoRoom

Group == INSTANCE GroupChat WITH
  Nowhere <- NoRoom,
  where <- [c \in Clients |-> Where(c)],
  mail <- [c \in Clients |-> mqueue[c] \o Pending(c)]

\* threads, mutexes, Room objects and queues implement the group chat
ImplementsGroupChat == Group!GSpec
===============================================================================
