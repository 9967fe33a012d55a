--------------------------- MODULE ChatServerProofs ---------------------------
(***************************************************************************)
(* The safety of the server's threads for any number of clients, rooms and *)
(* requests.                                                               *)
(***************************************************************************)
EXTENDS ChatServer, SequenceTheorems, TLAPS

USE DEF Clients, PC

(***************************************************************************)
(* What a lookup relies on: the map files each Room under its own name,    *)
(* and the name a thread is creating a Room for has none yet.              *)
(***************************************************************************)
LookupInv ==
  /\ \A n \in RoomNames : m_rooms[n] # NoRoom => m_rooms[n].name = n
  /\ \A c \in Clients : pc[c] = "create" => m_rooms[target[c]] = NoRoom

IInv ==
  /\ TypeOK
  /\ LockInv
  /\ LookupInv
  /\ OneRoomPerName
  /\ MembershipMatchesSession

LEMMA InitIInv == Init => IInv
<1>. SUFFICES ASSUME Init PROVE IInv
  OBVIOUS
<1>1. TypeOK
  BY ValuesAssumption DEF Init, TypeOK, Types, LocalsSet
<1>2. LockInv
  BY ClientsAssumption DEF Init, LockInv
<1>3. LookupInv
  BY DEF Init, LookupInv
<1>4. OneRoomPerName
  BY DEF Init, OneRoomPerName
<1>5. MembershipMatchesSession
  BY DEF Init, MembershipMatchesSession, Inside
<1>. QED  BY <1>1, <1>2, <1>3, <1>4, <1>5 DEF IInv

(***************************************************************************)
(* A broadcast makes a message.                                            *)
(***************************************************************************)
LEMMA DeliveryIsMessage ==
  ASSUME TypeOK, NEW s \in Senders, pc[s] \in {"broadcast.lock", "broadcast"}
  PROVE  Delivery(s) \in Messages
<1>1. room[s] \in Rooms /\ requests[s] \in 1..MaxRequests
  BY ValuesAssumption DEF TypeOK, Types, LocalsSet
<1>. QED  BY <1>1 DEF Delivery, Messages, Texts, Rooms

LEMMA TypesStep == ASSUME TypeOK, [Next]_vars PROVE Types'
<1>. USE DEF TypeOK, Types, LocalsSet, Goto, sharedVars, queueVars, sessionVars
<1>1. ASSUME NEW c \in Clients, Peer(c) PROVE Types'
  BY <1>1, ZenonT(30) DEF Peer, Connect, PeerClose, PeerReset
<1>2. ASSUME NEW c \in Clients, Login(c) \/ LoginRefused(c) PROVE Types'
  BY <1>2, ZenonT(30) DEF Login, LoginRefused
<1>3. ASSUME NEW c \in Clients, FindLock(c) PROVE Types'
  BY <1>3 DEF FindLock, LockServer
<1>4. ASSUME NEW c \in Clients, FindExisting(c) PROVE Types'
  BY <1>4, ValuesAssumption DEF FindExisting, UnlockServer
<1>5. ASSUME NEW c \in Clients, FindNothing(c) PROVE Types'
  BY <1>5 DEF FindNothing
<1>6. ASSUME NEW c \in Clients, CreateRoom(c) PROVE Types'
  <2>1. [name |-> target[c], maker |-> c] \in Rooms
    BY <1>6 DEF CreateRoom, Rooms
  <2>. QED  BY <1>6, <2>1 DEF CreateRoom, UnlockServer
<1>7. ASSUME NEW c \in Clients, AddLock(c) PROVE Types'
  BY <1>7 DEF AddLock, LockRoom
<1>8. ASSUME NEW c \in Clients, AddMember(c) PROVE Types'
  BY <1>8, SMTT(30) DEF AddMember, UnlockRoom
<1>9. ASSUME NEW c \in Clients, RemoveLock(c) PROVE Types'
  BY <1>9 DEF RemoveLock, LockRoom
<1>10. ASSUME NEW c \in Clients, RemoveMember(c) PROVE Types'
  BY <1>10, SMTT(30) DEF RemoveMember, UnlockRoom
<1>11. ASSUME NEW s \in Senders, RequestRefused(s) PROVE Types'
  BY <1>11, ValuesAssumption DEF RequestRefused, ReadRequest
<1>12. ASSUME NEW s \in Senders, JoinRequest(s) PROVE Types'
  <2>1. PICK n \in RoomNames : target' = [target EXCEPT ![s] = n]
    BY <1>12 DEF JoinRequest
  <2>2. requests' \in [Clients -> 0..MaxRequests]
    BY <1>12, ValuesAssumption DEF JoinRequest, ReadRequest
  <2>. QED  BY <1>12, <2>1, <2>2, ZenonT(30) DEF JoinRequest
<1>13. ASSUME NEW s \in Senders, LeaveRequest(s) PROVE Types'
  BY <1>13, ValuesAssumption, SMTT(30) DEF LeaveRequest, ReadRequest
<1>14. ASSUME NEW s \in Senders, SendAllRequest(s) PROVE Types'
  BY <1>14, ValuesAssumption, SMTT(30) DEF SendAllRequest, ReadRequest
<1>15. ASSUME NEW s \in Senders, QuitRequest(s) PROVE Types'
  BY <1>15, ValuesAssumption DEF QuitRequest, ReadRequest, EndChat
<1>16. ASSUME NEW s \in Senders, SenderEOF(s) PROVE Types'
  BY <1>16 DEF SenderEOF, EndChat
<1>17. ASSUME NEW s \in Senders, BroadcastLock(s) PROVE Types'
  BY <1>17, DeliveryIsMessage, AppendProperties DEF BroadcastLock, LockRoom
<1>18. ASSUME NEW s \in Senders, NEW u \in Clients, BroadcastTo(s, u) PROVE Types'
  <2>1. Delivery(s) \in Messages
    BY <1>18, DeliveryIsMessage DEF BroadcastTo
  <2>2. Append(mqueue[u], Delivery(s)) \in Seq(Messages)
    BY <2>1, AppendProperties
  <2>3. mqueue' \in [Clients -> Seq(Messages)]
    BY <1>18, <2>2 DEF BroadcastTo
  <2>4. visited' \in [Clients -> SUBSET Clients]
    BY <1>18 DEF BroadcastTo
  <2>. QED  BY <1>18, <2>3, <2>4 DEF BroadcastTo
<1>19. ASSUME NEW s \in Senders, BroadcastEnd(s) PROVE Types'
  BY <1>19 DEF BroadcastEnd, UnlockRoom
<1>20. ASSUME NEW c \in Clients, EarlyEOF(c) PROVE Types'
  BY <1>20 DEF EarlyEOF
<1>21. ASSUME NEW r \in Receivers, ReceiverJoin(r) \/ ReceiverJoinRefused(r)
       PROVE  Types'
  <2>1. CASE ReceiverJoin(r)
    <3>1. PICK n \in RoomNames : target' = [target EXCEPT ![r] = n]
      BY <2>1 DEF ReceiverJoin
    <3>. QED  BY <2>1, <3>1 DEF ReceiverJoin
  <2>2. CASE ReceiverJoinRefused(r)
    BY <2>2 DEF ReceiverJoinRefused
  <2>. QED  BY <1>21, <2>1, <2>2
<1>22. ASSUME NEW r \in Receivers, DequeueMessage(r) PROVE Types'
  BY <1>22, HeadTailProperties DEF DequeueMessage
<1>23. ASSUME NEW r \in Receivers, DequeueWait(r) \/ DequeueTimeout(r) PROVE Types'
  BY <1>23, ZenonT(30) DEF DequeueWait, DequeueTimeout
<1>24. ASSUME NEW r \in Receivers, SendDelivery(r) PROVE Types'
  BY <1>24, AppendProperties DEF SendDelivery
<1>25. ASSUME NEW r \in Receivers, SendFails(r) PROVE Types'
  BY <1>25 DEF SendFails
<1>26. CASE UNCHANGED vars
  BY <1>26 DEF vars
<1>. QED
  BY <1>1, <1>2, <1>3, <1>4, <1>5, <1>6, <1>7, <1>8, <1>9, <1>10, <1>11, <1>12,
     <1>13, <1>14, <1>15, <1>16, <1>17, <1>18, <1>19, <1>20, <1>21, <1>22, <1>23,
     <1>24, <1>25, <1>26
     DEF Next, Input, Internal, Output, Join, Leave, Broadcast, Quiescent


LEMMA LocalsStep == ASSUME TypeOK, [Next]_vars PROVE \A d \in Clients : LocalsSet(d)'
<1>. SUFFICES ASSUME NEW d \in Clients PROVE LocalsSet(d)'
  OBVIOUS
<1>. USE DEF TypeOK, Types, LocalsSet, Goto, sharedVars, queueVars, sessionVars
<1>1. ASSUME NEW c \in Clients, Peer(c) PROVE LocalsSet(d)'
  BY <1>1 DEF Peer, Connect, PeerClose, PeerReset
<1>2. ASSUME NEW c \in Clients, Login(c) \/ LoginRefused(c) PROVE LocalsSet(d)'
  BY <1>2, SMTT(30) DEF Login, LoginRefused
<1>3. ASSUME NEW c \in Clients, FindLock(c) PROVE LocalsSet(d)'
  BY <1>3 DEF FindLock, LockServer
<1>4. ASSUME NEW c \in Clients, FindExisting(c) PROVE LocalsSet(d)'
  BY <1>4, ValuesAssumption, SMTT(30) DEF FindExisting, UnlockServer
<1>5. ASSUME NEW c \in Clients, FindNothing(c) PROVE LocalsSet(d)'
  BY <1>5 DEF FindNothing
<1>6. ASSUME NEW c \in Clients, CreateRoom(c) PROVE LocalsSet(d)'
  <2>1. [name |-> target[c], maker |-> c] \in Rooms
    BY <1>6 DEF CreateRoom, Rooms
  <2>. QED  BY <1>6, <2>1 DEF CreateRoom, UnlockServer
<1>7. ASSUME NEW c \in Clients, AddLock(c) PROVE LocalsSet(d)'
  BY <1>7 DEF AddLock, LockRoom
<1>8. ASSUME NEW c \in Clients, AddMember(c) PROVE LocalsSet(d)'
  BY <1>8 DEF AddMember, UnlockRoom
<1>9. ASSUME NEW c \in Clients, RemoveLock(c) PROVE LocalsSet(d)'
  BY <1>9 DEF RemoveLock, LockRoom
<1>10. ASSUME NEW c \in Clients, RemoveMember(c) PROVE LocalsSet(d)'
  BY <1>10 DEF RemoveMember, UnlockRoom
<1>11. ASSUME NEW s \in Senders, RequestRefused(s) PROVE LocalsSet(d)'
  BY <1>11, ValuesAssumption DEF RequestRefused, ReadRequest
<1>12. ASSUME NEW s \in Senders, JoinRequest(s) PROVE LocalsSet(d)'
  BY <1>12, ValuesAssumption DEF JoinRequest, ReadRequest
<1>13. ASSUME NEW s \in Senders, LeaveRequest(s) PROVE LocalsSet(d)'
  BY <1>13, ValuesAssumption DEF LeaveRequest, ReadRequest
<1>14. ASSUME NEW s \in Senders, SendAllRequest(s) PROVE LocalsSet(d)'
  <2>1. room[s] \in Rooms /\ requests'[s] > 0
    BY <1>14 DEF SendAllRequest, ReadRequest
  <2>2. CASE d = s
    BY <1>14, <2>1, <2>2 DEF SendAllRequest, ReadRequest
  <2>3. CASE d # s
    BY <1>14, <2>3 DEF SendAllRequest, ReadRequest
  <2>. QED  BY <2>2, <2>3
<1>15. ASSUME NEW s \in Senders, QuitRequest(s) PROVE LocalsSet(d)'
  BY <1>15, ValuesAssumption DEF QuitRequest, ReadRequest, EndChat
<1>16. ASSUME NEW s \in Senders, SenderEOF(s) PROVE LocalsSet(d)'
  BY <1>16 DEF SenderEOF, EndChat
<1>17. ASSUME NEW s \in Senders, BroadcastLock(s) PROVE LocalsSet(d)'
  BY <1>17, DeliveryIsMessage, AppendProperties DEF BroadcastLock, LockRoom
<1>18. ASSUME NEW s \in Senders, NEW u \in Clients, BroadcastTo(s, u) PROVE LocalsSet(d)'
  BY <1>18, DeliveryIsMessage, AppendProperties DEF BroadcastTo
<1>19. ASSUME NEW s \in Senders, BroadcastEnd(s) PROVE LocalsSet(d)'
  BY <1>19 DEF BroadcastEnd, UnlockRoom
<1>20. ASSUME NEW c \in Clients, EarlyEOF(c) PROVE LocalsSet(d)'
  BY <1>20 DEF EarlyEOF
<1>21. ASSUME NEW r \in Receivers, ReceiverJoin(r) \/ ReceiverJoinRefused(r)
       PROVE  LocalsSet(d)'
  BY <1>21 DEF ReceiverJoin, ReceiverJoinRefused
<1>22. ASSUME NEW r \in Receivers, DequeueMessage(r) PROVE LocalsSet(d)'
  BY <1>22, HeadTailProperties, SMTT(30) DEF DequeueMessage
<1>23. ASSUME NEW r \in Receivers, DequeueWait(r) \/ DequeueTimeout(r) PROVE LocalsSet(d)'
  BY <1>23, ZenonT(30) DEF DequeueWait, DequeueTimeout
<1>24. ASSUME NEW r \in Receivers, SendDelivery(r) PROVE LocalsSet(d)'
  BY <1>24, AppendProperties DEF SendDelivery
<1>25. ASSUME NEW r \in Receivers, SendFails(r) PROVE LocalsSet(d)'
  BY <1>25 DEF SendFails
<1>26. CASE UNCHANGED vars
  BY <1>26 DEF vars
<1>. QED
  BY <1>1, <1>2, <1>3, <1>4, <1>5, <1>6, <1>7, <1>8, <1>9, <1>10, <1>11, <1>12,
     <1>13, <1>14, <1>15, <1>16, <1>17, <1>18, <1>19, <1>20, <1>21, <1>22, <1>23,
     <1>24, <1>25, <1>26
     DEF Next, Input, Internal, Output, Join, Leave, Broadcast, Quiescent

LEMMA TypeOKStep == ASSUME TypeOK, [Next]_vars PROVE TypeOK'
BY TypesStep, LocalsStep DEF TypeOK

(***************************************************************************)
(* Steps that neither acquire nor release a mutex nor enter or leave a     *)
(* room: what they leave alone, stated once.                               *)
(***************************************************************************)
Elsewhere == {"absent", "login", "request", "join", "find.lock", "add.lock",
              "remove.lock", "broadcast.lock", "dequeue", "waiting", "deliver", "done"}

Plain(c) ==
  \/ Peer(c) \/ Input(c) \/ Output(c) \/ EarlyEOF(c)
  \/ c \in Senders /\ (SenderEOF(c) \/ \E u \in Clients : BroadcastTo(c, u))
  \/ c \in Receivers /\ (DequeueMessage(c) \/ DequeueWait(c))

LEMMA PlainStep ==
  ASSUME TypeOK, NEW c \in Clients, Plain(c)
  PROVE  /\ UNCHANGED <<room, m_lock, m_rooms, lock, members>>
         /\ \A d \in Clients :
              \/ pc'[d] = pc[d] /\ target'[d] = target[d]
              \/ /\ pc[d] \in Elsewhere /\ pc'[d] \in Elsewhere
                 /\ pc[d] \in Inside /\ room[d] # NoRoom => pc'[d] \in Inside
                 /\ pc'[d] \in Inside /\ room[d] # NoRoom => pc[d] \in Inside
<1>. USE DEF TypeOK, Types, LocalsSet, Goto, sharedVars, queueVars, sessionVars,
             Elsewhere, Inside
<1>1. CASE Peer(c)
  BY <1>1 DEF Peer, Connect, PeerClose, PeerReset
<1>2. CASE Login(c) \/ LoginRefused(c) \/ EarlyEOF(c)
  BY <1>2 DEF Login, LoginRefused, EarlyEOF
<1>3. CASE c \in Senders /\ RequestRefused(c)
  BY <1>3 DEF RequestRefused, ReadRequest
<1>4. CASE c \in Senders /\ JoinRequest(c)
  BY <1>4 DEF JoinRequest, ReadRequest
<1>5. CASE c \in Senders /\ (LeaveRequest(c) \/ SendAllRequest(c))
  BY <1>5 DEF LeaveRequest, SendAllRequest, ReadRequest
<1>6. CASE c \in Senders /\ (QuitRequest(c) \/ SenderEOF(c))
  BY <1>6 DEF QuitRequest, SenderEOF, ReadRequest, EndChat
<1>7. CASE c \in Senders /\ \E u \in Clients : BroadcastTo(c, u)
  BY <1>7 DEF BroadcastTo
<1>8. CASE c \in Receivers /\ (ReceiverJoin(c) \/ ReceiverJoinRefused(c))
  BY <1>8 DEF ReceiverJoin, ReceiverJoinRefused
<1>9. CASE c \in Receivers /\ (DequeueMessage(c) \/ DequeueWait(c))
  BY <1>9 DEF DequeueMessage, DequeueWait
<1>10. CASE Output(c)
  BY <1>10 DEF Output, DequeueTimeout, SendDelivery, SendFails
<1>. QED
  BY <1>1, <1>2, <1>3, <1>4, <1>5, <1>6, <1>7, <1>8, <1>9, <1>10 DEF Plain, Input

LEMMA NextCases ==
  ASSUME [Next]_vars
  PROVE  \/ UNCHANGED vars
         \/ \E c \in Clients : Plain(c) \/ Join(c) \/ Leave(c)
         \/ \E s \in Senders : BroadcastLock(s) \/ BroadcastEnd(s)
BY DEF Next, Plain, Internal, Broadcast, Quiescent

(***************************************************************************)
(* Both kinds of mutex change hands only when free or by their holder, and *)
(* a thread keeps its room while it holds the lock of it.                  *)
(***************************************************************************)
LEMMA LockInvStep == ASSUME TypeOK, LockInv, [Next]_vars PROVE LockInv'
<1>1. ASSUME NEW c \in Clients, Plain(c) PROVE LockInv'
  <2>. SUFFICES ASSUME NEW d \in Clients
                PROVE  /\ m_lock' = d <=> pc'[d] \in {"find", "create"}
                       /\ \A o \in Rooms :
                            lock'[o] = d <=> /\ room'[d] = o
                                             /\ pc'[d] \in {"add", "remove", "broadcast"}
    BY DEF LockInv
  <2>1. UNCHANGED <<room, m_lock, lock>>
    BY <1>1, PlainStep
  <2>2. \/ pc'[d] = pc[d]
        \/ pc[d] \in Elsewhere /\ pc'[d] \in Elsewhere
    BY <1>1, PlainStep
  <2>. QED  BY <2>1, <2>2 DEF LockInv, Elsewhere
<1>. USE DEF TypeOK, Types, LocalsSet, LockInv, Goto, sharedVars, queueVars, sessionVars
<1>2. ASSUME NEW c \in Clients, FindLock(c) PROVE LockInv'
  BY <1>2, ClientsAssumption DEF FindLock, LockServer
<1>3. ASSUME NEW c \in Clients, FindExisting(c) PROVE LockInv'
  <2>1. /\ pc[c] = "find" /\ pc' = [pc EXCEPT ![c] = "add.lock"]
        /\ m_lock = c /\ m_lock' = NoSession /\ UNCHANGED lock
        /\ \A d \in Clients : d # c => room'[d] = room[d]
    BY <1>3 DEF FindExisting, UnlockServer
  <2>. QED  BY <2>1, ClientsAssumption
<1>4. ASSUME NEW c \in Clients, FindNothing(c) PROVE LockInv'
  BY <1>4 DEF FindNothing
<1>5. ASSUME NEW c \in Clients, CreateRoom(c) PROVE LockInv'
  BY <1>5, ClientsAssumption DEF CreateRoom, UnlockServer
<1>6. ASSUME NEW c \in Clients, AddLock(c) PROVE LockInv'
  BY <1>6, ClientsAssumption DEF AddLock, LockRoom
<1>7. ASSUME NEW c \in Clients, AddMember(c) PROVE LockInv'
  BY <1>7, ClientsAssumption DEF AddMember, UnlockRoom
<1>8. ASSUME NEW c \in Clients, RemoveLock(c) PROVE LockInv'
  BY <1>8, ClientsAssumption DEF RemoveLock, LockRoom
<1>9. ASSUME NEW c \in Clients, RemoveMember(c) PROVE LockInv'
  <2>1. /\ pc[c] = "remove" /\ pc'[c] \in {"done", "find.lock", "request"}
        /\ lock[room[c]] = c /\ lock' = [lock EXCEPT ![room[c]] = NoSession]
        /\ room[c] \in Rooms /\ room' = [room EXCEPT ![c] = NoRoom]
        /\ UNCHANGED m_lock
        /\ \A d \in Clients : d # c => pc'[d] = pc[d]
    BY <1>9 DEF RemoveMember, UnlockRoom
  <2>. QED  BY <2>1, ClientsAssumption, ValuesAssumption, SMTT(30)
<1>10. ASSUME NEW s \in Senders, BroadcastLock(s) PROVE LockInv'
  <2>1. /\ pc[s] = "broadcast.lock" /\ pc' = [pc EXCEPT ![s] = "broadcast"]
        /\ lock[room[s]] = NoSession /\ lock' = [lock EXCEPT ![room[s]] = s]
        /\ room[s] \in Rooms /\ s \in Clients /\ UNCHANGED <<room, m_lock>>
    BY <1>10 DEF BroadcastLock, LockRoom, Clients
  <2>. QED  BY <2>1, ClientsAssumption, SMTT(30)
<1>11. ASSUME NEW s \in Senders, BroadcastEnd(s) PROVE LockInv'
  <2>1. /\ pc[s] = "broadcast" /\ pc' = [pc EXCEPT ![s] = "request"]
        /\ lock[room[s]] = s /\ lock' = [lock EXCEPT ![room[s]] = NoSession]
        /\ room[s] \in Rooms /\ s \in Clients /\ UNCHANGED <<room, m_lock>>
    BY <1>11 DEF BroadcastEnd, UnlockRoom, Clients
  <2>. QED  BY <2>1, ClientsAssumption, SMTT(30)
<1>12. CASE UNCHANGED vars
  BY <1>12 DEF vars
<1>. QED
  BY <1>1, <1>2, <1>3, <1>4, <1>5, <1>6, <1>7, <1>8, <1>9, <1>10, <1>11, <1>12,
     NextCases DEF Join, Leave

(***************************************************************************)
(* The map changes only in CreateRoom, whose thread has held m_lock since  *)
(* it saw that the name is free.                                           *)
(***************************************************************************)
LEMMA LookupInvStep ==
  ASSUME TypeOK, LockInv, LookupInv, [Next]_vars PROVE LookupInv'
<1>. USE DEF TypeOK, Types, LocalsSet, LookupInv, Goto, sharedVars, queueVars, sessionVars
<1>1. ASSUME NEW c \in Clients, CreateRoom(c) PROVE LookupInv'
  <2>1. \A d \in Clients : pc'[d] # "create"
    BY <1>1 DEF CreateRoom, LockInv
  <2>2. \A n \in RoomNames : m_rooms'[n] # NoRoom => m_rooms'[n].name = n
    BY <1>1 DEF CreateRoom
  <2>. QED  BY <2>1, <2>2
<1>2. ASSUME NEW c \in Clients, FindNothing(c) PROVE LookupInv'
  BY <1>2 DEF FindNothing
<1>3. ASSUME NEW c \in Clients,
             \/ FindLock(c) \/ FindExisting(c) \/ AddLock(c) \/ AddMember(c)
             \/ RemoveLock(c) \/ RemoveMember(c)
      PROVE  LookupInv'
  <2>1. UNCHANGED m_rooms
    BY <1>3 DEF FindLock, FindExisting, AddLock, AddMember, RemoveLock, RemoveMember
  <2>2. \A d \in Clients : pc'[d] = "create" => pc[d] = "create" /\ target'[d] = target[d]
    BY <1>3 DEF FindLock, FindExisting, AddLock, AddMember, RemoveLock, RemoveMember
  <2>. QED  BY <2>1, <2>2
<1>4. ASSUME NEW s \in Senders, BroadcastLock(s) \/ BroadcastEnd(s) PROVE LookupInv'
  BY <1>4 DEF BroadcastLock, BroadcastEnd
<1>5. ASSUME NEW c \in Clients, Plain(c) PROVE LookupInv'
  <2>1. UNCHANGED m_rooms
    BY <1>5, PlainStep
  <2>2. \A d \in Clients : pc'[d] = "create" => pc[d] = "create" /\ target'[d] = target[d]
    BY <1>5, PlainStep DEF Elsewhere
  <2>. QED  BY <2>1, <2>2
<1>6. CASE UNCHANGED vars
  BY <1>6 DEF vars
<1>. QED
  BY <1>1, <1>2, <1>3, <1>4, <1>5, <1>6, NextCases DEF Join, Leave

(***************************************************************************)
(* The Room in the map under a name is never replaced, so every session    *)
(* that looked the name up has it.                                         *)
(***************************************************************************)
LEMMA OneRoomStep ==
  ASSUME TypeOK, LookupInv, OneRoomPerName, [Next]_vars PROVE OneRoomPerName'
<1>. USE DEF OneRoomPerName
<1>1. ASSUME NEW c \in Clients, CreateRoom(c) PROVE OneRoomPerName'
  <2>1. m_rooms[target[c]] = NoRoom /\ target[c] \in RoomNames
    BY <1>1 DEF CreateRoom, Goto, LookupInv, TypeOK, LocalsSet
  <2>2. \A d \in Clients : room[d] # NoRoom =>
          room[d].name # target[c] /\ room[d].name \in RoomNames
    BY <2>1 DEF TypeOK, Types, Rooms
  <2>3. [name |-> target[c], maker |-> c].name = target[c]
    OBVIOUS
  <2>. QED  BY <1>1, <2>1, <2>2, <2>3 DEF CreateRoom, TypeOK, Types
<1>2. ASSUME NEW c \in Clients, FindExisting(c) PROVE OneRoomPerName'
  <2>1. target[c] \in RoomNames /\ m_rooms[target[c]].name = target[c]
    BY <1>2 DEF FindExisting, Goto, LookupInv, TypeOK, LocalsSet
  <2>. QED  BY <1>2, <2>1 DEF FindExisting, TypeOK, Types
<1>3. ASSUME NEW c \in Clients, RemoveMember(c) PROVE OneRoomPerName'
  BY <1>3 DEF RemoveMember, TypeOK, Types
<1>4. CASE UNCHANGED <<room, m_rooms>>
  BY <1>4
<1>5. ASSUME NEW c \in Clients, Plain(c) PROVE OneRoomPerName'
  BY <1>5, PlainStep
<1>6. ASSUME NEW c \in Clients,
             FindLock(c) \/ FindNothing(c) \/ AddLock(c) \/ AddMember(c) \/ RemoveLock(c)
      PROVE  OneRoomPerName'
  BY <1>6 DEF FindLock, FindNothing, AddLock, AddMember, RemoveLock, sharedVars
<1>7. ASSUME NEW s \in Senders, BroadcastLock(s) \/ BroadcastEnd(s)
      PROVE  OneRoomPerName'
  BY <1>7 DEF BroadcastLock, BroadcastEnd
<1>. QED
  BY <1>1, <1>2, <1>3, <1>4, <1>5, <1>6, <1>7, NextCases
     DEF Join, Leave, vars, sessionVars, sharedVars

(***************************************************************************)
(* A user enters and leaves the member set in the step in which its thread *)
(* enters and leaves the points where it is Inside.                        *)
(***************************************************************************)
LEMMA MembershipStep ==
  ASSUME TypeOK, MembershipMatchesSession, [Next]_vars
  PROVE  MembershipMatchesSession'
<1>. USE DEF MembershipMatchesSession
<1>1. ASSUME NEW c \in Clients, Plain(c) PROVE MembershipMatchesSession'
  <2>1. UNCHANGED <<room, members>>
    BY <1>1, PlainStep
  <2>2. \A d \in Clients : room[d] # NoRoom => (pc[d] \in Inside <=> pc'[d] \in Inside)
    BY <1>1, PlainStep
  <2>3. \A o \in Rooms : o # NoRoom
    BY ValuesAssumption
  <2>. QED  BY <2>1, <2>2, <2>3
<1>2. ASSUME NEW c \in Clients, FindExisting(c) \/ CreateRoom(c)
      PROVE  MembershipMatchesSession'
  <2>1. /\ pc[c] \notin Inside /\ pc'[c] \notin Inside /\ UNCHANGED members
        /\ \A d \in Clients : d # c => pc'[d] = pc[d] /\ room'[d] = room[d]
    BY <1>2 DEF FindExisting, CreateRoom, Goto, Inside, TypeOK, Types
  <2>. QED  BY <2>1
<1>3. ASSUME NEW c \in Clients, FindLock(c) \/ FindNothing(c) \/ AddLock(c) \/ RemoveLock(c)
      PROVE  MembershipMatchesSession'
  <2>1. /\ pc[c] \in Inside <=> pc'[c] \in Inside
        /\ UNCHANGED <<room, members>>
        /\ \A d \in Clients : d # c => pc'[d] = pc[d]
    BY <1>3 DEF FindLock, FindNothing, AddLock, RemoveLock, Goto, Inside, TypeOK,
                Types, sharedVars
  <2>. QED  BY <2>1
<1>4. ASSUME NEW c \in Clients, AddMember(c) PROVE MembershipMatchesSession'
  <2>1. /\ pc[c] \notin Inside /\ pc'[c] \in Inside /\ UNCHANGED room
        /\ room[c] \in Rooms
        /\ members' = [members EXCEPT ![room[c]] = @ \cup {c}]
        /\ \A d \in Clients : d # c => pc'[d] = pc[d]
    BY <1>4 DEF AddMember, Goto, Inside, TypeOK, Types, LocalsSet
  <2>. QED  BY <2>1 DEF TypeOK, Types
<1>5. ASSUME NEW c \in Clients, RemoveMember(c) PROVE MembershipMatchesSession'
  <2>1. /\ room[c] \in Rooms /\ room' = [room EXCEPT ![c] = NoRoom]
        /\ members' = [members EXCEPT ![room[c]] = @ \ {c}]
        /\ \A d \in Clients : d # c => pc'[d] = pc[d]
    BY <1>5 DEF RemoveMember, Goto, TypeOK, Types, LocalsSet
  <2>. QED  BY <2>1, ValuesAssumption, SMTT(30) DEF TypeOK, Types
<1>6. ASSUME NEW s \in Senders, BroadcastLock(s) \/ BroadcastEnd(s)
      PROVE  MembershipMatchesSession'
  <2>1. /\ pc[s] \in Inside /\ pc'[s] \in Inside
        /\ UNCHANGED <<room, members>>
        /\ \A d \in Clients : d # s => pc'[d] = pc[d]
    BY <1>6 DEF BroadcastLock, BroadcastEnd, Goto, Inside, TypeOK, Types
  <2>. QED  BY <2>1
<1>7. CASE UNCHANGED vars
  BY <1>7 DEF vars, sessionVars, sharedVars
<1>. QED
  BY <1>1, <1>2, <1>3, <1>4, <1>5, <1>6, <1>7, NextCases DEF Join, Leave

-------------------------------------------------------------------------------
LEMMA IInvStep == IInv /\ [Next]_vars => IInv'
BY TypeOKStep, LockInvStep, LookupInvStep, OneRoomStep, MembershipStep DEF IInv

LEMMA Invariance == Spec => []IInv
<1>. QED  BY InitIInv, IInvStep, PTL DEF Spec

(***************************************************************************)
(* The variables keep their types, and no thread uses a room, a room name  *)
(* or a message that is not set.                                           *)
(***************************************************************************)
THEOREM TypeCorrect == Spec => []TypeOK
<1>1. IInv => TypeOK
  BY DEF IInv
<1>. QED  BY <1>1, Invariance, PTL

(***************************************************************************)
(* Mutual exclusion on the map of rooms and on every member set.           *)
(***************************************************************************)
THEOREM MutualExclusion == Spec => []LockInv
<1>1. IInv => LockInv
  BY DEF IInv
<1>. QED  BY <1>1, Invariance, PTL

(***************************************************************************)
(* All sessions that joined under a name share one Room.                   *)
(***************************************************************************)
THEOREM SharedRooms == Spec => []OneRoomPerName
<1>1. IInv => OneRoomPerName
  BY DEF IInv
<1>. QED  BY <1>1, Invariance, PTL

(***************************************************************************)
(* The member sets hold exactly the users whose sessions are inside.       *)
(***************************************************************************)
THEOREM NoGhostMembers == Spec => []MembershipMatchesSession
<1>1. IInv => MembershipMatchesSession
  BY DEF IInv
<1>. QED  BY <1>1, Invariance, PTL

(***************************************************************************)
(* A queue whose session is over is never touched again: only a broadcast  *)
(* to the members enqueues, and the user is no member.                     *)
(***************************************************************************)
THEOREM NoLateEnqueue == Spec => NoEnqueueAfterExit
<1>1. ASSUME IInv, [Next]_vars
      PROVE  \A c \in Clients : pc[c] = "done" => mqueue'[c] = mqueue[c]
  <2>. SUFFICES ASSUME NEW c \in Clients, pc[c] = "done"
                PROVE  mqueue'[c] = mqueue[c]
    OBVIOUS
  <2>1. CASE \E s \in Senders, u \in Clients : BroadcastTo(s, u)
    <3>1. PICK s \in Senders, u \in Clients : BroadcastTo(s, u)
      BY <2>1
    <3>2. room[s] \in Rooms /\ u \in members[room[s]]
      BY <1>1, <3>1 DEF BroadcastTo, IInv, TypeOK, LocalsSet
    <3>3. u # c
      BY <1>1, <3>2 DEF IInv, MembershipMatchesSession, Inside
    <3>. QED  BY <1>1, <3>1, <3>3 DEF BroadcastTo, IInv, TypeOK, Types
  <2>2. CASE \E r \in Receivers : DequeueMessage(r)
    BY <1>1, <2>2 DEF DequeueMessage, Goto, IInv, TypeOK, Types
  <2>3. CASE UNCHANGED mqueue
    BY <2>3
  <2>4. \/ UNCHANGED mqueue
        \/ \E s \in Senders, u \in Clients : BroadcastTo(s, u)
        \/ \E r \in Receivers : DequeueMessage(r)
    BY <1>1
       DEF Next, Peer, Connect, PeerClose, PeerReset, Input, Login, LoginRefused,
           RequestRefused, JoinRequest, LeaveRequest, SendAllRequest, QuitRequest,
           EndChat, ReceiverJoin, ReceiverJoinRefused, Internal, EarlyEOF, Join,
           FindLock, FindExisting, FindNothing, CreateRoom, AddLock, AddMember,
           Leave, RemoveLock, RemoveMember, SenderEOF, Broadcast, BroadcastLock,
           BroadcastEnd, DequeueWait, Output, DequeueTimeout, SendDelivery,
           SendFails, Quiescent, vars, queueVars
  <2>. QED  BY <2>1, <2>2, <2>3, <2>4
<1>2. IInv /\ [Next]_vars =>
        [\A c \in Clients : pc[c] = "done" => mqueue'[c] = mqueue[c]]_vars
  BY <1>1
<1>. QED  BY <1>2, Invariance, PTL DEF Spec, NoEnqueueAfterExit
===============================================================================
