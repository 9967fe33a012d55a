---------------------------- MODULE SocketsProofs ----------------------------
(***************************************************************************)
(* The safety of Sockets for any number of clients, addresses and          *)
(* descriptors.  That a descriptor has one owner rests on each client      *)
(* coming through the backlog once (Newcomers), and on the main thread     *)
(* holding at most the connection it has just accepted (InHand).  That     *)
(* ~Server does not run under the workers rests on descriptor 0 being      *)
(* taken since before the first Accept (ZeroTaken).                        *)
(***************************************************************************)
EXTENDS Sockets, SequenceTheorems, TLAPS

\* before the server listens nothing else has happened to it
Fresh ==
  pc = "listen" =>
    /\ m_ssock = -1 /\ bound = << >> /\ backlog = << >>
    /\ \A c \in Clients : thread[c] = "none"
    /\ \A fd \in Fds : table[fd] \in {"free", "std"}

\* a client is in the backlog once, and has had no Connection by then
Newcomers ==
  /\ \A i \in 1..Len(backlog) :
       /\ client[backlog[i]] # "trying"
       /\ thread[backlog[i]] = "none" /\ m_fd[backlog[i]] = -1
  /\ \A i, j \in 1..Len(backlog) : i # j => backlog[i] # backlog[j]
  /\ \A c \in Clients : client[c] = "trying" => thread[c] = "none" /\ m_fd[c] = -1

\* a Connection without a worker is the one just accepted
InHand ==
  /\ pc = "create" => /\ client_fd \in Fds /\ table[client_fd] \in Clients
                      /\ thread[table[client_fd]] = "none"
  /\ \A c \in Clients :
       thread[c] = "none" /\ m_fd[c] # -1 => pc = "create" /\ client_fd = m_fd[c]

ZeroTaken == pc \in {"accept", "create"} => table[0] \in {"std", "listener"}

\* the loop ends without workers, unless a thread could not be created
Returned ==
  pc \in {"return", "destroyed"} /\ ~refused =>
    \A c \in Clients : thread[c] \notin {"run", "closing"}

IInv ==
  /\ TypeOK /\ Fresh /\ Newcomers /\ InHand
  /\ OneOwner /\ ZeroTaken /\ Returned

USE DEF Stages

LEMMA FdsNumbers == /\ Fds \subseteq Int /\ -1 \notin Fds /\ 0 \in Fds
                    /\ \A fd \in Fds : ~(fd < 0)
BY LimitsAssumption DEF Fds

LEMMA InitIInv == Init => IInv
<1>. SUFFICES ASSUME Init PROVE IInv
  OBVIOUS
<1>1. TypeOK
  <2>1. table \in [Fds -> Clients \cup {"free", "std", "listener"}]
    BY DEF Init
  <2>2. left \in [Clients -> Seq(Addrs)]
    BY AddressesAssumption DEF Init
  <2>3. walk \in Seq(Addrs)
    BY AddressesAssumption DEF Init
  <2>4. /\ m_ssock = -1 /\ client_fd = -1 /\ bound = << >> /\ refused = FALSE /\ pc = "listen"
        /\ m_fd \in [Clients -> Fds \cup {-1}]
        /\ thread \in [Clients -> {"none", "run", "closing", "over"}]
        /\ backlog \in Seq(Clients)
        /\ client \in [Clients -> {"trying", "connected", "unconnected", "gone"}]
    BY DEF Init
  <2>. QED  BY <2>1, <2>2, <2>3, <2>4 DEF TypeOK
<1>2. \A fd \in Fds : table[fd] \in {"free", "std"}
  BY DEF Init
<1>3. Fresh /\ InHand /\ ZeroTaken /\ Returned
  BY <1>2 DEF Init, Fresh, InHand, ZeroTaken, Returned
<1>4. Newcomers
  BY DEF Init, Newcomers
<1>5. OneOwner
  <2>1. ASSUME NEW fd \in Fds PROVE table[fd] # "listener" /\ fd # m_ssock
    BY <1>2, FdsNumbers DEF Init
  <2>2. ASSUME NEW c \in Clients, NEW fd \in Fds PROVE table[fd] # c /\ ~Holds(c, fd)
    BY <1>2, FdsNumbers, ClientsAssumption DEF Init, Holds
  <2>. QED  BY <2>1, <2>2 DEF OneOwner
<1>. QED  BY <1>1, <1>3, <1>4, <1>5 DEF IInv

(***************************************************************************)
(* The steps.  What follows takes the actions one by one.                  *)
(***************************************************************************)
LEMMA NextCases ==
  ASSUME [Next]_vars
  PROVE  \/ AddressFails \/ Listens \/ NoAddress \/ Accept \/ CreateThread \/ CreateFails
         \/ DestroyServer \/ ProcessEnds
         \/ \E c \in Clients : \/ WorkerReturns(c) \/ WorkerForgets(c) \/ Connects(c)
                               \/ ConnectRefused(c) \/ ConnectFails(c) \/ GivesUp(c)
                               \/ Leaves(c)
         \/ UNCHANGED vars
BY DEF Next, Main, Connect, AcceptFails, MainReturns, Killed, Finished

LEMMA TypeOKStep == ASSUME TypeOK, [Next]_vars PROVE TypeOK'
<1>. USE DEF TypeOK, mainVars, clientVars
<1>1. CASE AddressFails
  BY <1>1 DEF AddressFails
<1>2. CASE Listens
  BY <1>2 DEF Listens
<1>3. CASE NoAddress
  BY <1>3 DEF NoAddress
<1>4. CASE Accept
  <2>1. PICK fd \in Fds : Accept!2!(fd)
    BY <1>4 DEF Accept
  <2>2. Head(backlog) \in Clients /\ backlog' \in Seq(Clients)
    BY <1>4 DEF Accept
  <2>3. /\ client_fd' \in Fds /\ pc' \in {"create", "return"} /\ m_ssock \in Fds
        /\ table' \in [Fds -> Clients \cup {"free", "std", "listener"}]
    BY <1>4, <2>1, <2>2 DEF Accept
  <2>4. m_fd' \in [Clients -> Fds \cup {-1}]
    BY <2>1, <2>2
  <2>. QED  BY <1>4, <2>2, <2>3, <2>4 DEF Accept
<1>5. CASE CreateThread
  BY <1>5 DEF CreateThread
<1>6. CASE CreateFails
  BY <1>6 DEF CreateFails
<1>7. CASE DestroyServer
  BY <1>7 DEF DestroyServer
<1>8. CASE ProcessEnds
  BY <1>8 DEF ProcessEnds
<1>9. ASSUME NEW c \in Clients, WorkerReturns(c) \/ WorkerForgets(c) PROVE TypeOK'
  BY <1>9 DEF WorkerReturns, WorkerForgets
<1>10. ASSUME NEW c \in Clients, Connects(c) PROVE TypeOK'
  BY <1>10 DEF Connects
<1>11. ASSUME NEW c \in Clients, ConnectRefused(c) \/ ConnectFails(c) PROVE TypeOK'
  <2>1. Tail(left[c]) \in Seq(Addrs)
    BY <1>11 DEF ConnectRefused, ConnectFails
  <2>. QED  BY <1>11, <2>1 DEF ConnectRefused, ConnectFails
<1>12. ASSUME NEW c \in Clients, GivesUp(c) \/ Leaves(c) PROVE TypeOK'
  BY <1>12 DEF GivesUp, Leaves
<1>13. CASE UNCHANGED vars
  BY <1>13 DEF vars
<1>. QED
  BY <1>1, <1>2, <1>3, <1>4, <1>5, <1>6, <1>7, <1>8, <1>9, <1>10, <1>11, <1>12, <1>13,
     NextCases

LEMMA FreshStep == ASSUME TypeOK, Fresh, [Next]_vars PROVE Fresh'
<1>. USE DEF Fresh, mainVars, clientVars
<1>1. CASE AddressFails
  BY <1>1 DEF AddressFails
<1>2. CASE Listens \/ NoAddress \/ Accept \/ CreateThread \/ CreateFails \/ DestroyServer
           \/ ProcessEnds
  BY <1>2 DEF Listens, NoAddress, Accept, CreateThread, CreateFails, DestroyServer, ProcessEnds
<1>3. ASSUME NEW c \in Clients, WorkerReturns(c) \/ WorkerForgets(c) PROVE Fresh'
  BY <1>3 DEF WorkerReturns, WorkerForgets
<1>4. ASSUME NEW c \in Clients, Connects(c) PROVE Fresh'
  BY <1>4 DEF Connects, Listening
<1>5. ASSUME NEW c \in Clients,
             ConnectRefused(c) \/ ConnectFails(c) \/ GivesUp(c) \/ Leaves(c)
      PROVE  Fresh'
  BY <1>5 DEF ConnectRefused, ConnectFails, GivesUp, Leaves
<1>6. CASE UNCHANGED vars
  BY <1>6 DEF vars
<1>. QED  BY <1>1, <1>2, <1>3, <1>4, <1>5, <1>6, NextCases

(***************************************************************************)
(* A connection comes off the backlog once.                                *)
(***************************************************************************)
LEMMA NewcomersStep ==
  ASSUME TypeOK, Newcomers, InHand, OneOwner, [Next]_vars
  PROVE  Newcomers'
<1>. USE DEF mainVars, clientVars
<1>1. CASE AddressFails \/ Listens \/ NoAddress \/ DestroyServer
  BY <1>1 DEF AddressFails, Listens, NoAddress, DestroyServer, Newcomers
<1>2. CASE Accept
  <2>. DEFINE c == Head(backlog)
  <2>1. /\ c = backlog[1] /\ c \in Clients /\ Len(backlog) \in Nat /\ Len(backlog) > 0
        /\ Len(backlog') = Len(backlog) - 1
        /\ \A i \in 1..Len(backlog') : backlog'[i] = backlog[i + 1] /\ backlog[i + 1] \in Clients
    BY <1>2 DEF Accept, TypeOK
  <2>2. /\ UNCHANGED <<client, thread>>
        /\ \A d \in Clients : d # c => m_fd'[d] = m_fd[d]
    BY <1>2 DEF Accept, TypeOK
  <2>3. \A i \in 1..Len(backlog') : backlog'[i] # c
    BY <2>1 DEF Newcomers
  <2>4. client[c] # "trying"
    BY <2>1 DEF Newcomers
  <2>. HIDE DEF c
  <2>5. ASSUME NEW i \in 1..Len(backlog')
        PROVE  /\ client'[backlog'[i]] # "trying"
               /\ thread'[backlog'[i]] = "none" /\ m_fd'[backlog'[i]] = -1
    BY <2>1, <2>2, <2>3 DEF Newcomers
  <2>6. ASSUME NEW i \in 1..Len(backlog'), NEW j \in 1..Len(backlog'), i # j
        PROVE  backlog'[i] # backlog'[j]
    BY <2>1, <2>6 DEF Newcomers
  <2>7. ASSUME NEW d \in Clients, client'[d] = "trying"
        PROVE  thread'[d] = "none" /\ m_fd'[d] = -1
    BY <2>2, <2>4, <2>7 DEF Newcomers
  <2>. QED  BY <2>5, <2>6, <2>7 DEF Newcomers
<1>3. CASE CreateThread \/ CreateFails
  <2>. DEFINE c == table[client_fd]
  <2>1. /\ c \in Clients /\ UNCHANGED <<backlog, client>>
        /\ \A d \in Clients : d # c => thread'[d] = thread[d] /\ m_fd'[d] = m_fd[d]
    BY <1>3 DEF CreateThread, CreateFails, InHand, TypeOK
  <2>. client_fd \in Fds
    BY <1>3 DEF CreateThread, CreateFails, InHand
  <2>2. m_fd[c] # -1
    BY <2>1, FdsNumbers DEF OneOwner, Holds
  <2>3. client[c] # "trying" /\ \A i \in 1..Len(backlog) : backlog[i] # c
    BY <2>1, <2>2 DEF Newcomers
  <2>4. \A i \in 1..Len(backlog) : backlog[i] \in Clients
    BY DEF TypeOK
  <2>. QED  BY <2>1, <2>3, <2>4 DEF Newcomers
<1>4. CASE ProcessEnds
  <2>1. \A d \in Clients : (thread[d] = "none" => thread'[d] = "none") /\ m_fd'[d] = -1
    BY <1>4 DEF ProcessEnds
  <2>2. Len(backlog') = 0 /\ client' = client
    BY <1>4 DEF ProcessEnds
  <2>. QED  BY <2>1, <2>2 DEF Newcomers
<1>5. ASSUME NEW c \in Clients, WorkerReturns(c) \/ WorkerForgets(c) PROVE Newcomers'
  <2>1. /\ thread[c] # "none" /\ UNCHANGED <<backlog, client>>
        /\ \A d \in Clients : d # c => thread'[d] = thread[d] /\ m_fd'[d] = m_fd[d]
    BY <1>5 DEF WorkerReturns, WorkerForgets, TypeOK
  <2>2. \A i \in 1..Len(backlog) : backlog[i] \in Clients /\ backlog[i] # c
    BY <2>1 DEF Newcomers, TypeOK
  <2>. QED  BY <2>1, <2>2 DEF Newcomers
<1>6. ASSUME NEW c \in Clients, Connects(c) PROVE Newcomers'
  <2>1. /\ Len(backlog) \in Nat /\ Len(backlog') = Len(backlog) + 1
        /\ backlog'[Len(backlog) + 1] = c
        /\ \A i \in 1..Len(backlog) : backlog'[i] = backlog[i] /\ backlog[i] \in Clients
    BY <1>6 DEF Connects, TypeOK
  <2>2. /\ client[c] = "trying" /\ client'[c] # "trying"
        /\ UNCHANGED <<thread, m_fd>>
        /\ \A d \in Clients : d # c => client'[d] = client[d]
    BY <1>6 DEF Connects, TypeOK
  <2>3. \A i \in 1..Len(backlog) : backlog[i] # c
    BY <2>2 DEF Newcomers
  <2>4. ASSUME NEW i \in 1..Len(backlog')
        PROVE  /\ client'[backlog'[i]] # "trying"
               /\ thread'[backlog'[i]] = "none" /\ m_fd'[backlog'[i]] = -1
    <3>1. CASE i = Len(backlog) + 1
      BY <2>1, <2>2, <3>1 DEF Newcomers
    <3>2. CASE i \in 1..Len(backlog)
      BY <2>1, <2>2, <2>3, <3>2 DEF Newcomers
    <3>. QED  BY <2>1, <3>1, <3>2
  <2>5. ASSUME NEW i \in 1..Len(backlog'), NEW j \in 1..Len(backlog'), i # j
        PROVE  backlog'[i] # backlog'[j]
    BY <2>1, <2>3, <2>5 DEF Newcomers
  <2>6. ASSUME NEW d \in Clients, client'[d] = "trying"
        PROVE  thread'[d] = "none" /\ m_fd'[d] = -1
    BY <2>2, <2>6 DEF Newcomers
  <2>. QED  BY <2>4, <2>5, <2>6 DEF Newcomers
<1>7. ASSUME NEW c \in Clients,
             ConnectRefused(c) \/ ConnectFails(c) \/ GivesUp(c) \/ Leaves(c)
      PROVE  Newcomers'
  <2>1. /\ UNCHANGED <<backlog, thread, m_fd>>
        /\ \A d \in Clients : client'[d] = "trying" => client[d] = "trying"
    BY <1>7 DEF ConnectRefused, ConnectFails, GivesUp, Leaves, TypeOK
  <2>2. \A i \in 1..Len(backlog) : backlog[i] \in Clients
    BY DEF TypeOK
  <2>. QED  BY <2>1, <2>2 DEF Newcomers
<1>8. CASE UNCHANGED vars
  BY <1>8 DEF vars, Newcomers
<1>. QED  BY <1>1, <1>2, <1>3, <1>4, <1>5, <1>6, <1>7, <1>8, NextCases

LEMMA InHandStep ==
  ASSUME TypeOK, Fresh, Newcomers, InHand, OneOwner, [Next]_vars
  PROVE  InHand'
<1>. USE DEF mainVars, clientVars
<1>1. CASE AddressFails \/ Listens \/ NoAddress \/ DestroyServer
  <2>1. pc # "create" /\ pc' # "create" /\ UNCHANGED <<thread, m_fd>>
    BY <1>1 DEF AddressFails, Listens, NoAddress, DestroyServer
  <2>. QED  BY <2>1 DEF InHand
<1>2. CASE Accept
  <2>. DEFINE c == Head(backlog)
  <2>1. c = backlog[1] /\ c \in Clients /\ 1 \in 1..Len(backlog)
    BY <1>2 DEF Accept, TypeOK
  <2>2. thread[c] = "none" /\ m_fd[c] = -1
    BY <2>1 DEF Newcomers
  <2>3. PICK fd \in Fds : Accept!2!(fd)
    BY <1>2 DEF Accept
  <2>4. \A d \in Clients : thread[d] = "none" => m_fd[d] = -1
    BY <1>2 DEF Accept, InHand
  <2>5. table'[fd] = c /\ client_fd' = fd /\ thread' = thread
    BY <1>2, <2>3 DEF Accept, TypeOK
  <2>. HIDE DEF c
  <2>6. ASSUME NEW d \in Clients, thread'[d] = "none", m_fd'[d] # -1
        PROVE  pc' = "create" /\ client_fd' = m_fd'[d]
    <3>1. CASE UNCHANGED m_fd
      BY <2>4, <2>5, <2>6, <3>1
    <3>2. CASE /\ m_fd' = [m_fd EXCEPT ![c] = fd]
               /\ pc' = "create"
      BY <2>4, <2>5, <2>6, <3>2 DEF TypeOK
    <3>. QED  BY <2>3, <3>1, <3>2 DEF c
  <2>. QED  BY <2>1, <2>2, <2>5, <2>6 DEF InHand
<1>3. CASE CreateThread \/ CreateFails
  <2>. DEFINE c == table[client_fd]
  <2>1. pc = "create" /\ pc' # "create" /\ client_fd \in Fds /\ c \in Clients
    BY <1>3 DEF CreateThread, CreateFails, InHand
  <2>2. ASSUME NEW d \in Clients, d # c, thread[d] = "none" PROVE m_fd[d] = -1
    <3>1. SUFFICES ASSUME m_fd[d] # -1 PROVE FALSE
      OBVIOUS
    <3>2. Holds(d, client_fd)
      BY <2>1, <2>2, <3>1 DEF InHand, Holds
    <3>3. table[client_fd] = d
      BY <2>1, <3>2 DEF OneOwner
    <3>. QED  BY <2>2, <3>3
  <2>3. /\ \A d \in Clients : d # c => thread'[d] = thread[d] /\ m_fd'[d] = m_fd[d]
        /\ thread'[c] = "run" \/ m_fd'[c] = -1
    BY <1>3, <2>1 DEF CreateThread, CreateFails, TypeOK
  <2>. QED  BY <2>1, <2>2, <2>3 DEF InHand
<1>4. CASE ProcessEnds
  BY <1>4 DEF ProcessEnds, InHand
<1>5. ASSUME NEW c \in Clients, WorkerReturns(c) \/ WorkerForgets(c) PROVE InHand'
  <2>1. /\ thread[c] # "none" /\ thread'[c] # "none" /\ UNCHANGED <<pc, client_fd>>
        /\ \A d \in Clients : d # c => thread'[d] = thread[d] /\ m_fd'[d] = m_fd[d]
    BY <1>5 DEF WorkerReturns, WorkerForgets, TypeOK
  <2>2. ASSUME pc = "create" PROVE table'[client_fd] = table[client_fd]
    <3>1. client_fd \in Fds /\ table[client_fd] \in Clients /\ table[client_fd] # c
      BY <2>1, <2>2 DEF InHand
    <3>2. CASE WorkerReturns(c) /\ m_fd[c] \in Fds
      <4>1. Holds(c, m_fd[c])
        BY <3>2 DEF WorkerReturns, Holds
      <4>2. table[m_fd[c]] = c
        BY <3>2, <4>1 DEF OneOwner
      <4>. QED  BY <3>1, <3>2, <4>2 DEF WorkerReturns, TypeOK
    <3>3. CASE WorkerReturns(c) /\ m_fd[c] \notin Fds
      BY <3>1, <3>3 DEF WorkerReturns, TypeOK
    <3>4. CASE WorkerForgets(c)
      BY <3>4 DEF WorkerForgets
    <3>. QED  BY <1>5, <3>2, <3>3, <3>4
  <2>. QED  BY <2>1, <2>2 DEF InHand
<1>6. ASSUME NEW c \in Clients,
             \/ Connects(c) \/ ConnectRefused(c) \/ ConnectFails(c) \/ GivesUp(c) \/ Leaves(c)
      PROVE  InHand'
  BY <1>6 DEF Connects, ConnectRefused, ConnectFails, GivesUp, Leaves, InHand
<1>7. CASE UNCHANGED vars
  BY <1>7 DEF vars, InHand
<1>. QED  BY <1>1, <1>2, <1>3, <1>4, <1>5, <1>6, <1>7, NextCases

(***************************************************************************)
(* One owner for each descriptor.                                          *)
(***************************************************************************)
LEMMA OneOwnerStep ==
  ASSUME TypeOK, Fresh, Newcomers, InHand, ZeroTaken, OneOwner, [Next]_vars
  PROVE  OneOwner'
<1>. USE DEF mainVars, clientVars
<1>. USE ClientsAssumption, FdsNumbers
<1>1. CASE AddressFails \/ NoAddress \/ DestroyServer
  BY <1>1 DEF AddressFails, NoAddress, DestroyServer, OneOwner, Holds
<1>2. CASE Listens
  <2>1. PICK fd \in Fds : Listens!2!(fd)
    BY <1>2 DEF Listens
  <2>2. \A g \in Fds : table'[g] = IF g = fd THEN "listener" ELSE table[g]
    BY <2>1 DEF TypeOK
  <2>3. \A g \in Fds : table[g] \in {"free", "std"}
    BY <1>2 DEF Listens, Fresh
  <2>4. \A c \in Clients, g \in Fds : ~Holds(c, g) /\ ~Holds(c, g)'
    BY <1>2, <2>3 DEF Listens, OneOwner, Holds
  <2>5. \A c \in Clients, g \in Fds : table'[g] # c
    BY <2>2, <2>3
  <2>. QED  BY <2>1, <2>2, <2>3, <2>4, <2>5 DEF OneOwner
<1>3. CASE Accept
  <2>1. PICK c \in Clients :
          c = Head(backlog) /\ c = backlog[1] /\ 1 \in 1..Len(backlog)
    BY <1>3 DEF Accept, TypeOK
  <2>2. thread[c] = "none" /\ m_fd[c] = -1
    BY <2>1 DEF Newcomers
  <2>3. PICK fd \in Fds : Accept!2!(fd)
    BY <1>3 DEF Accept
  <2>4. fd # 0 /\ table[fd] = "free"
    BY <1>3, <2>3 DEF Accept, ZeroTaken, Lowest
  <2>5. /\ pc' = "create" /\ client_fd' = fd /\ UNCHANGED <<thread, m_ssock>>
        /\ m_fd'[c] = fd /\ \A d \in Clients : d # c => m_fd'[d] = m_fd[d]
        /\ table'[fd] = c /\ \A g \in Fds : g # fd => table'[g] = table[g]
    <3>1. pc' = "create" /\ m_fd' = [m_fd EXCEPT ![c] = fd]
      BY <2>1, <2>3, <2>4
    <3>2. /\ m_fd'[c] = fd
          /\ \A d \in Clients : d # c => m_fd'[d] = m_fd[d]
      BY <2>1, <3>1 DEF TypeOK
    <3>3. table' = [table EXCEPT ![fd] = c] /\ client_fd' = fd
      BY <2>1, <2>3
    <3>4. table'[fd] = c /\ \A g \in Fds : g # fd => table'[g] = table[g]
      BY <3>3 DEF TypeOK
    <3>5. UNCHANGED <<thread, m_ssock>>
      BY <1>3 DEF Accept
    <3>. QED  BY <3>1, <3>2, <3>3, <3>4, <3>5
  <2>6. \A g \in Fds : table'[g] = "listener" <=> g = m_ssock'
    BY <2>1, <2>4, <2>5 DEF OneOwner
  <2>7. ASSUME NEW g \in Fds PROVE table'[g] = c <=> Holds(c, g)'
    <3>1. table[g] # c
      BY <2>1, <2>2 DEF OneOwner, Holds
    <3>2. table'[g] = c <=> g = fd
      BY <2>5, <3>1
    <3>3. Holds(c, g)' <=> g = fd
      BY <2>2, <2>5 DEF Holds
    <3>. QED  BY <3>2, <3>3
  <2>8. ASSUME NEW d \in Clients, d # c, NEW g \in Fds PROVE table'[g] = d <=> Holds(d, g)'
    <3>1. thread[d] = "none" => m_fd[d] = -1
      BY <1>3 DEF Accept, InHand
    <3>2. Holds(d, g)' <=> Holds(d, g)
      BY <2>5, <2>8, <3>1 DEF Holds
    <3>3. table'[g] = d <=> table[g] = d
      BY <2>1, <2>4, <2>5, <2>8
    <3>. QED  BY <3>2, <3>3 DEF OneOwner
  <2>. QED  BY <2>6, <2>7, <2>8 DEF OneOwner
<1>4. CASE CreateThread
  <2>. DEFINE c == table[client_fd]
  <2>1. client_fd \in Fds /\ c \in Clients /\ thread[c] = "none"
    BY <1>4 DEF CreateThread, InHand
  <2>2. /\ pc = "create" /\ pc' # "create" /\ UNCHANGED <<table, m_fd, m_ssock>>
        /\ thread'[c] = "run" /\ \A d \in Clients : d # c => thread'[d] = thread[d]
    BY <1>4, <2>1 DEF CreateThread, TypeOK
  <2>3. Holds(c, client_fd)
    BY <2>1 DEF OneOwner
  <2>4. \A d \in Clients : Holds(d, client_fd) => d = c
    BY <2>1 DEF OneOwner
  <2>. HIDE DEF c
  <2>5. ASSUME NEW d \in Clients, NEW g \in Fds PROVE Holds(d, g)' <=> Holds(d, g)
    BY <2>1, <2>2, <2>3, <2>4 DEF Holds
  <2>. QED  BY <2>2, <2>5 DEF OneOwner
<1>5. CASE CreateFails
  <2>. DEFINE c == table[client_fd]
  <2>1. client_fd \in Fds /\ c \in Clients /\ thread[c] = "none"
    BY <1>5 DEF CreateFails, InHand
  <2>2. /\ pc = "create" /\ pc' # "create" /\ UNCHANGED <<thread, m_ssock>>
        /\ m_fd'[c] = -1 /\ \A d \in Clients : d # c => m_fd'[d] = m_fd[d]
        /\ table'[client_fd] = "free" /\ \A g \in Fds : g # client_fd => table'[g] = table[g]
    BY <1>5, <2>1 DEF CreateFails, TypeOK
  <2>3. Holds(c, client_fd)
    BY <2>1 DEF OneOwner
  <2>4. \A d \in Clients : Holds(d, client_fd) => d = c
    BY <2>1 DEF OneOwner
  <2>. HIDE DEF c
  <2>5. ASSUME NEW d \in Clients, NEW g \in Fds
        PROVE  Holds(d, g)' <=> Holds(d, g) /\ g # client_fd
    BY <2>1, <2>2, <2>3, <2>4 DEF Holds
  <2>6. table[client_fd] # "listener"
    BY <2>1 DEF c
  <2>. QED  BY <2>2, <2>5, <2>6 DEF OneOwner
<1>6. CASE ProcessEnds
  <2>1. /\ m_ssock' = -1 /\ \A fd \in Fds : table'[fd] = "free"
        /\ \A c \in Clients : m_fd'[c] = -1
    BY <1>6 DEF ProcessEnds
  <2>. QED  BY <2>1 DEF OneOwner, Holds
<1>7. ASSUME NEW c \in Clients, WorkerReturns(c) PROVE OneOwner'
  <2>. DEFINE fd == m_fd[c]
  <2>1. /\ thread[c] = "run" /\ thread'[c] = "closing" /\ UNCHANGED <<pc, client_fd, m_fd, m_ssock>>
        /\ \A d \in Clients : d # c => thread'[d] = thread[d]
    BY <1>7 DEF WorkerReturns, TypeOK
  <2>2. ASSUME NEW g \in Fds PROVE table'[g] = IF g = fd THEN "free" ELSE table[g]
    BY <1>7 DEF WorkerReturns, TypeOK
  <2>3. fd \in Fds => Holds(c, fd) /\ table[fd] = c
    BY <2>1 DEF OneOwner, Holds
  <2>4. ASSUME NEW d \in Clients, NEW g \in Fds
        PROVE  Holds(d, g)' <=> Holds(d, g) /\ d # c
    BY <2>1 DEF Holds
  <2>5. ASSUME NEW g \in Fds PROVE Holds(c, g) <=> g = fd
    BY <2>1 DEF Holds
  <2>6. ASSUME NEW d \in Clients, NEW g \in Fds PROVE table'[g] = d <=> Holds(d, g)'
    <3>1. CASE g = fd
      BY <2>2, <2>3, <2>4, <3>1 DEF OneOwner
    <3>2. CASE g # fd
      BY <2>2, <2>4, <2>5, <3>2 DEF OneOwner
    <3>. QED  BY <3>1, <3>2
  <2>7. ASSUME NEW g \in Fds PROVE table'[g] = "listener" <=> g = m_ssock'
    BY <2>1, <2>2, <2>3 DEF OneOwner
  <2>. QED  BY <2>6, <2>7 DEF OneOwner
<1>8. ASSUME NEW c \in Clients, WorkerForgets(c) PROVE OneOwner'
  <2>1. /\ thread[c] = "closing" /\ thread'[c] = "over" /\ UNCHANGED <<mainVars, table>>
        /\ \A d \in Clients : d # c => thread'[d] = thread[d] /\ m_fd'[d] = m_fd[d]
    BY <1>8 DEF WorkerForgets, TypeOK
  <2>2. ASSUME NEW d \in Clients, NEW g \in Fds PROVE Holds(d, g)' <=> Holds(d, g)
    BY <2>1 DEF Holds
  <2>. QED  BY <2>1, <2>2 DEF OneOwner
<1>9. ASSUME NEW c \in Clients,
             \/ Connects(c) \/ ConnectRefused(c) \/ ConnectFails(c) \/ GivesUp(c) \/ Leaves(c)
      PROVE  OneOwner'
  BY <1>9 DEF Connects, ConnectRefused, ConnectFails, GivesUp, Leaves, OneOwner, Holds
<1>10. CASE UNCHANGED vars
  BY <1>10 DEF vars, OneOwner, Holds
<1>. QED
  BY <1>1, <1>2, <1>3, <1>4, <1>5, <1>6, <1>7, <1>8, <1>9, <1>10, NextCases

(***************************************************************************)
(* Descriptor 0 and the end of the loop of handle_client_requests.         *)
(***************************************************************************)
LEMMA ZeroTakenStep ==
  ASSUME TypeOK, Fresh, InHand, OneOwner, ZeroTaken, [Next]_vars
  PROVE  ZeroTaken'
<1>. USE DEF mainVars, clientVars
<1>. USE ClientsAssumption, FdsNumbers
<1>1. CASE AddressFails \/ NoAddress \/ DestroyServer \/ CreateFails \/ ProcessEnds
  BY <1>1 DEF AddressFails, NoAddress, DestroyServer, CreateFails, ProcessEnds, ZeroTaken
<1>2. CASE Listens
  <2>1. PICK fd \in Fds : Listens!2!(fd)
    BY <1>2 DEF Listens
  <2>2. table[0] \in {"free", "std"}
    BY <1>2 DEF Listens, Fresh
  <2>3. \A g \in Fds : table'[g] = IF g = fd THEN "listener" ELSE table[g]
    BY <2>1 DEF TypeOK
  <2>4. 0 # fd => table[0] # "free"
    <3>1. fd \in Int /\ ~(fd < 0)
      OBVIOUS
    <3>2. 0 # fd => 0 < fd
      BY <3>1
    <3>. QED  BY <2>1, <3>2 DEF Lowest
  <2>. QED  BY <2>2, <2>3, <2>4 DEF ZeroTaken
<1>3. CASE Accept
  <2>1. PICK fd \in Fds : Accept!2!(fd)
    BY <1>3 DEF Accept
  <2>2. fd # 0
    BY <1>3, <2>1 DEF Accept, ZeroTaken, Lowest
  <2>3. table'[0] = table[0]
    BY <2>1, <2>2 DEF TypeOK
  <2>. QED  BY <1>3, <2>3 DEF Accept, ZeroTaken
<1>4. CASE CreateThread
  BY <1>4 DEF CreateThread, ZeroTaken
<1>5. ASSUME NEW c \in Clients, WorkerReturns(c) PROVE ZeroTaken'
  <2>1. m_fd[c] \in Fds => table[m_fd[c]] = c
    BY <1>5 DEF WorkerReturns, OneOwner, Holds
  <2>2. pc \in {"accept", "create"} => table[0] # c
    BY DEF ZeroTaken
  <2>3. pc \in {"accept", "create"} => table'[0] = table[0]
    BY <1>5, <2>1, <2>2 DEF WorkerReturns, TypeOK
  <2>. QED  BY <1>5, <2>3 DEF WorkerReturns, ZeroTaken
<1>6. ASSUME NEW c \in Clients,
             \/ WorkerForgets(c) \/ Connects(c) \/ ConnectRefused(c) \/ ConnectFails(c)
             \/ GivesUp(c) \/ Leaves(c)
      PROVE  ZeroTaken'
  BY <1>6 DEF WorkerForgets, Connects, ConnectRefused, ConnectFails, GivesUp, Leaves, ZeroTaken
<1>7. CASE UNCHANGED vars
  BY <1>7 DEF vars, ZeroTaken
<1>. QED  BY <1>1, <1>2, <1>3, <1>4, <1>5, <1>6, <1>7, NextCases

LEMMA ReturnedStep ==
  ASSUME TypeOK, Fresh, ZeroTaken, Returned, [Next]_vars
  PROVE  Returned'
<1>. USE DEF mainVars, clientVars
<1>1. CASE AddressFails \/ Listens \/ CreateThread \/ CreateFails \/ ProcessEnds
  BY <1>1 DEF AddressFails, Listens, CreateThread, CreateFails, ProcessEnds, Returned
<1>2. CASE NoAddress \/ DestroyServer
  BY <1>2 DEF NoAddress, DestroyServer, Fresh, Returned
<1>3. CASE Accept
  <2>1. PICK fd \in Fds : Accept!2!(fd)
    BY <1>3 DEF Accept
  <2>2. fd # 0
    BY <1>3, <2>1 DEF Accept, ZeroTaken, Lowest
  <2>. QED  BY <2>1, <2>2 DEF Returned
<1>4. ASSUME NEW c \in Clients, WorkerReturns(c) \/ WorkerForgets(c) PROVE Returned'
  <2>1. /\ thread[c] \in {"run", "closing"} /\ UNCHANGED <<pc, refused>>
        /\ \A d \in Clients : d # c => thread'[d] = thread[d]
    BY <1>4 DEF WorkerReturns, WorkerForgets, TypeOK
  <2>. QED  BY <2>1 DEF Returned
<1>5. ASSUME NEW c \in Clients,
             \/ Connects(c) \/ ConnectRefused(c) \/ ConnectFails(c) \/ GivesUp(c) \/ Leaves(c)
      PROVE  Returned'
  BY <1>5 DEF Connects, ConnectRefused, ConnectFails, GivesUp, Leaves, Returned
<1>6. CASE UNCHANGED vars
  BY <1>6 DEF vars, Returned
<1>. QED  BY <1>1, <1>2, <1>3, <1>4, <1>5, <1>6, NextCases

LEMMA IInvStep == IInv /\ [Next]_vars => IInv'
BY TypeOKStep, FreshStep, NewcomersStep, InHandStep, OneOwnerStep, ZeroTakenStep, ReturnedStep
   DEF IInv

LEMMA Invariance == Spec => []IInv
BY InitIInv, IInvStep, PTL DEF Spec

-------------------------------------------------------------------------------
(***************************************************************************)
(* The variables keep to their types, and the server accepts only with a   *)
(* listening descriptor.                                                   *)
(***************************************************************************)
THEOREM TypeCorrect == Spec => []TypeOK
<1>1. IInv => TypeOK
  BY DEF IInv
<1>. QED  BY <1>1, Invariance, PTL

(***************************************************************************)
(* No descriptor of the server is shared or lost, and no worker reaches    *)
(* another client's (server.cpp:99-109, connection.cpp:29-38).             *)
(***************************************************************************)
THEOREM DescriptorsHaveOneOwner == Spec => []OneOwner
<1>1. IInv => OneOwner
  BY DEF IInv
<1>. QED  BY <1>1, Invariance, PTL

(***************************************************************************)
(* The Server is destroyed under its workers only if pthread_create failed *)
(* (server.cpp:99-114, csapp.c:587-594).                                   *)
(***************************************************************************)
THEOREM WorkersKeepTheServer == Spec => []ServerOutlivesThreads
<1>1. IInv => ServerOutlivesThreads
  BY DEF IInv, Returned, ServerOutlivesThreads
<1>. QED  BY <1>1, Invariance, PTL
===============================================================================
