------------------------------- MODULE Sockets -------------------------------
(***************************************************************************)
(* The descriptors of the server process: how it comes to listen (Server:: *)
(* listen, open_listenfd), accepts (handle_client_requests, Accept), hands *)
(* each connection to a thread that closes it (ConnInfo, Connection), and  *)
(* ends; and how clients find it (Connection::connect, open_clientfd).     *)
(*                                                                         *)
(* What is said on a connection is in Connection, SenderSession and        *)
(* ReceiverSession.  Here a worker returns when its sender has gone, and   *)
(* may return at any time; that of a receiver need not notice.             *)
(***************************************************************************)
EXTENDS Integers, Sequences

CONSTANTS
  Clients,   \* client processes
  Senders,   \* those whose worker waits in receive
  Addrs,     \* addresses
  Passive,   \* what getaddrinfo may give the server; an error gives << >>
  Resolved,  \* what getaddrinfo may give a client
  OPEN_MAX,  \* size of the server's descriptor table
  LISTENQ    \* connections that wait to be accepted

ASSUME ClientsAssumption ==
  /\ Clients \cap {"free", "std", "listener"} = {}
  /\ Senders \subseteq Clients

ASSUME AddressesAssumption ==
  Passive \subseteq Seq(Addrs) /\ Resolved \subseteq Seq(Addrs)

\* 0, 1 and 2 are the standard descriptors, which the process may lack
ASSUME LimitsAssumption == OPEN_MAX \in Nat /\ OPEN_MAX > 2 /\ LISTENQ \in Nat

Fds == 0..OPEN_MAX - 1

VARIABLES
  pc,         \* the main thread of the server
  walk,       \* addresses it has not tried
  bound,      \* where it listens, or << >>
  m_ssock,    \* its listening descriptor
  client_fd,  \* the result of Accept
  refused,    \* history: pthread_create has failed
  table,      \* what each descriptor of the process refers to
  m_fd,       \* of the Connection the server keeps for each client
  thread,     \* the worker of each client
  backlog,    \* clients whose connection waits for Accept
  client,     \* where each client is
  left        \* addresses it has not tried

mainVars == <<pc, walk, bound, m_ssock, client_fd, refused>>
clientVars == <<client, left>>
vars == <<mainVars, table, m_fd, thread, backlog, clientVars>>

Init ==
  /\ pc = "listen"
  /\ walk \in Passive
  /\ bound = << >>
  /\ m_ssock = -1
  /\ client_fd = -1
  /\ refused = FALSE
  /\ \E std \in SUBSET {0, 1, 2} :
       table = [fd \in Fds |-> IF fd \in std THEN "std" ELSE "free"]
  /\ m_fd = [c \in Clients |-> -1]
  /\ thread = [c \in Clients |-> "none"]
  /\ backlog = << >>
  /\ client = [c \in Clients |-> "trying"]
  /\ left \in [Clients -> Resolved]

\* the kernel gives the lowest descriptor that is free
Lowest(fd) == table[fd] = "free" /\ \A g \in Fds : g < fd => table[g] # "free"

NoneFree == \A fd \in Fds : table[fd] # "free"

-------------------------------------------------------------------------------
(***************************************************************************)
(* The main thread of the server                                           *)
(***************************************************************************)
\* socket or bind fails, which gives the descriptor back: on to the next
AddressFails ==
  /\ pc = "listen" /\ walk # << >>
  /\ walk' = Tail(walk)
  /\ UNCHANGED <<pc, bound, m_ssock, client_fd, refused, table, m_fd, thread, backlog, clientVars>>

Listens ==
  /\ pc = "listen" /\ walk # << >>
  /\ \E fd \in Fds :
       /\ Lowest(fd)
       /\ table' = [table EXCEPT ![fd] = "listener"]
       /\ m_ssock' = fd
  /\ bound' = <<Head(walk)>>
  /\ pc' = "accept"
  /\ UNCHANGED <<walk, client_fd, refused, m_fd, thread, backlog, clientVars>>

\* Mutant: nobody looks at the result of listen.
NoAddressIgnored ==
  /\ pc = "listen"
  /\ pc' = "accept"
  /\ UNCHANGED <<walk, bound, m_ssock, client_fd, refused, table, m_fd, thread, backlog, clientVars>>

\* no address is left; or listen, or a close on the way, has failed
NoAddress ==
  /\ pc = "listen"
  /\ pc' = "return"
  /\ UNCHANGED <<walk, bound, m_ssock, client_fd, refused, table, m_fd, thread, backlog, clientVars>>

\* a connection with its ConnInfo; descriptor 0 is taken for an error
Accept ==
  /\ pc = "accept" /\ backlog # << >>
  /\ \E fd \in Fds :
       /\ Lowest(fd)
       /\ client_fd' = fd
       /\ table' = [table EXCEPT ![fd] = Head(backlog)]
       /\ \/ /\ fd > 0
             /\ m_fd' = [m_fd EXCEPT ![Head(backlog)] = fd]
             /\ pc' = "create"
          \/ /\ fd = 0
             /\ pc' = "return"
             /\ UNCHANGED m_fd
  /\ backlog' = Tail(backlog)
  /\ UNCHANGED <<walk, bound, m_ssock, refused, thread, clientVars>>

\* the process is over, with every thread and every descriptor
ProcessEnds ==
  /\ pc' = "over"
  /\ bound' = << >>
  /\ m_ssock' = -1
  /\ table' = [fd \in Fds |-> "free"]
  /\ m_fd' = [c \in Clients |-> -1]
  /\ thread' = [c \in Clients |-> IF thread[c] = "none" THEN "none" ELSE "over"]
  /\ backlog' = << >>
  /\ UNCHANGED <<walk, client_fd, refused, clientVars>>

\* Mutant: accept instead of Accept, so that the result -1 is seen.
AcceptFailsQuietly ==
  /\ pc = "accept" /\ (backlog # << >> \/ NoneFree)
  /\ pc' = "return"
  /\ UNCHANGED <<walk, bound, m_ssock, client_fd, refused, table, m_fd, thread, backlog, clientVars>>

\* any error of accept; with no descriptor to give, it does not even wait
AcceptFails ==
  /\ pc = "accept" /\ (backlog # << >> \/ NoneFree)
  /\ ProcessEnds

\* a signal that ends the server
Killed == pc # "over" /\ ProcessEnds

\* Mutant: the line that closes client_fd here is not a comment.
CreateThreadAndClose ==
  /\ pc = "create"
  /\ pc' = "accept"
  /\ thread' = [thread EXCEPT ![table[client_fd]] = "run"]
  /\ table' = [table EXCEPT ![client_fd] = "free"]
  /\ UNCHANGED <<walk, bound, m_ssock, client_fd, refused, m_fd, backlog, clientVars>>

CreateThread ==
  /\ pc = "create"
  /\ pc' = "accept"
  /\ thread' = [thread EXCEPT ![table[client_fd]] = "run"]
  /\ UNCHANGED <<walk, bound, m_ssock, client_fd, refused, table, m_fd, backlog, clientVars>>

\* the ConnInfo is deleted, and the loop left
CreateFails ==
  /\ pc = "create"
  /\ pc' = "return"
  /\ refused' = TRUE
  /\ m_fd' = [m_fd EXCEPT ![table[client_fd]] = -1]
  /\ table' = [table EXCEPT ![client_fd] = "free"]
  /\ UNCHANGED <<walk, bound, m_ssock, client_fd, thread, backlog, clientVars>>

\* ~Server, which destroys m_lock
DestroyServer ==
  /\ pc = "return"
  /\ pc' = "destroyed"
  /\ UNCHANGED <<walk, bound, m_ssock, client_fd, refused, table, m_fd, thread, backlog, clientVars>>

MainReturns == pc = "destroyed" /\ ProcessEnds

-------------------------------------------------------------------------------
(***************************************************************************)
(* The workers                                                             *)
(***************************************************************************)
\* Mutant: ~ConnInfo does not delete its connection.
WorkerReturnsOpen(c) ==
  /\ thread[c] = "run"
  /\ thread' = [thread EXCEPT ![c] = "over"]
  /\ UNCHANGED <<mainVars, table, m_fd, backlog, clientVars>>

\* ~ConnInfo, ~Connection: the descriptor is closed, and may be given away,
WorkerReturns(c) ==
  /\ thread[c] = "run"
  /\ table' = [table EXCEPT ![m_fd[c]] = "free"]
  /\ thread' = [thread EXCEPT ![c] = "closing"]
  /\ UNCHANGED <<mainVars, m_fd, backlog, clientVars>>

\* before m_fd forgets it
WorkerForgets(c) ==
  /\ thread[c] = "closing"
  /\ m_fd' = [m_fd EXCEPT ![c] = -1]
  /\ thread' = [thread EXCEPT ![c] = "over"]
  /\ UNCHANGED <<mainVars, table, backlog, clientVars>>

WorkerSeesEOF(c) == c \in Senders /\ client[c] = "gone" /\ WorkerReturns(c)

-------------------------------------------------------------------------------
(***************************************************************************)
(* The clients                                                             *)
(***************************************************************************)
Listening(a) == bound = <<a>>

Connects(c) ==
  /\ client[c] = "trying" /\ left[c] # << >>
  /\ Listening(Head(left[c])) /\ Len(backlog) < LISTENQ
  /\ client' = [client EXCEPT ![c] = "connected"]
  /\ backlog' = Append(backlog, c)
  /\ UNCHANGED <<mainVars, table, m_fd, thread, left>>

\* Mutant: the first address is the only one.
ConnectRefusedOnce(c) ==
  /\ client[c] = "trying" /\ left[c] # << >>
  /\ ~Listening(Head(left[c])) \/ Len(backlog) >= LISTENQ
  /\ client' = [client EXCEPT ![c] = "unconnected"]
  /\ UNCHANGED <<mainVars, table, m_fd, thread, backlog, left>>

\* nobody listens there, or nobody accepts in time: the next address
ConnectRefused(c) ==
  /\ client[c] = "trying" /\ left[c] # << >>
  /\ ~Listening(Head(left[c])) \/ Len(backlog) >= LISTENQ
  /\ left' = [left EXCEPT ![c] = Tail(@)]
  /\ UNCHANGED <<mainVars, table, m_fd, thread, backlog, client>>

\* the client has no socket for the address, or loses the connection
ConnectFails(c) ==
  /\ client[c] = "trying" /\ left[c] # << >>
  /\ left' = [left EXCEPT ![c] = Tail(@)]
  /\ UNCHANGED <<mainVars, table, m_fd, thread, backlog, client>>

\* "Couldn't connect to server"
GivesUp(c) ==
  /\ client[c] = "trying" /\ left[c] = << >>
  /\ client' = [client EXCEPT ![c] = "unconnected"]
  /\ UNCHANGED <<mainVars, table, m_fd, thread, backlog, left>>

\* the client has done, is killed, or cannot close a socket
Leaves(c) ==
  /\ client[c] \in {"trying", "connected"}
  /\ client' = [client EXCEPT ![c] = "gone"]
  /\ UNCHANGED <<mainVars, table, m_fd, thread, backlog, left>>

-------------------------------------------------------------------------------
Finished ==
  /\ pc \in {"accept", "over"} /\ backlog = << >>
  /\ \A c \in Clients : client[c] \notin {"trying", "connected"}
  /\ UNCHANGED vars

Main ==
  \/ AddressFails \/ Listens \/ NoAddress \/ Accept \/ AcceptFails
  \/ CreateThread \/ CreateFails \/ DestroyServer \/ MainReturns

Connect(c) == Connects(c) \/ ConnectRefused(c) \/ GivesUp(c)

Next ==
  \/ Main \/ Killed
  \/ \E c \in Clients :
       \/ WorkerReturns(c) \/ WorkerForgets(c)
       \/ Connect(c) \/ ConnectFails(c) \/ Leaves(c)
  \/ Finished

Spec == Init /\ [][Next]_vars

\* threads run and system calls return; a worker in receive notices the end of
\* its client, one that delivers need not
FairSpec ==
  /\ Spec
  /\ WF_vars(Main)
  /\ \A c \in Clients :
       /\ WF_vars(WorkerSeesEOF(c) \/ WorkerForgets(c))
       /\ WF_vars(Connect(c))

-------------------------------------------------------------------------------
Stages == {"listen", "accept", "create", "return", "destroyed", "over"}

TypeOK ==
  /\ pc \in Stages
  /\ walk \in Seq(Addrs)
  /\ bound \in {<< >>} \cup {<<a>> : a \in Addrs}
  /\ m_ssock \in Fds \cup {-1}
  /\ pc \in {"accept", "create"} => m_ssock \in Fds
  /\ client_fd \in Fds \cup {-1}
  /\ refused \in BOOLEAN
  /\ table \in [Fds -> Clients \cup {"free", "std", "listener"}]
  /\ m_fd \in [Clients -> Fds \cup {-1}]
  /\ thread \in [Clients -> {"none", "run", "closing", "over"}]
  /\ backlog \in Seq(Clients)
  /\ client \in [Clients -> {"trying", "connected", "unconnected", "gone"}]
  /\ left \in [Clients -> Seq(Addrs)]

\* c's Connection is open: a worker has it, or the main thread is about to
\* make one
Holds(c, fd) ==
  /\ m_fd[c] = fd
  /\ thread[c] = "run" \/ (thread[c] = "none" /\ pc = "create" /\ client_fd = fd)

(***************************************************************************)
(* Each descriptor has one owner: the listening socket is m_ssock's, and a *)
(* connection is open exactly while one Connection that will close it      *)
(* holds it.  So no worker reads, writes or closes a descriptor that was   *)
(* given to another client, though m_fd is out of date between ::close and *)
(* the assignment of -1, and none is lost to the table.                    *)
(***************************************************************************)
OneOwner ==
  /\ \A fd \in Fds : table[fd] = "listener" <=> fd = m_ssock
  /\ \A c \in Clients, fd \in Fds : table[fd] = c <=> Holds(c, fd)

(***************************************************************************)
(* Workers use m_lock and m_rooms of the Server on main's stack.  ~Server  *)
(* runs under them only after pthread_create has failed: a failed Accept   *)
(* ends the process without it, and no descriptor of a client is 0, which  *)
(* handle_client_requests would take for an error and return.              *)
(***************************************************************************)
ServerOutlivesThreads ==
  pc = "destroyed" /\ ~refused =>
    \A c \in Clients : thread[c] \notin {"run", "closing"}

\* the server listens at an address the client has still to try
Reachable(c) ==
  /\ Len(backlog) < LISTENQ
  /\ \E i \in 1..Len(left[c]) : Listening(left[c][i])

(***************************************************************************)
(* A client whose host name has an address where the server listens gets   *)
(* its connection, whatever addresses come before it in the list, unless   *)
(* it leaves, fails at that address itself, or the server ends or is full. *)
(***************************************************************************)
FindsServer == \A c \in Clients :
  client[c] = "trying" /\ Reachable(c)
    ~> client[c] \in {"connected", "gone"} \/ ~Reachable(c)

(***************************************************************************)
(* When a sender has gone, even while it waits to be accepted, the server  *)
(* gets its descriptor back in the end, unless the process ends.           *)
(***************************************************************************)
DepartedFreesDescriptor == \A c \in Senders :
  client[c] = "gone" ~>
    \/ pc = "over"
    \/ /\ \A fd \in Fds : table[fd] # c
       /\ \A i \in 1..Len(backlog) : backlog[i] # c
===============================================================================
