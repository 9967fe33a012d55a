# A verified model of the chat server and its clients

The repository is a small chat system in C and C++: a multithreaded server
(`server_main`), a client that sends (`sender`) and a client that listens
(`receiver`), which exchange lines of text over TCP. This directory holds TLA+
modules of it, TLC configurations that check them on small instances, and
proofs, checked by TLAPS, that hold for instances of every size.

## 1. The system

| component | state | operations | talks to |
|---|---|---|---|
| message queue (`message_queue.*`) | a deque of `Message*`, a mutex `m_lock`, a semaphore `m_avail` | `enqueue`, `dequeue` (waits at most a second) | every thread that broadcasts enqueues, the receiver's own thread dequeues |
| rooms (`room.*`, `guard.h`, `user.h`) | per room a set of `User*` and a mutex | `add_member`, `remove_member`, `broadcast_message` | called by all server threads; a broadcast enqueues into each member's queue while it holds the room's mutex |
| server threads (`server.*`) | the map of rooms and its mutex; the locals of each thread | `worker`, `chat_with_sender`, `chat_with_receiver`, `find_or_create_room` | one thread per connection |
| acceptor (`server_main.cpp`, `server.*`) | the listening descriptor, the process's descriptor table | `listen`, `handle_client_requests` | starts one thread per connection, which closes it |
| connection (`connection.*`) | descriptor, read buffer, `m_last_result` | `send`, `receive`, `connect`, `close` | the socket, through `rio_*` |
| buffered I/O (`csapp.*`) | `rio_buf`, `rio_cnt`, `rio_bufptr` | `rio_writen`, `rio_read`, `rio_readlineb`; `open_listenfd`, `open_clientfd`, `Accept` | the system calls |
| sender client (`sender.cpp`) | where it is in its loop | login, `/join`, `/leave`, `/quit`, text | one request, one reply |
| receiver client (`receiver.cpp`) | the last message | login, join, a loop of `receive` | prints deliveries |
| messages, text utilities (`message.*`, `client_util.*`) | none | `split_payload`, `trim`, `isLowerCased` | pure functions |

What is hard here, and what makes each part correct:

* **Queue.** The deque is filled under the mutex and announced by the semaphore
  afterwards; a consumer passes the semaphore first and takes the mutex later.
  In between, another consumer may pop another message, and a deadline may pass
  while a producer posts. Correct means: never `front()` on an empty deque,
  first in first out, nothing lost, every call returns.
* **Rooms and threads.** A join while in another room is three critical
  sections (leave, look up or create, enter); sessions broadcast, join, leave
  and die at the same time. Correct means: one `Room` per name, the member set
  is exactly the sessions inside, all receivers of a room hear the same
  messages in the same order with none lost, no thread touches a queue whose
  session is over, a slow receiver blocks nobody.
* **Failure.** A peer may go at any time. The first write after it closed
  still succeeds; a later one fails. Threads must end and leave their rooms.
* **Connection.** `read` and `write` cut the stream anywhere, lines may be
  longer than the buffer, the stream may end or break in the middle of a line.
* **Sender session.** Requests and replies are paired only by their order.
* **Receiver session.** The client takes no notice of a failed `receive`, and
  trusts that every line is what the server meant it to be. Correct means: it
  prints what was said, in order, and nothing twice while the server serves it;
  it prints it under the name of who said it, where colons leave a choice.
* **Descriptors.** The acceptor hands a descriptor to a thread, which closes it;
  the kernel gives its number to the next client at once. Correct means: no
  thread touches another's descriptor, none leaks, and the `Server` that the
  threads use is not destroyed under them.

`PROJECT.json` lists each hazard with its line and the properties that watch it.

## 2. The modules

| module | models | checked by | proofs |
|---|---|---|---|
| `AtomicQueue` | what a `MessageQueue` promises: put, take, give up, one step each | abstract specification of `MessageQueue` | |
| `MessageQueue` | `message_queue.cpp`, one action per lock, semaphore and deque operation | `MCMessageQueue` | `MessageQueueProofs` |
| `GroupChat` | what the server promises: enter, exit, post, read | abstract specification of `ChatServer` | |
| `ChatServer` | `server.cpp`, `room.cpp`, `guard.h`, `user.h` | `MCChatServer` | `ChatServerProofs`, `ChatServerDelivery` |
| `Connection` | `connection.cpp`, `rio_writen`, `rio_readlineb`, `rio_read`, `trim`, `isLowerCased` | `MCConnection` | `ConnectionProofs` |
| `Text` | `trim`, `isLowerCased`, `isValidRoomName`, `split_payload`, what `send` and `receive` do to a message | through the modules that use it | lemmas in `SequenceFacts` |
| `Listing` | nothing: how properties say that one sequence holds elements of another, in order, without a gap | through the modules that use it | lemmas in `SequenceFacts` |
| `SenderSession` | `sender.cpp` and the replies of `worker` and `chat_with_sender` | `MCSenderSession` | `SenderSessionProofs` |
| `ReceiverSession` | `receiver.cpp`, `worker` and `chat_with_receiver` | `MCReceiverSession` | `ReceiverSessionProofs` |
| `Sockets` | `server_main.cpp`, `Server::listen`, `handle_client_requests`, `ConnInfo`, `Connection::connect` and `close`, `open_listenfd`, `open_clientfd`, `Accept` | `MCSockets` | `SocketsProofs` |

They are layered the way the program is. `MessageQueue` implements
`AtomicQueue`, so `ChatServer` uses a queue whose calls are single steps;
`Connection` shows that messages cross as whole lines in order, a piece of one
only at the end of the stream, so the sessions pass lines and `ChatServer`
requests. `ChatServer` shows that a
member's queue holds the broadcasts of its room in order, which is where
`ReceiverSession` takes over (`Post`). `Sockets` says nothing of what is talked
about on a connection, only who holds it.

**MessageQueue.** `m_lock`, `m_avail` and `m_messages` are the fields; `pc` says
where each thread is inside `enqueue` or `dequeue`. Thread sets are arbitrary:
in the server one thread consumes a queue, but the class does not ask for it.
`SemTimeout` may happen whenever a consumer is blocked: the deadline has no
relation to other steps. `dequeue` is called, reads the clock, and only then
comes to the semaphore: when `clock_gettime` fails it returns `nullptr` without
a look at the queue (`DequeueClockError`), which `AtomicQueue` has as `Fail`.
`pushed` and `popped` are histories.

**ChatServer.** One connection is one client: `Senders` log in with `slogin`,
`Receivers` with `rlogin`. `pc` is where its thread is. A thread can be
preempted before it takes a mutex and between two accesses to shared state, and
those are the steps; what it does with its locals alone is merged into the next
one. `Room` objects are told apart by the session that made them, so two rooms
of one name could be seen if lookups raced. `after` is the return address of
`remove_member`, which is called from join, leave, the end of
`chat_with_sender` and the end of `chat_with_receiver`. Broadcasts visit the
members one at a time, in any order (the set is ordered by address).
Replies to a sender change nothing the threads share, so a refused request only
consumes a request; `SenderSession` models the replies. `conn` is the peer's
end: `closed` means that it closed and writes still succeed, `reset` that writes
fail. `log`, `written` and `joinedAt` are histories.

**Connection.** One direction of one connection. A byte is one of five kinds
(lower case letter, other printable, colon, blank, newline), which is all that
`trim`, `find(':')` and `isLowerCased` tell apart. `Write` and `Refill` take
any number of bytes that fits. `received` is all that `receive` returned, a
line cut by the end of the stream included: `rio_readlineb` returns what it has
when `read` returns 0, and -1 when `read` fails. NUL bytes, at which `strlen` would stop, are not
modelled, and neither is EINTR, which only repeats a step.

**SenderSession.** `up` and `down` are the two directions of the connection,
line by line. What a typed line becomes on the wire is a sequence of requests:
one if it fits `MAX_LEN`, otherwise the first piece and whatever the rest of the
text looks like to the server. A user name is an argument of the program and may
be long or hold a newline, so what follows the first line of a login is any
sequence of requests (`Logins`). Names are abstracted otherwise: a reply that
quotes one may or may not fit in a line. The rest of a welcome is the end of a
name and may itself read as a reply (`okrest`); the rests of the other replies
have no colon. Blank lines, unknown commands and the end of the
input change nothing and are stutters; a thread blocked in writing replies is
left out, since the client reads while it waits.

**ReceiverSession.** Lines are sequences of symbols here, since what the client
prints depends on colons and lengths. The two directions, `up` and `down`, carry
the pieces in which `receive` sees them: a login, a welcome or a delivery longer
than `MAX_LEN` reaches its reader in `Pieces`, each parsed as a message. So the
rest of a long login may be taken for the join (`Request`), and the rest of a
long welcome for the reply to it. User and room name are the arguments of the
program (`argv`); `room` is the name that `receive` has trimmed. `msg` outlives a
failed `receive`, which changes its tag only, so after the end of the connection
`split_payload` takes the old data apart again (`NextLineLost`), for ever in the
program and `MaxShown` times here. The server may end while it writes any line
(`Writing`: welcome, confirmation, refusal, delivery, "Empty error"), and the
client is then left with the beginning of it. `overlong`, `posted` and `shown`
are histories. `Text` has the whole table of tags, since a later piece of a
delivery may begin with any of them.

**Sockets.** `pc` is the main thread of the server, from `open_listenfd` over the
accept loop to the destructor of `Server` and the end of the process; `thread`
says where each worker is. A descriptor is the lowest that is free (`Lowest`).
`WorkerReturns` is `::close`, `WorkerForgets` the assignment of -1 after it, and
other threads run in between. An error of `accept` ends the process
(`ProcessEnds`) with `exit(0)`, which does not run `~Server`; a failed
`pthread_create` returns from `main`, which does. The failures of one address in
`open_listenfd` are one action, since nobody else sees the difference. An error
of `accept` is modelled where there is a connection to accept or no descriptor to
give it; one that comes of nothing, such as `EINTR`, ends the process like
`Killed`, which may happen at any time. The start of a worker and main's return
to `accept` are one step (`CreateThread`): all that main does in between, at
`server.cpp:108-114`, is to go round its loop, so nothing it could do late
there touches what a worker has. The mutant of `OneOwner` puts the `close` of
`server.cpp:109` back, which is a comment in the code. An
address is reached only where the server is bound to it; a host that accepts
IPv4 on an IPv6 socket is one with fewer addresses.

**Stated so that it can be proved.** What a property says of a whole history it
says by places: `Lists(q, l, D)` counts, where a recursive filter would have to
be unfolded, and the runs of `receiver_session` and `connection` look for the
places (`\E n`, `\E k`, `\E source`). Likewise `Fields` says where the loop of
`split_payload` cuts, and not how the loop goes on with the rest.

Definitions introduced by a comment that begins with `Mutant:` are variants of
the definition that follows them, with a mistake one could plausibly make in
that place of the code. No specification uses them: each is put in the place of
the original to see that a property notices.

## 3. What is checked

| run | instance | shows |
|---|---|---|
| `queue` | 2 producers, 2 consumers, 3 messages | types, mutual exclusion, the count of the semaphore, no empty pop, FIFO; implements `AtomicQueue`; calls return; pushed messages are popped |
| `broadcasts` | 2 senders, 1 receiver, 1 room, 2 requests each | types and set locals, `LockInv`, `DeliveryStream`, `NoEnqueueAfterExit` |
| `refines` | 1 sender, 2 receivers, 2 rooms, 2 requests | implements `GroupChat`; one `Room` per name; members are the sessions inside |
| `serves` | 1 sender, 1 receiver, 1 room, 3 requests | broadcasts complete, a departed receiver with messages is removed, a present one gets all; a departed sender's thread ends |
| `connection` | `MAX_LEN` 5, rio buffer 3, socket 4, 7 messages, 2 sends | types and buffer bounds, the stream is preserved, messages come back, progress |
| `sender_session` | 10 kinds of line, 3 sends after login | replies pair with requests, the client's idea of the room is right, no wait is endless, sessions end |
| `receiver_session` | `MAX_LEN` 9, 4 pairs of user and room names, 3 texts said 3 times, 3 lines printed | what is printed was said, in order, once, and by whom; no wait for a reply is endless; what is queued is printed |
| `sockets` | 3 clients, 2 address families, 6 descriptors, any of 0 to 2 open at the start | one owner per descriptor; the `Server` outlives its threads; clients find it; departed senders' descriptors come back |
| `ghost` | 1 sender, 1 receiver | **violated**: a departed receiver's thread ends |
| `sender_queue` | 2 senders | **violated**: only receivers' queues fill |
| `last_result` | as `connection` | **violated**: `m_last_result` tells of the last call |
| `invalid_request` | as `sender_session` | **violated**: one reply per request |

**Bounds.** `MaxRequests` and `MaxSends` bound how many requests, lines or
messages a client produces; the buffer sizes of `Connection` are parameters.
Two producers and two consumers suffice for every kind of overlap of the queue:
a second consumer overtaking one between semaphore and mutex, a timeout racing a
post. Two senders in a room overlap two broadcasts; with two requests each
joins and then speaks, leaves, or joins again. In `refines` a sender enters one
room and changes to the other while two receivers, one of the sender's name,
enter. `MAX_LEN`, the rio buffer and the socket are chosen so that lines are
shorter and longer than each, end exactly at the limit, and are cut in two.
In `receiver_session` one delivery fits, one has a colon too many, and one is cut
so that its second piece reads like a message of somebody else; one user's login
and welcome are two lines each, the first with a rest that joins a room, the
second with a rest that says ok; another's welcome is cut before its newline; a
room name has a blank that is trimmed, one is refused; two lines fill the
socket. In `sender_session` the rest of a user name reads as each kind of
request, and the rests of typed lines as one that is invalid, that asks for
something else, or that ends the session.
In `sockets` six descriptors are too few for the listening socket and
three clients beside the standard ones, and enough when one of those is closed;
three clients overfill the backlog of two.
What these bounds cannot exclude, the theorems of section 4 do for the
properties listed there. User names are given by the operator `Name` of
`MCChatServer`: `s1` and `r2` share one, the others have their own. Only
`refines` reduces by symmetry, of the room names: they are interchangeable model
values, neither specification chooses among them, and the refinement is a safety
property (`GSpec` has no fairness). The clients are told apart by their names and
roles, and most other runs check liveness, so no other symmetry is used.

**Fairness.** The specifications assume weak fairness only, of what the scheduler
owes a runnable thread.
*Queue:* a thread inside a call runs, and `sem_timedwait` returns by its
deadline. That consumers call `dequeue` again and again (`server.cpp:219-221`), and
that the clock can be read infinitely often (strong fairness of `DequeueClock`,
since each call may also fail there), is the premise of `EveryMessagePopped`
alone (`ConsumersKeepCalling`). *Server:* `ThreadFairness` says
that a thread that waits for nothing runs and that a write to a reset
connection returns. Mutexes are not assumed fair: a thread may miss one that is
free again and again, but requests are bounded, so contention dies out. A write
to a receiver that is there is not fair, since it may have stopped reading;
that receivers read is the premise of `QueuedIsWritten` (and of
`DepartedReceiverEnds`, so that its violation is not a reader's fault).
*Connection:* a thread inside `send` or `receive` runs whenever the socket lets
it, and the reader calls `receive` in a loop, as both chat functions do.
*SenderSession:* the server's thread runs, and the client reads while it waits.
*ReceiverSession:* the same; the client reads in its loop, and the timeout of
`dequeue` need not come. *Sockets:* system calls return, a thread that waits in
`receive` sees the end of its client, and one that is closing goes on. A
receiver's thread is given no fairness, which would hide finding 1.

**Refinements.** `AtomicQueue`'s queue is the part of the deque that the
semaphore announces and no consumer has been promised yet (`Available`), so a
put takes effect at `sem_post` and a take when the consumer passes the
semaphore. Which message a consumer gets is not part of the mapping: two that
have passed the semaphore may pop in the other order, so this is known only at
the pop, and `Fifo` says that the pops take the messages in their order. In `GroupChat` a broadcast takes effect at once for all members:
the mapping counts what a running broadcast still owes a member (`Pending`) as
delivered from the moment it took the room's lock.

## 4. What is proved

Every invariant that a passing run checks, both refinements, and the action property
are theorems: for every finite set of clients, and any set of threads, rooms,
names, messages and sizes, from the named assumptions of the modules. Constants
that stand for "nobody" or "nothing" are not members of the sets, and sizes are
positive. Three assumptions say more, all of `ReceiverSession`: what others say
in a room has been trimmed and has no newline (`PostsAssumption`: it has come
through `receive`), the arguments of the client have no newline
(`ArgumentsAssumption`; section 6), and `MAX_LEN` is at least 5
(`SizesAssumption`: a short reply is one line then, and a welcome two at most;
the code has 255).

**Queue** (`MessageQueueProofs`).

* `TypeOK`, `LockInv`, `SemaphoreCount`, `PopFindsMessage`, `Fifo`. `Fifo` is
  inductive with the types; `SemaphoreCount` needs `LockInv`, because the producer
  that has pushed and not posted is counted, and two of them in the critical
  section could lose an update; `PopFindsMessage` follows from the count, since a
  consumer at `pop` is one of the reserved. The types need the count as well:
  `Head` of an empty deque would not be a message.
* `QueueIsAtomic`: `Spec` implements `AtomicQueue`. The announced messages are a
  window of the deque, from behind those that consumers were promised to as many
  as the semaphore counts (`AvailableIsWindow`). `sem_post` lets the window grow
  at its end, passing the semaphore shrinks it at its front; a pop moves the
  deque and the window together, and a push happens behind it. One lemma per
  action says which abstract step it is, or that it is none.

**Rooms and threads** (`ChatServerProofs`, `ChatServerDelivery`).

* `TypeOK`, `LockInv`, `OneRoomPerName`, `MembershipMatchesSession`,
  `NoEnqueueAfterExit`. The inductive invariant conjoins them with `LookupInv`:
  between the lookup that found nothing and the creation, the name is still free,
  which holds because `m_lock` is kept. `LocalsSet` is what makes the types
  inductive: a thread inside a critical section has its room set, one about to
  look up has a target, and `after` has its default except while `remove_member`
  runs. `NoEnqueueAfterExit` is an action property: a broadcast enqueues for
  members, and members are inside.
* `StreamsFollowTheLog`: `DeliveryStream`. It needs `MutualExclusion` (only the
  holder of a room's lock broadcasts there, so a user is owed at most one message,
  `Awaited`), `MembershipMatchesSession` (a receiver that is served is a member),
  and two facts of the threads: nobody has visited members before its broadcast
  (`BroadcastInv`), and a receiver starts with nothing written or queued and with
  a place in the log that exists (`ReceiverInv`). The log and what is owed grow in
  the same step, when the broadcast takes the lock; every later step moves the
  message from `Pending` to the queue, to the thread, to what was written, which
  leaves the `Stream` as it is.
* `ServerIsGroupChat`: `Spec` implements `GroupChat`. `Mail` (queue and `Pending`)
  grows for all members at once when a broadcast takes the lock (`post`), keeps
  its value while the broadcast visits them, and shrinks when a thread dequeues
  (`read`); `Where` changes only with the member set.

**Connection** (`ConnectionProofs`).

* `TypeOK`, which bounds the line buffer, the rio buffer and the socket, and
  `StreamPreserved`. The invariant adds that a line that was handed over is not
  kept (`NoLeftover`): otherwise the next call would clear bytes that are still
  counted. Each step moves bytes across one boundary of the stream, which is
  associativity of concatenation.
* `MessagesSurvive`: `RoundTrip`: what `receive` returns, with at most one piece
  of the next message behind it, and that only when the writer closed in the
  middle of its line. `LineInv` says where, in the bytes that are still
  to be parsed, the lines of the messages begin (`cut`), and that the first `k`
  were dealt with. It needs the types, that the line being read has no newline
  but at its end (`OneLine`), and that nothing is unwritten when no `send` runs
  (`WriterIdle`). When the writer's end goes, the bytes become a beginning of what
  they were, so what the reader has of a line when the stream ends is a beginning
  of the line of the next message (`FirstPiece`). From there on the invariant is
  `Ended`: nothing is under way and nothing follows (`EndedStays`). The proof found the property false as first stated: a tag with a
  colon or a newline reads back as another message, although its line is short
  enough. No instance had such a tag. `Fits` now excludes it; the program sends
  none, since all its tags are constants.

**Sender session** (`SenderSessionProofs`). `TypeOK`, `ReplyAnswersRequest`,
`RoomAsBelieved`, for any user names and any lines users type. `NoneMissing`, the
part of `ReplyAnswersRequest` that holds whatever is cut, is inductive by itself:
no branch of the server's loop consumes a request without a reply. For the rest
the invariant (`Exchange`) says what a
conversation within `MAX_LEN` looks like: nothing under way, or one request that
is the last one asked, or the one reply to it, whose tag tells the room the
session is in. Neither property is inductive without the other: the reply is
believed, so it must be known which request it answers.

**Receiver session** (`ReceiverSessionProofs`). Three theorems, and under them
what the client makes of a line: `Received` and `Fields` of an encoded reply,
of an encoded delivery (`DeliveryShown`), of any piece of one.

* `TypeOK`: what arrives at either end is never empty and never longer than
  `MAX_LEN`, whatever is said and wherever a line is cut.
* `PostsAreShownInOrder`: `ShownInOrder`. It is inductive together with
  `Handshake`: how the session begins. Nothing is posted before the user is a
  member, nothing printed before the client knows, and while the server waits for
  the join, no more lines are under way than the client takes for replies
  (`Skip`), so that none of a long welcome reaches the loop. `n` numbers the lines under
  way by the messages they bring; reading a line shifts it, a delivery extends
  it, and a post extends only the queue.
* `PrintingKeepsOrder`: `ShownKeepsOrder`, for any posts, however long and with
  any colons. The invariant (`InPlace`) gives a place in the room's history to each
  line under way and to the payload the client still holds in `msg`, which it may
  print again: the places never decrease, and each says nothing but its message.
  A line is a run of consecutive bytes of the delivery it is cut from, and so are
  the fields that `split_payload` finds in it (the lemmas on runs of
  `SequenceFacts`), so what is printed is always part of what was said. If the
  message is not `Garbled`, it also stands under its sender's name: a delivery of
  one line has its structure at its first two colons, and a later piece of a
  message without colons in its text has too few of them. With `QueueIsRest`, the
  line that is being written when the server ends belongs to the first message in
  the queue.

**Descriptors** (`SocketsProofs`). `TypeOK`, `OneOwner`, `ServerOutlivesThreads`, for
any number of clients, addresses and descriptors. `OneOwner` needs that a client
comes through the backlog once and has had no `Connection` before (`Newcomers`),
and that the only connection without a thread is the one just accepted
(`InHand`). `ServerOutlivesThreads` needs that descriptor 0 is taken before the
first `accept` (`ZeroTaken`): if the process starts without it, the listening
socket gets it.

`SequenceFacts` holds the lemmas that several of these use: cutting and joining
sequences, `Lists` under appending and under more messages, what `Trim`,
`Pieces`, the first colon and `Fields` return.

Only model-checked are the liveness properties (of every run; liveness under
fairness is out of this prover's reach): `EnqueueReturns`, `DequeueReturns`,
`EveryMessagePopped`, `BroadcastCompletes`, `DepartedSenderEnds`,
`BackloggedReceiverEnds`, `QueuedIsWritten`, `SendReturns`, `EverythingParsed`,
`WaitEnds`, `SessionEnds`, `LoginEnds`, `EveryPostShown`, `FindsServer`,
`DepartedFreesDescriptor`. The violations of section 5 are counterexamples, found
by TLC.

## 5. Findings

1. `ghost`. `chat_with_receiver` looks at the result of sending a delivery, not
   at that of the message it sends for an empty queue (`server.cpp:237`). A
   receiver that exits while nobody speaks keeps its thread, its descriptor and
   its place in the room until the next message; forever if there is none.
2. `sender_queue`. Senders are members of the room (`server.cpp:155`), so other
   senders' messages are enqueued for them, and nobody dequeues.
3. `last_result`. `send` and `receive` set `m_last_result` only when they fail;
   `connection.h:38-41` says it tells of the most recent call. All callers look
   at it after a failure only, so the server is not misled.
4. `invalid_request`. An invalid message is answered at `server.cpp:137` and
   again at line 182. The sender client reads one reply per request, so from then
   on every reply it reads is that of an earlier request. The sender makes
   such messages itself from lines longer than `MAX_LEN`.

What the models show beside these, and no document of the repository denies:

* After the connection is lost the receiver prints its last message again and
  again (`receiver.cpp:66`).
* The receiver can print what nobody said in that form. A delivery longer than
  `MAX_LEN` is taken for several messages, and a piece of a text with colons, such
  as `ok:r:al:hi`, is printed as if `al` had said `hi` (`receiver.cpp:69-77`,
  `message.cpp:39-44`); a user name with a colon has the same effect when the line
  is cut. `ShownKeepsOrder` says how far this goes: what is printed is a part of
  what was said, in its place, and a message without such colons is printed under
  its sender's name.
* A text or a user name with a colon in a delivery of one line is never printed:
  `split_payload` counts the colons of a delivery (`message.cpp:40`). The sender is
  told that the message "was sent to all users" all the same.
* A delivery longer than `MAX_LEN` is printed as far as its first piece goes;
  the rest is an invalid message, or a message of its own.
* A user name too long for a line makes requests of its own: the rest of a login
  is read as the next message, be it a join.
* `isValidRoomName` accepts the empty name, since `size() < 0` is never true.
* When `pthread_create` fails, `~Server` destroys `m_lock` and `m_rooms` under
  the threads that use them, for as long as `main` takes to end the process.
* When no descriptor is left, the whole server exits, with status 0, and receivers
  that have gone silently (finding 1) keep theirs.

What was expected to fail and does not: no interleaving of joins, leaves and
broadcasts loses or reorders a message, no departure leaves a member behind
once its thread has ended, and no descriptor is lost or closed twice.

## 6. What is not modelled

* The parts of `csapp.c` that the program never calls: `rio_readn`, `rio_readnb`,
  the signal, process and memory helpers and the other upper case wrappers. That
  is most of the file.
* What is written to the error stream, and argument parsing (`std::stoi` throws
  on a port that is no number, before anything is opened).
* Destructors of `MessageQueue`, `Room` and `User`: nothing destroys a room or a
  user.
* What a worker does in the moment between `~Server` and the end of the process:
  the behaviour is undefined. `Sockets` says when it may happen.
* A newline in the user or room name of a receiver's command line, which would
  make several requests of one (`ArgumentsAssumption`); for the sender's user name
  it is modelled (`Logins`).
* `hasColon` and `invalidSendOrreceive`, which nobody calls.
* `Makefile`, `README.txt` and the binaries in `reference/`.

## 7. Plan

Modules, in the order of importance:

1. `MessageQueue`, `AtomicQueue` with their proofs: done.
2. `ChatServer`, `GroupChat` with their proofs: done.
3. `Connection` with its proofs: done.
4. `SenderSession` with its proofs: done.
5. `ReceiverSession`, `Text` with their proofs: done.
6. `Sockets` with its proofs: done.

All safety properties of the passing runs are proved. What is left is the step from one
layer to the next: that the actions by which `ChatServer` uses its queues are
those of `AtomicQueue`, and that the lines of the sessions are those of
`Connection`; today this is said in section 2. Then safety facts behind
the liveness properties, which can be proved although those cannot: that no two
threads wait for each other's mutexes, and that a thread which is blocked is
blocked by a peer or by a thread that is not.
