----------------------------- MODULE MessageQueue -----------------------------
(***************************************************************************)
(* The MessageQueue class (message_queue.h, message_queue.cpp): a deque    *)
(* guarded by a mutex, with a semaphore that is posted after the mutex is  *)
(* released.  Every call that can be preempted is split at the points      *)
(* where another thread can run: mutex acquisition, the access to the      *)
(* deque, mutex release, sem_post, and the two ways sem_timedwait can      *)
(* proceed.  Any number of threads may call either operation.              *)
(***************************************************************************)
EXTENDS Integers, Sequences, FiniteSets

CONSTANTS
  Producers,  \* threads that call enqueue
  Consumers,  \* threads that call dequeue
  Messages,   \* Message objects; each is allocated once and enqueued once
  NoThread,   \* the mutex is free
  NullMsg     \* nullptr

Threads == Producers \cup Consumers

ASSUME ThreadsAssumption ==
  /\ IsFiniteSet(Producers)
  /\ IsFiniteSet(Consumers)
  /\ Producers \cap Consumers = {}
  /\ NoThread \notin Threads

ASSUME MessagesAssumption == NullMsg \notin Messages

VARIABLES
  m_lock,      \* the thread that holds the mutex, or NoThread
  m_avail,     \* the value of the semaphore
  m_messages,  \* the deque, front first
  pc,          \* where each thread is
  arg,         \* the message a producer was asked to enqueue
  ret,         \* what a consumer's last dequeue returned, or will return
  fresh,       \* messages not allocated yet: bounds the number of enqueues
  pushed,      \* history: the messages in the order they were pushed
  popped       \* history: the messages in the order they were popped

vars == <<m_lock, m_avail, m_messages, pc, arg, ret, fresh, pushed, popped>>

ProducerPC == {"idle", "lock", "push", "unlock", "post"}
ConsumerPC == {"idle", "clock", "enter", "blocked", "lock", "pop", "unlock"}

Init ==
  /\ m_lock = NoThread
  /\ m_avail = 0
  /\ m_messages = << >>
  /\ pc = [t \in Threads |-> "idle"]
  /\ arg = [p \in Producers |-> NullMsg]
  /\ ret = [c \in Consumers |-> NullMsg]
  /\ fresh = Messages
  /\ pushed = << >>
  /\ popped = << >>

Goto(t, from, to) ==
  /\ pc[t] = from
  /\ pc' = [pc EXCEPT ![t] = to]

(***************************************************************************)
(* pthread_mutex_lock and pthread_mutex_unlock on m_lock.                  *)
(***************************************************************************)
\* Mutant: the mutex is not waited for.
AcquireLockUnguarded(t) == m_lock' = t

AcquireLock(t) ==
  /\ m_lock = NoThread
  /\ m_lock' = t

ReleaseLock == m_lock' = NoThread

-------------------------------------------------------------------------------
(***************************************************************************)
(* enqueue                                                                 *)
(***************************************************************************)
EnqueueCall(p) ==
  /\ Goto(p, "idle", "lock")
  /\ \E m \in fresh :
       /\ arg' = [arg EXCEPT ![p] = m]
       /\ fresh' = fresh \ {m}
  /\ UNCHANGED <<m_lock, m_avail, m_messages, ret, pushed, popped>>

EnqueueLock(p) ==
  /\ Goto(p, "lock", "push")
  /\ AcquireLock(p)
  /\ UNCHANGED <<m_avail, m_messages, arg, ret, fresh, pushed, popped>>

\* Mutant: push_front.
PushFront(p) ==
  /\ Goto(p, "push", "unlock")
  /\ m_messages' = <<arg[p]>> \o m_messages
  /\ pushed' = Append(pushed, arg[p])
  /\ UNCHANGED <<m_lock, m_avail, arg, ret, fresh, popped>>

Push(p) ==
  /\ Goto(p, "push", "unlock")
  /\ m_messages' = Append(m_messages, arg[p])
  /\ pushed' = Append(pushed, arg[p])
  /\ UNCHANGED <<m_lock, m_avail, arg, ret, fresh, popped>>

EnqueueUnlock(p) ==
  /\ Goto(p, "unlock", "post")
  /\ ReleaseLock
  /\ UNCHANGED <<m_avail, m_messages, arg, ret, fresh, pushed, popped>>

\* Mutant: sem_post is forgotten.
PostForgotten(p) ==
  /\ Goto(p, "post", "idle")
  /\ UNCHANGED <<m_lock, m_avail, m_messages, arg, ret, fresh, pushed, popped>>

Post(p) ==
  /\ Goto(p, "post", "idle")
  /\ m_avail' = m_avail + 1
  /\ UNCHANGED <<m_lock, m_messages, arg, ret, fresh, pushed, popped>>

-------------------------------------------------------------------------------
(***************************************************************************)
(* dequeue.  sem_timedwait takes the semaphore at once when it can, so the *)
(* deadline counts only for a thread that found it at 0 and blocked; such  *)
(* a thread may then time out even when a post has just arrived.           *)
(***************************************************************************)
DequeueCall(c) ==
  /\ Goto(c, "idle", "clock")
  /\ UNCHANGED <<m_lock, m_avail, m_messages, arg, ret, fresh, pushed, popped>>

\* clock_gettime
DequeueClock(c) ==
  /\ Goto(c, "clock", "enter")
  /\ UNCHANGED <<m_lock, m_avail, m_messages, arg, ret, fresh, pushed, popped>>

\* clock_gettime failed: nullptr without looking at the semaphore
DequeueClockError(c) ==
  /\ Goto(c, "clock", "idle")
  /\ ret' = [ret EXCEPT ![c] = NullMsg]
  /\ UNCHANGED <<m_lock, m_avail, m_messages, arg, fresh, pushed, popped>>

\* Mutant: the semaphore is decremented without waiting.
SemWaitUnguarded(c) ==
  /\ \E from \in {"enter", "blocked"} : Goto(c, from, "lock")
  /\ m_avail' = m_avail - 1
  /\ UNCHANGED <<m_lock, m_messages, arg, ret, fresh, pushed, popped>>

SemWait(c) ==
  /\ \E from \in {"enter", "blocked"} : Goto(c, from, "lock")
  /\ m_avail > 0
  /\ m_avail' = m_avail - 1
  /\ UNCHANGED <<m_lock, m_messages, arg, ret, fresh, pushed, popped>>

SemBlock(c) ==
  /\ Goto(c, "enter", "blocked")
  /\ m_avail = 0
  /\ UNCHANGED <<m_lock, m_avail, m_messages, arg, ret, fresh, pushed, popped>>

\* Mutant: the result of sem_timedwait is ignored.
SemTimeoutIgnored(c) ==
  /\ Goto(c, "blocked", "lock")
  /\ UNCHANGED <<m_lock, m_avail, m_messages, arg, ret, fresh, pushed, popped>>

\* Mutant: sem_wait, which has no deadline.
SemTimeoutNever(c) ==
  /\ FALSE
  /\ UNCHANGED vars

\* Mutant: a deadline that may pass before the semaphore is looked at.
SemTimeoutEarly(c) ==
  /\ \E from \in {"enter", "blocked"} : Goto(c, from, "idle")
  /\ ret' = [ret EXCEPT ![c] = NullMsg]
  /\ UNCHANGED <<m_lock, m_avail, m_messages, arg, fresh, pushed, popped>>

SemTimeout(c) ==
  /\ Goto(c, "blocked", "idle")
  /\ ret' = [ret EXCEPT ![c] = NullMsg]
  /\ UNCHANGED <<m_lock, m_avail, m_messages, arg, fresh, pushed, popped>>

DequeueLock(c) ==
  /\ Goto(c, "lock", "pop")
  /\ AcquireLock(c)
  /\ UNCHANGED <<m_avail, m_messages, arg, ret, fresh, pushed, popped>>

\* front() and pop_front(): undefined on an empty deque (PopFindsMessage)
Pop(c) ==
  /\ Goto(c, "pop", "unlock")
  /\ ret' = [ret EXCEPT ![c] = Head(m_messages)]
  /\ m_messages' = Tail(m_messages)
  /\ popped' = Append(popped, Head(m_messages))
  /\ UNCHANGED <<m_lock, m_avail, arg, fresh, pushed>>

\* Mutant: return before pthread_mutex_unlock.
DequeueReturnLocked(c) ==
  /\ Goto(c, "unlock", "idle")
  /\ UNCHANGED <<m_lock, m_avail, m_messages, arg, ret, fresh, pushed, popped>>

DequeueReturn(c) ==
  /\ Goto(c, "unlock", "idle")
  /\ ReleaseLock
  /\ UNCHANGED <<m_avail, m_messages, arg, ret, fresh, pushed, popped>>

-------------------------------------------------------------------------------
Enqueue(p) == EnqueueLock(p) \/ Push(p) \/ EnqueueUnlock(p) \/ Post(p)

Dequeue(c) ==
  \/ DequeueClock(c) \/ DequeueClockError(c)
  \/ SemWait(c) \/ SemBlock(c) \/ SemTimeout(c)
  \/ DequeueLock(c) \/ Pop(c) \/ DequeueReturn(c)

Next ==
  \/ \E p \in Producers : EnqueueCall(p) \/ Enqueue(p)
  \/ \E c \in Consumers : DequeueCall(c) \/ Dequeue(c)

Spec == Init /\ [][Next]_vars

(***************************************************************************)
(* A thread that is inside a call runs.  sem_timedwait is part of the same *)
(* condition: it returns by its deadline.                                  *)
(***************************************************************************)
ThreadFairness ==
  /\ \A p \in Producers : WF_vars(Enqueue(p))
  /\ \A c \in Consumers : WF_vars(Dequeue(c))

FairSpec == Spec /\ ThreadFairness

-------------------------------------------------------------------------------
TypeOK ==
  /\ m_lock \in Threads \cup {NoThread}
  /\ m_avail \in Nat
  /\ m_messages \in Seq(Messages)
  /\ pc \in [Threads -> ProducerPC \cup ConsumerPC]
  /\ \A p \in Producers : pc[p] \in ProducerPC
  /\ \A c \in Consumers : pc[c] \in ConsumerPC
  /\ arg \in [Producers -> Messages \cup {NullMsg}]
  /\ \A p \in Producers : pc[p] \in {"lock", "push"} => arg[p] \in Messages
  /\ ret \in [Consumers -> Messages \cup {NullMsg}]
  /\ fresh \in SUBSET Messages
  /\ pushed \in Seq(Messages)
  /\ popped \in Seq(Messages)

\* threads between acquiring and releasing m_lock
InCritical(t) ==
  \/ t \in Producers /\ pc[t] \in {"push", "unlock"}
  \/ t \in Consumers /\ pc[t] \in {"pop", "unlock"}

\* producers whose message is in the deque but not yet announced
Unposted == {p \in Producers : pc[p] \in {"unlock", "post"}}

\* consumers that took the semaphore and have yet to pop
Reserved == {c \in Consumers : pc[c] \in {"lock", "pop"}}

(***************************************************************************)
(* The deque is never touched by two threads at once.                      *)
(***************************************************************************)
LockInv == \A t \in Threads : InCritical(t) <=> m_lock = t

(***************************************************************************)
(* The count the semaphore keeps: every message in the deque is announced  *)
(* by the semaphore, promised to a consumer that has already passed it, or *)
(* about to be announced by its producer.  A post before the push, or a    *)
(* pop without a wait, would break it.                                     *)
(***************************************************************************)
SemaphoreCount ==
  Len(m_messages) = m_avail + Cardinality(Reserved) + Cardinality(Unposted)

(***************************************************************************)
(* dequeue never calls front() on an empty deque, which is undefined       *)
(* behaviour: message_queue.cpp:44 has no check of its own.                *)
(***************************************************************************)
PopFindsMessage == \A c \in Consumers : pc[c] = "pop" => m_messages # << >>

(***************************************************************************)
(* First in, first out, nothing lost and nothing delivered twice, whatever *)
(* the interleaving of producers and consumers.                            *)
(***************************************************************************)
Fifo == popped \o m_messages = pushed

(***************************************************************************)
(* "will not block" (message_queue.h:34): an enqueue returns, whatever the *)
(* consumers do.                                                           *)
(***************************************************************************)
EnqueueReturns ==
  \A p \in Producers : pc[p] # "idle" ~> pc[p] = "idle"

(***************************************************************************)
(* "blocks for at most a finite amount of time" (message_queue.h:35): a    *)
(* dequeue returns even when nobody ever enqueues.                         *)
(***************************************************************************)
DequeueReturns ==
  \A c \in Consumers : pc[c] # "idle" ~> pc[c] = "idle"

\* chat_with_receiver calls dequeue again and again (server.cpp:219-221), and
\* the clock can be read now and then
ConsumersKeepCalling ==
  \A c \in Consumers : WF_vars(DequeueCall(c)) /\ SF_vars(DequeueClock(c))

Elements(s) == {s[i] : i \in 1..Len(s)}

(***************************************************************************)
(* A message that was pushed is eventually popped, as long as consumers    *)
(* keep calling dequeue: a timeout that races with a post loses nothing,   *)
(* since the next call finds the semaphore positive and does not wait.     *)
(***************************************************************************)
EveryMessagePopped == ConsumersKeepCalling =>
  \A m \in Messages : m \in Elements(pushed) ~> m \in Elements(popped)

-------------------------------------------------------------------------------
(***************************************************************************)
(* Refinement: the messages a dequeue may take are those the semaphore     *)
(* announces, after the ones already promised.                             *)
(***************************************************************************)
Available ==
  LET r == Cardinality(Reserved) IN SubSeq(m_messages, r + 1, r + m_avail)

CallMode(c) ==
  CASE pc[c] = "idle" -> "out"
    [] pc[c] = "clock" -> "called"
    [] pc[c] = "enter" -> "entered"
    [] pc[c] = "blocked" -> "waiting"
    [] OTHER -> "got"

Atomic == INSTANCE AtomicQueue WITH
  available <- Available,
  mode <- [c \in Consumers |-> CallMode(c)]

\* the class implements the one-step queue the rest of the server assumes
ImplementsAtomicQueue == Atomic!ASpec
===============================================================================
