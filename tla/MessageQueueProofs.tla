-------------------------- MODULE MessageQueueProofs --------------------------
(***************************************************************************)
(* The safety of MessageQueue for any number of producers, consumers and   *)
(* messages.  The invariants the runs check are together inductive: the    *)
(* count of the semaphore needs the lock (a push and a pop never overlap), *)
(* and the types need the count (front() finds a message).  From them, that *)
(* the queue implements AtomicQueue.                                       *)
(***************************************************************************)
EXTENDS MessageQueue, FiniteSetTheorems, SequenceTheorems, TLAPS

IInv == TypeOK /\ LockInv /\ SemaphoreCount /\ Fifo

USE DEF Threads, ProducerPC, ConsumerPC

(***************************************************************************)
(* Sequences: what a push at the back and a pop at the front do to the     *)
(* concatenation that Fifo speaks of.                                      *)
(***************************************************************************)
LEMMA PushKeepsOrder ==
  ASSUME NEW S, NEW s \in Seq(S), NEW t \in Seq(S), NEW x \in S
  PROVE  s \o Append(t, x) = Append(s \o t, x)
<1>1. /\ Append(t, x) = t \o <<x>>
      /\ Append(s \o t, x) = (s \o t) \o <<x>>
  BY AppendIsConcat, ConcatProperties
<1>2. s \o (t \o <<x>>) = (s \o t) \o <<x>>
  BY ConcatAssociative
<1>. QED  BY <1>1, <1>2

LEMMA PopKeepsOrder ==
  ASSUME NEW S, NEW s \in Seq(S), NEW t \in Seq(S), t # << >>
  PROVE  /\ Head(t) \in S
         /\ Tail(t) \in Seq(S)
         /\ Len(Tail(t)) = Len(t) - 1
         /\ Append(s, Head(t)) \o Tail(t) = s \o t
<1>1. /\ Head(t) \in S
      /\ Tail(t) \in Seq(S)
      /\ Len(Tail(t)) = Len(t) - 1
      /\ t = <<Head(t)>> \o Tail(t)
  BY HeadTailProperties, SMT
<1>2. Append(s, Head(t)) = s \o <<Head(t)>>
  BY <1>1, AppendIsConcat
<1>3. (s \o <<Head(t)>>) \o Tail(t) = s \o (<<Head(t)>> \o Tail(t))
  BY <1>1, ConcatAssociative
<1>. QED  BY <1>1, <1>2, <1>3

(***************************************************************************)
(* The two counts of SemaphoreCount: finite, and changed by one when one   *)
(* thread enters or leaves.                                                *)
(***************************************************************************)
LEMMA CountsAreFinite ==
  /\ IsFiniteSet(Reserved) /\ Cardinality(Reserved) \in Nat
  /\ IsFiniteSet(Unposted) /\ Cardinality(Unposted) \in Nat
<1>1. Reserved \subseteq Consumers /\ Unposted \subseteq Producers
  BY DEF Reserved, Unposted
<1>. QED  BY <1>1, ThreadsAssumption, FS_Subset, FS_CardinalityType

LEMMA InitIInv == Init => IInv
<1>. SUFFICES ASSUME Init PROVE IInv
  OBVIOUS
<1>1. TypeOK
  BY ThreadsAssumption DEF Init, TypeOK
<1>2. LockInv
  BY ThreadsAssumption DEF Init, LockInv, InCritical
<1>3. Reserved = {} /\ Unposted = {}
  BY DEF Init, Reserved, Unposted
<1>4. SemaphoreCount
  BY <1>3, FS_EmptySet DEF Init, SemaphoreCount
<1>5. Fifo
  BY DEF Init, Fifo
<1>. QED  BY <1>1, <1>2, <1>4, <1>5 DEF IInv

(***************************************************************************)
(* A consumer that passed the semaphore finds a message.                   *)
(***************************************************************************)
LEMMA ReservedFindsMessage ==
  ASSUME TypeOK, SemaphoreCount, NEW c \in Reserved
  PROVE  m_messages # << >>
<1>1. Cardinality(Reserved) # 0
  BY CountsAreFinite, FS_EmptySet
<1>2. Len(m_messages) # 0
  BY <1>1, CountsAreFinite DEF SemaphoreCount, TypeOK
<1>. QED  BY <1>2

(***************************************************************************)
(* Preservation, one lemma per conjunct, one case per action.              *)
(***************************************************************************)
LEMMA TypeOKStep == ASSUME IInv, [Next]_vars PROVE TypeOK'
<1>. USE DEF IInv
<1>1. ASSUME NEW p \in Producers, EnqueueCall(p) PROVE TypeOK'
  BY <1>1, ThreadsAssumption DEF TypeOK, EnqueueCall, Goto
<1>2. ASSUME NEW p \in Producers, EnqueueLock(p) PROVE TypeOK'
  BY <1>2, ThreadsAssumption DEF TypeOK, EnqueueLock, Goto, AcquireLock
<1>3. ASSUME NEW p \in Producers, Push(p) PROVE TypeOK'
  BY <1>3, ThreadsAssumption, AppendProperties DEF TypeOK, Push, Goto
<1>4. ASSUME NEW p \in Producers, EnqueueUnlock(p) PROVE TypeOK'
  BY <1>4, ThreadsAssumption DEF TypeOK, EnqueueUnlock, Goto, ReleaseLock
<1>5. ASSUME NEW p \in Producers, Post(p) PROVE TypeOK'
  BY <1>5, ThreadsAssumption DEF TypeOK, Post, Goto
<1>6. ASSUME NEW c \in Consumers, DequeueCall(c) PROVE TypeOK'
  BY <1>6, ThreadsAssumption DEF TypeOK, DequeueCall, Goto
<1>7. ASSUME NEW c \in Consumers, DequeueClock(c) \/ DequeueClockError(c) PROVE TypeOK'
  BY <1>7, ThreadsAssumption DEF TypeOK, DequeueClock, DequeueClockError, Goto
<1>8. ASSUME NEW c \in Consumers, SemWait(c) PROVE TypeOK'
  BY <1>8, ThreadsAssumption DEF TypeOK, SemWait, Goto
<1>9. ASSUME NEW c \in Consumers, SemBlock(c) PROVE TypeOK'
  BY <1>9, ThreadsAssumption DEF TypeOK, SemBlock, Goto
<1>10. ASSUME NEW c \in Consumers, SemTimeout(c) PROVE TypeOK'
  BY <1>10, ThreadsAssumption DEF TypeOK, SemTimeout, Goto
<1>11. ASSUME NEW c \in Consumers, DequeueLock(c) PROVE TypeOK'
  BY <1>11, ThreadsAssumption DEF TypeOK, DequeueLock, Goto, AcquireLock
<1>12. ASSUME NEW c \in Consumers, Pop(c) PROVE TypeOK'
  <2>1. Head(m_messages) \in Messages /\ Tail(m_messages) \in Seq(Messages)
    <3>1. c \in Reserved
      BY <1>12 DEF Reserved, Pop, Goto
    <3>2. m_messages # << >>
      BY <3>1, ReservedFindsMessage
    <3>. QED  BY <3>2, HeadTailProperties DEF TypeOK
  <2>. QED  BY <1>12, <2>1, AppendProperties, ThreadsAssumption DEF TypeOK, Pop, Goto
<1>13. ASSUME NEW c \in Consumers, DequeueReturn(c) PROVE TypeOK'
  BY <1>13, ThreadsAssumption DEF TypeOK, DequeueReturn, Goto, ReleaseLock
<1>14. CASE UNCHANGED vars
  BY <1>14 DEF TypeOK, vars
<1>. QED
  BY <1>1, <1>2, <1>3, <1>4, <1>5, <1>6, <1>7, <1>8, <1>9, <1>10, <1>11,
     <1>12, <1>13, <1>14 DEF Next, Enqueue, Dequeue

(***************************************************************************)
(* The mutex changes hands only when it is free or by its holder.          *)
(***************************************************************************)
LEMMA LockInvStep == ASSUME IInv, [Next]_vars PROVE LockInv'
<1>. USE DEF IInv
<1>1. ASSUME NEW p \in Producers, EnqueueLock(p) PROVE LockInv'
  BY <1>1, ThreadsAssumption
     DEF TypeOK, LockInv, InCritical, EnqueueLock, Goto, AcquireLock
<1>2. ASSUME NEW c \in Consumers, DequeueLock(c) PROVE LockInv'
  BY <1>2, ThreadsAssumption
     DEF TypeOK, LockInv, InCritical, DequeueLock, Goto, AcquireLock
<1>3. ASSUME NEW p \in Producers, EnqueueUnlock(p) PROVE LockInv'
  BY <1>3, ThreadsAssumption
     DEF TypeOK, LockInv, InCritical, EnqueueUnlock, Goto, ReleaseLock
<1>4. ASSUME NEW c \in Consumers, DequeueReturn(c) PROVE LockInv'
  BY <1>4, ThreadsAssumption
     DEF TypeOK, LockInv, InCritical, DequeueReturn, Goto, ReleaseLock
<1>5. ASSUME NEW p \in Producers, EnqueueCall(p) \/ Push(p) \/ Post(p)
      PROVE  LockInv'
  BY <1>5, ThreadsAssumption
     DEF TypeOK, LockInv, InCritical, EnqueueCall, Push, Post, Goto
<1>6. ASSUME NEW c \in Consumers,
             DequeueCall(c) \/ DequeueClock(c) \/ DequeueClockError(c) \/ Pop(c)
      PROVE  LockInv'
  BY <1>6, ThreadsAssumption
     DEF TypeOK, LockInv, InCritical, DequeueCall, DequeueClock, DequeueClockError, Pop, Goto
<1>7. ASSUME NEW c \in Consumers, SemWait(c) \/ SemBlock(c) \/ SemTimeout(c)
      PROVE  LockInv'
  BY <1>7, ThreadsAssumption
     DEF TypeOK, LockInv, InCritical, SemWait, SemBlock, SemTimeout, Goto
<1>8. CASE UNCHANGED vars
  BY <1>8 DEF LockInv, InCritical, vars
<1>. QED
  BY <1>1, <1>2, <1>3, <1>4, <1>5, <1>6, <1>7, <1>8 DEF Next, Enqueue, Dequeue

(***************************************************************************)
(* Each action that changes one term of the count changes another: a push  *)
(* adds a message and an unposted producer, a post moves that producer to  *)
(* the semaphore, a wait moves one to the reservations, a pop ends one.    *)
(***************************************************************************)
LEMMA SemaphoreCountStep == ASSUME IInv, [Next]_vars PROVE SemaphoreCount'
<1>. USE DEF IInv
<1>1. ASSUME NEW p \in Producers, Push(p) PROVE SemaphoreCount'
  <2>1. Reserved' = Reserved
    BY <1>1, ThreadsAssumption DEF TypeOK, Reserved, Push, Goto
  <2>2. Unposted' = Unposted \cup {p} /\ p \notin Unposted
    BY <1>1 DEF TypeOK, Unposted, Push, Goto
  <2>3. Cardinality(Unposted') = Cardinality(Unposted) + 1
    BY <2>2, CountsAreFinite, FS_AddElement
  <2>4. Len(m_messages') = Len(m_messages) + 1 /\ m_avail' = m_avail
    BY <1>1, AppendProperties DEF TypeOK, Push, Goto
  <2>. QED  BY <2>1, <2>3, <2>4, CountsAreFinite DEF TypeOK, SemaphoreCount
<1>2. ASSUME NEW p \in Producers, Post(p) PROVE SemaphoreCount'
  <2>1. Reserved' = Reserved
    BY <1>2, ThreadsAssumption DEF TypeOK, Reserved, Post, Goto
  <2>2. Unposted' = Unposted \ {p} /\ p \in Unposted
    BY <1>2 DEF TypeOK, Unposted, Post, Goto
  <2>3. Cardinality(Unposted') = Cardinality(Unposted) - 1
    BY <2>2, CountsAreFinite, FS_RemoveElement
  <2>4. m_messages' = m_messages /\ m_avail' = m_avail + 1
    BY <1>2 DEF Post
  <2>. QED  BY <2>1, <2>3, <2>4, CountsAreFinite DEF TypeOK, SemaphoreCount
<1>3. ASSUME NEW c \in Consumers, SemWait(c) PROVE SemaphoreCount'
  <2>1. Unposted' = Unposted
    BY <1>3, ThreadsAssumption DEF TypeOK, Unposted, SemWait, Goto
  <2>2. Reserved' = Reserved \cup {c} /\ c \notin Reserved
    BY <1>3 DEF TypeOK, Reserved, SemWait, Goto
  <2>3. Cardinality(Reserved') = Cardinality(Reserved) + 1
    BY <2>2, CountsAreFinite, FS_AddElement
  <2>4. m_messages' = m_messages /\ m_avail' = m_avail - 1
    BY <1>3 DEF SemWait
  <2>. QED  BY <2>1, <2>3, <2>4, CountsAreFinite DEF TypeOK, SemaphoreCount
<1>4. ASSUME NEW c \in Consumers, Pop(c) PROVE SemaphoreCount'
  <2>1. Unposted' = Unposted
    BY <1>4, ThreadsAssumption DEF TypeOK, Unposted, Pop, Goto
  <2>2. Reserved' = Reserved \ {c} /\ c \in Reserved
    BY <1>4 DEF TypeOK, Reserved, Pop, Goto
  <2>3. Cardinality(Reserved') = Cardinality(Reserved) - 1
    BY <2>2, CountsAreFinite, FS_RemoveElement
  <2>4. Len(m_messages') = Len(m_messages) - 1 /\ m_avail' = m_avail
    BY <1>4, <2>2, ReservedFindsMessage, PopKeepsOrder DEF TypeOK, Pop
  <2>. QED  BY <2>1, <2>3, <2>4, CountsAreFinite DEF TypeOK, SemaphoreCount
<1>5. ASSUME NEW p \in Producers, EnqueueCall(p) \/ EnqueueLock(p) \/ EnqueueUnlock(p)
      PROVE  SemaphoreCount'
  <2>1. Reserved' = Reserved /\ Unposted' = Unposted
    BY <1>5, ThreadsAssumption
       DEF TypeOK, Reserved, Unposted, EnqueueCall, EnqueueLock, EnqueueUnlock, Goto
  <2>2. UNCHANGED <<m_messages, m_avail>>
    BY <1>5 DEF EnqueueCall, EnqueueLock, EnqueueUnlock
  <2>. QED  BY <2>1, <2>2 DEF SemaphoreCount
<1>6. ASSUME NEW c \in Consumers,
             \/ DequeueCall(c) \/ DequeueClock(c) \/ DequeueClockError(c) \/ SemBlock(c)
             \/ SemTimeout(c) \/ DequeueLock(c) \/ DequeueReturn(c)
      PROVE  SemaphoreCount'
  <2>1. Reserved' = Reserved /\ Unposted' = Unposted
    BY <1>6, ThreadsAssumption
       DEF TypeOK, Reserved, Unposted, DequeueCall, DequeueClock, DequeueClockError, SemBlock,
           SemTimeout, DequeueLock, DequeueReturn, Goto
  <2>2. UNCHANGED <<m_messages, m_avail>>
    BY <1>6 DEF DequeueCall, DequeueClock, DequeueClockError, SemBlock, SemTimeout,
                DequeueLock, DequeueReturn
  <2>. QED  BY <2>1, <2>2 DEF SemaphoreCount
<1>7. CASE UNCHANGED vars
  BY <1>7 DEF SemaphoreCount, Reserved, Unposted, vars
<1>. QED
  BY <1>1, <1>2, <1>3, <1>4, <1>5, <1>6, <1>7 DEF Next, Enqueue, Dequeue

LEMMA FifoStep == ASSUME IInv, [Next]_vars PROVE Fifo'
<1>. USE DEF IInv
<1>1. ASSUME NEW p \in Producers, Push(p) PROVE Fifo'
  <2>1. arg[p] \in Messages
    BY <1>1 DEF TypeOK, Push, Goto
  <2>. QED  BY <1>1, <2>1, PushKeepsOrder DEF TypeOK, Fifo, Push
<1>2. ASSUME NEW c \in Consumers, Pop(c) PROVE Fifo'
  <2>1. c \in Reserved
    BY <1>2 DEF Reserved, Pop, Goto
  <2>2. m_messages # << >>
    BY <2>1, ReservedFindsMessage
  <2>3. popped \in Seq(Messages) /\ m_messages \in Seq(Messages)
    BY DEF TypeOK
  <2>4. Append(popped, Head(m_messages)) \o Tail(m_messages) = popped \o m_messages
    BY <2>2, <2>3, PopKeepsOrder
  <2>. QED  BY <1>2, <2>4 DEF Fifo, Pop
<1>3. CASE UNCHANGED <<m_messages, pushed, popped>>
  BY <1>3 DEF Fifo
<1>. QED
  BY <1>1, <1>2, <1>3
     DEF Next, Enqueue, Dequeue, EnqueueCall, EnqueueLock, EnqueueUnlock, Post,
         DequeueCall, DequeueClock, DequeueClockError, SemWait, SemBlock, SemTimeout,
         DequeueLock, DequeueReturn, vars

-------------------------------------------------------------------------------
LEMMA IInvStep == IInv /\ [Next]_vars => IInv'
BY TypeOKStep, LockInvStep, SemaphoreCountStep, FifoStep DEF IInv

LEMMA Invariance == Spec => []IInv
<1>1. Init => IInv
  BY InitIInv
<1>2. IInv /\ [Next]_vars => IInv'
  BY IInvStep
<1>. QED  BY <1>1, <1>2, PTL DEF Spec

(***************************************************************************)
(* The variables keep their types, and a producer that is about to push    *)
(* has a message.                                                          *)
(***************************************************************************)
THEOREM TypeCorrect == Spec => []TypeOK
<1>1. IInv => TypeOK
  BY DEF IInv
<1>. QED  BY <1>1, Invariance, PTL

(***************************************************************************)
(* Mutual exclusion on the deque, for any number of threads.               *)
(***************************************************************************)
THEOREM MutualExclusion == Spec => []LockInv
<1>1. IInv => LockInv
  BY DEF IInv
<1>. QED  BY <1>1, Invariance, PTL

(***************************************************************************)
(* The semaphore counts the messages, up to the calls in progress.         *)
(***************************************************************************)
THEOREM SemaphoreCountsMessages == Spec => []SemaphoreCount
<1>1. IInv => SemaphoreCount
  BY DEF IInv
<1>. QED  BY <1>1, Invariance, PTL

(***************************************************************************)
(* dequeue never takes the front of an empty deque.                        *)
(***************************************************************************)
THEOREM NoEmptyPop == Spec => []PopFindsMessage
<1>1. IInv => PopFindsMessage
  BY ReservedFindsMessage DEF IInv, PopFindsMessage, Reserved
<1>. QED  BY <1>1, Invariance, PTL

(***************************************************************************)
(* First in, first out, without loss or duplication.                       *)
(***************************************************************************)
THEOREM FirstInFirstOut == Spec => []Fifo
<1>1. IInv => Fifo
  BY DEF IInv
<1>. QED  BY <1>1, Invariance, PTL

-------------------------------------------------------------------------------
(***************************************************************************)
(* MessageQueue implements AtomicQueue.  The abstract queue is a window    *)
(* into the deque: it starts after the messages promised to consumers that *)
(* have passed the semaphore and is as long as the semaphore's value.  The *)
(* count of the semaphore keeps the window inside the deque, so a post     *)
(* always finds a message to widen it by, and a pop, which shifts the      *)
(* deque and the window at once, leaves it as it is.                       *)
(***************************************************************************)
(***************************************************************************)
(* Windows into a sequence.                                                *)
(***************************************************************************)
LEMMA WindowElements ==
  ASSUME NEW S, NEW q \in Seq(S), NEW k \in Nat, NEW n \in Nat, k + n <= Len(q)
  PROVE  /\ SubSeq(q, k + 1, k + n) \in Seq(S)
         /\ Len(SubSeq(q, k + 1, k + n)) = n
         /\ \A i \in 1..n : SubSeq(q, k + 1, k + n)[i] = q[k + i]
<1>1. \A i \in (k + 1)..(k + n) : q[i] \in S
  BY ElementOfSeq, LenProperties
<1>2. /\ SubSeq(q, k + 1, k + n) \in Seq(S)
      /\ Len(SubSeq(q, k + 1, k + n))
           = IF k + 1 <= k + n THEN (k + n) - (k + 1) + 1 ELSE 0
      /\ \A i \in 1..((k + n) - (k + 1) + 1) :
           SubSeq(q, k + 1, k + n)[i] = q[(k + 1) + i - 1]
  BY <1>1, SubSeqProperties
<1>. QED  BY <1>2, SMT

LEMMA WindowShrinks ==
  ASSUME NEW S, NEW q \in Seq(S), NEW k \in Nat, NEW n \in Nat,
         n > 0, k + n <= Len(q)
  PROVE  /\ SubSeq(q, k + 1, k + n) # << >>
         /\ SubSeq(q, (k + 1) + 1, (k + 1) + (n - 1)) = Tail(SubSeq(q, k + 1, k + n))
<1>1. Len(SubSeq(q, k + 1, k + n)) = n
  BY WindowElements
<1>2. k + 1 \in 1..Len(q) /\ k + n \in (k + 1)..Len(q)
  BY LenProperties
<1>3. Tail(SubSeq(q, k + 1, k + n)) = SubSeq(q, (k + 1) + 1, k + n)
  BY <1>2, HeadTailOfSubSeq
<1>4. (k + 1) + (n - 1) = k + n
  OBVIOUS
<1>. QED  BY <1>1, <1>3, <1>4

LEMMA WindowGrows ==
  ASSUME NEW S, NEW q \in Seq(S), NEW k \in Nat, NEW n \in Nat, k + n < Len(q)
  PROVE  /\ q[k + n + 1] \in S
         /\ SubSeq(q, k + 1, k + (n + 1))
              = Append(SubSeq(q, k + 1, k + n), q[k + n + 1])
<1>1. /\ k + 1 \in 1..Len(q) /\ k + (n + 1) \in (k + 1)..Len(q)
      /\ k + (n + 1) = k + n + 1 /\ (k + n + 1) - 1 = k + n
  BY LenProperties
<1>2. q[k + n + 1] \in S
  BY <1>1, ElementOfSeq
<1>3. SubSeq(q, k + 1, k + (n + 1)) = SubSeq(q, k + 1, k + n) \o <<q[k + n + 1]>>
  BY <1>1, SubSeqRecursiveSecond
<1>4. SubSeq(q, k + 1, k + n) \in Seq(S)
  BY WindowElements
<1>. QED  BY <1>2, <1>3, <1>4, AppendIsConcat

LEMMA WindowIgnoresAppend ==
  ASSUME NEW S, NEW q \in Seq(S), NEW x \in S,
         NEW k \in Nat, NEW n \in Nat, k + n <= Len(q)
  PROVE  SubSeq(Append(q, x), k + 1, k + n) = SubSeq(q, k + 1, k + n)
<1>1. /\ Append(q, x) \in Seq(S) /\ Len(Append(q, x)) = Len(q) + 1
      /\ \A i \in 1..Len(q) : Append(q, x)[i] = q[i]
      /\ Len(q) \in Nat
  BY AppendProperties, LenProperties
<1>2. /\ SubSeq(q, k + 1, k + n) \in Seq(S)
      /\ Len(SubSeq(q, k + 1, k + n)) = n
      /\ \A i \in 1..n : SubSeq(q, k + 1, k + n)[i] = q[k + i]
  BY WindowElements
<1>3. /\ SubSeq(Append(q, x), k + 1, k + n) \in Seq(S)
      /\ Len(SubSeq(Append(q, x), k + 1, k + n)) = n
      /\ \A i \in 1..n : SubSeq(Append(q, x), k + 1, k + n)[i] = Append(q, x)[k + i]
  BY <1>1, WindowElements
<1>4. \A i \in 1..n : Append(q, x)[k + i] = q[k + i]
  BY <1>1
<1>. QED  BY <1>2, <1>3, <1>4, SeqEqual

LEMMA WindowFollowsTail ==
  ASSUME NEW S, NEW q \in Seq(S), NEW k \in Nat, NEW n \in Nat,
         k > 0, k + n <= Len(q)
  PROVE  SubSeq(Tail(q), (k - 1) + 1, (k - 1) + n) = SubSeq(q, k + 1, k + n)
<1>1. /\ q # << >> /\ Len(q) \in Nat /\ k - 1 \in Nat
  BY LenProperties
<1>2. /\ Tail(q) \in Seq(S) /\ Len(Tail(q)) = Len(q) - 1
      /\ \A i \in 1..Len(Tail(q)) : Tail(q)[i] = q[i + 1]
  BY <1>1, HeadTailProperties
<1>3. /\ SubSeq(q, k + 1, k + n) \in Seq(S)
      /\ Len(SubSeq(q, k + 1, k + n)) = n
      /\ \A i \in 1..n : SubSeq(q, k + 1, k + n)[i] = q[k + i]
  BY WindowElements
<1>4. /\ SubSeq(Tail(q), (k - 1) + 1, (k - 1) + n) \in Seq(S)
      /\ Len(SubSeq(Tail(q), (k - 1) + 1, (k - 1) + n)) = n
      /\ \A i \in 1..n :
           SubSeq(Tail(q), (k - 1) + 1, (k - 1) + n)[i] = Tail(q)[(k - 1) + i]
  BY <1>1, <1>2, WindowElements
<1>5. \A i \in 1..n : Tail(q)[(k - 1) + i] = q[k + i]
  BY <1>1, <1>2
<1>. QED  BY <1>3, <1>4, <1>5, SeqEqual

-------------------------------------------------------------------------------
Window(r) == SubSeq(m_messages, r + 1, r + m_avail)

LEMMA AvailableIsWindow ==
  ASSUME IInv
  PROVE  /\ Cardinality(Reserved) \in Nat /\ m_avail \in Nat
         /\ Len(m_messages) \in Nat /\ m_messages \in Seq(Messages)
         /\ Cardinality(Reserved) + m_avail <= Len(m_messages)
         /\ Available = Window(Cardinality(Reserved))
         /\ Len(Available) = m_avail
<1>1. /\ Cardinality(Reserved) \in Nat /\ Cardinality(Unposted) \in Nat
      /\ m_avail \in Nat /\ Len(m_messages) \in Nat /\ m_messages \in Seq(Messages)
  BY CountsAreFinite, LenProperties DEF IInv, TypeOK
<1>2. Cardinality(Reserved) + m_avail <= Len(m_messages)
  BY <1>1 DEF IInv, SemaphoreCount
<1>3. Available = Window(Cardinality(Reserved))
  BY DEF Available, Window
<1>. QED  BY <1>1, <1>2, <1>3, WindowElements DEF Window

(***************************************************************************)
(* What a consumer's step changes in the abstract mode.                    *)
(***************************************************************************)
Mode == [c \in Consumers |-> CallMode(c)]

LEMMA ModeMoves ==
  ASSUME TypeOK, NEW c \in Consumers, NEW to \in ConsumerPC,
         pc' = [pc EXCEPT ![c] = to]
  PROVE  Mode' = [Mode EXCEPT ![c] =
                    CASE to = "idle" -> "out"
                      [] to = "clock" -> "called"
                      [] to = "enter" -> "entered"
                      [] to = "blocked" -> "waiting"
                      [] OTHER -> "got"]
<1>1. \A d \in Consumers : pc'[d] = IF d = c THEN to ELSE pc[d]
  BY DEF TypeOK
<1>2. \A d \in Consumers :
        CallMode(d)' = IF d = c THEN CASE to = "idle" -> "out"
                                       [] to = "clock" -> "called"
                                       [] to = "enter" -> "entered"
                                       [] to = "blocked" -> "waiting"
                                       [] OTHER -> "got"
                       ELSE CallMode(d)
  BY <1>1, Zenon DEF CallMode
<1>. QED  BY <1>2, Zenon DEF Mode

LEMMA ModeStays ==
  ASSUME TypeOK, NEW p \in Producers, NEW to \in ProducerPC,
         pc' = [pc EXCEPT ![p] = to]
  PROVE  Mode' = Mode
<1>1. \A d \in Consumers : pc'[d] = pc[d]
  BY ThreadsAssumption DEF TypeOK
<1>2. \A d \in Consumers : CallMode(d)' = CallMode(d)
  BY <1>1, Zenon DEF CallMode
<1>. QED  BY <1>2, Zenon DEF Mode

(***************************************************************************)
(* Steps that leave the semaphore, the deque and the reservations alone    *)
(* leave the window alone.                                                 *)
(***************************************************************************)
LEMMA AvailableStays ==
  ASSUME UNCHANGED <<m_messages, m_avail>>, Reserved' = Reserved
  PROVE  Available' = Available
BY DEF Available

LEMMA InitMaps == Init => Atomic!AInit
<1>. SUFFICES ASSUME Init PROVE Atomic!AInit
  OBVIOUS
<1>1. Available = << >>
  <2>1. Reserved = {}
    BY DEF Init, Reserved
  <2>2. Cardinality(Reserved) = 0
    BY <2>1, FS_EmptySet
  <2>3. Available = SubSeq(m_messages, 1, 0)
    BY <2>2 DEF Available, Init
  <2>. QED  BY <2>3, SubSeqEmpty
<1>2. \A c \in Consumers : CallMode(c) = "out"
  BY DEF Init, CallMode
<1>. QED  BY <1>1, <1>2 DEF Atomic!AInit

(***************************************************************************)
(* Each action of a producer: the abstract queue sees only the post.       *)
(***************************************************************************)
LEMMA PostMaps ==
  ASSUME IInv, NEW p \in Producers, Post(p)
  PROVE  \E m \in Messages : Atomic!Put(m)
<1>. USE DEF IInv
<1>1. Mode' = Mode
  BY ModeStays DEF Post, Goto
<1>2. Reserved' = Reserved
  BY ThreadsAssumption DEF TypeOK, Reserved, Post, Goto
<1>3. PICK r \in Nat : r = Cardinality(Reserved)
  BY AvailableIsWindow
<1>4. p \in Unposted
  BY DEF Unposted, Post, Goto
<1>5. Cardinality(Unposted) # 0
  BY <1>4, CountsAreFinite, FS_EmptySet
<1>6. r + m_avail < Len(m_messages)
  BY <1>3, <1>5, CountsAreFinite, AvailableIsWindow DEF SemaphoreCount
<1>7. /\ m_messages[r + m_avail + 1] \in Messages
      /\ SubSeq(m_messages, r + 1, r + (m_avail + 1))
           = Append(Window(r), m_messages[r + m_avail + 1])
  BY <1>3, <1>6, AvailableIsWindow, WindowGrows DEF Window
<1>8. /\ Available = Window(r)
      /\ Available' = SubSeq(m_messages, r + 1, r + (m_avail + 1))
  BY <1>2, <1>3 DEF Available, Window, Post
<1>9. Atomic!Put(m_messages[r + m_avail + 1])
  BY <1>1, <1>7, <1>8 DEF Atomic!Put, Mode
<1>. QED  BY <1>7, <1>9

LEMMA PushStutters ==
  ASSUME IInv, NEW p \in Producers, Push(p)
  PROVE  Available' = Available /\ Mode' = Mode
<1>. USE DEF IInv
<1>1. Mode' = Mode
  BY ModeStays DEF Push, Goto
<1>2. Reserved' = Reserved
  BY ThreadsAssumption DEF TypeOK, Reserved, Push, Goto
<1>3. arg[p] \in Messages
  BY DEF TypeOK, Push, Goto
<1>4. PICK r \in Nat : r = Cardinality(Reserved)
  BY AvailableIsWindow
<1>5. SubSeq(Append(m_messages, arg[p]), r + 1, r + m_avail) = Window(r)
  <2>1. /\ m_messages \in Seq(Messages) /\ m_avail \in Nat
        /\ r + m_avail <= Len(m_messages)
    BY <1>4, AvailableIsWindow
  <2>. QED  BY <1>3, <2>1, WindowIgnoresAppend DEF Window
<1>6. /\ Available = Window(r)
      /\ Available' = SubSeq(Append(m_messages, arg[p]), r + 1, r + m_avail)
  BY <1>2, <1>4 DEF Available, Window, Push
<1>. QED  BY <1>1, <1>5, <1>6

LEMMA ProducerStutters ==
  ASSUME IInv, NEW p \in Producers,
         EnqueueCall(p) \/ EnqueueLock(p) \/ EnqueueUnlock(p)
  PROVE  Available' = Available /\ Mode' = Mode
<1>1. Mode' = Mode
  BY ModeStays DEF IInv, EnqueueCall, EnqueueLock, EnqueueUnlock, Goto
<1>2. Reserved' = Reserved
  BY ThreadsAssumption
     DEF IInv, TypeOK, Reserved, EnqueueCall, EnqueueLock, EnqueueUnlock, Goto
<1>. QED
  BY <1>1, <1>2, AvailableStays DEF EnqueueCall, EnqueueLock, EnqueueUnlock

(***************************************************************************)
(* Each action of a consumer: passing the semaphore takes the first        *)
(* message of the abstract queue, although the deque still holds it.       *)
(***************************************************************************)
LEMMA SemWaitMaps ==
  ASSUME IInv, NEW c \in Consumers, SemWait(c)
  PROVE  Atomic!Take(c)
<1>. USE DEF IInv
<1>1. Mode[c] \in {"entered", "waiting"}
  BY DEF SemWait, Goto, Mode, CallMode
<1>2. Mode' = [Mode EXCEPT ![c] = "got"]
  BY ModeMoves DEF SemWait, Goto
<1>3. PICK r \in Nat : r = Cardinality(Reserved)
  BY AvailableIsWindow
<1>4. Cardinality(Reserved') = r + 1
  <2>1. Reserved' = Reserved \cup {c} /\ c \notin Reserved
    BY DEF TypeOK, Reserved, SemWait, Goto
  <2>. QED  BY <1>3, <2>1, CountsAreFinite, FS_AddElement
<1>5. /\ Window(r) # << >>
      /\ SubSeq(m_messages, (r + 1) + 1, (r + 1) + (m_avail - 1)) = Tail(Window(r))
  BY <1>3, AvailableIsWindow, WindowShrinks DEF Window, SemWait
<1>6. /\ Available = Window(r)
      /\ Available' = SubSeq(m_messages, (r + 1) + 1, (r + 1) + (m_avail - 1))
  BY <1>3, <1>4 DEF Available, Window, SemWait
<1>. QED  BY <1>1, <1>2, <1>5, <1>6 DEF Atomic!Take, Mode

LEMMA PopStutters ==
  ASSUME IInv, NEW c \in Consumers, Pop(c)
  PROVE  Available' = Available /\ Mode' = Mode
<1>. USE DEF IInv
<1>1. Mode' = Mode
  <2>1. Mode' = [Mode EXCEPT ![c] = "got"]
    BY ModeMoves DEF Pop, Goto
  <2>2. Mode[c] = "got"
    BY DEF Pop, Goto, Mode, CallMode
  <2>. QED  BY <2>1, <2>2 DEF Mode
<1>2. PICK r \in Nat : r = Cardinality(Reserved)
  BY AvailableIsWindow
<1>3. r > 0 /\ Cardinality(Reserved') = r - 1
  <2>1. Reserved' = Reserved \ {c} /\ c \in Reserved
    BY DEF TypeOK, Reserved, Pop, Goto
  <2>2. Cardinality(Reserved) # 0
    BY <2>1, CountsAreFinite, FS_EmptySet
  <2>3. Cardinality(Reserved') = Cardinality(Reserved) - 1
    BY <2>1, CountsAreFinite, FS_RemoveElement
  <2>. QED  BY <1>2, <2>2, <2>3
<1>4. SubSeq(Tail(m_messages), (r - 1) + 1, (r - 1) + m_avail) = Window(r)
  BY <1>2, <1>3, AvailableIsWindow, WindowFollowsTail DEF Window
<1>5. /\ Available = Window(r)
      /\ Available' = SubSeq(Tail(m_messages), (r - 1) + 1, (r - 1) + m_avail)
  BY <1>2, <1>3 DEF Available, Window, Pop
<1>. QED  BY <1>1, <1>4, <1>5

LEMMA ReturnMaps ==
  ASSUME IInv, NEW c \in Consumers, DequeueReturn(c)
  PROVE  Atomic!Return(c)
<1>1. Mode[c] = "got"
  BY DEF DequeueReturn, Goto, Mode, CallMode
<1>2. Mode' = [Mode EXCEPT ![c] = "out"]
  BY ModeMoves DEF IInv, DequeueReturn, Goto
<1>3. Available' = Available
  BY AvailableStays DEF IInv, TypeOK, DequeueReturn, Goto, Reserved
<1>. QED  BY <1>1, <1>2, <1>3 DEF Atomic!Return, Mode

LEMMA CallMaps ==
  ASSUME IInv, NEW c \in Consumers, DequeueCall(c)
  PROVE  Atomic!Call(c)
<1>1. Mode[c] = "out"
  BY DEF DequeueCall, Goto, Mode, CallMode
<1>2. Mode' = [Mode EXCEPT ![c] = "called"]
  BY ModeMoves DEF IInv, DequeueCall, Goto
<1>3. Available' = Available
  BY AvailableStays DEF IInv, TypeOK, DequeueCall, Goto, Reserved
<1>. QED  BY <1>1, <1>2, <1>3 DEF Atomic!Call, Mode

LEMMA SemBlockMaps ==
  ASSUME IInv, NEW c \in Consumers, SemBlock(c)
  PROVE  Atomic!FindEmpty(c)
<1>1. Mode[c] = "entered"
  BY DEF SemBlock, Goto, Mode, CallMode
<1>2. Mode' = [Mode EXCEPT ![c] = "waiting"]
  BY ModeMoves DEF IInv, SemBlock, Goto
<1>3. Available' = Available
  BY AvailableStays DEF IInv, TypeOK, SemBlock, Goto, Reserved
<1>4. Available = << >>
  <2>1. PICK r \in Nat : r = Cardinality(Reserved)
    BY AvailableIsWindow
  <2>2. Available = SubSeq(m_messages, r + 1, r)
    BY <2>1 DEF Available, SemBlock
  <2>. QED  BY <2>2, SubSeqEmpty
<1>. QED  BY <1>1, <1>2, <1>3, <1>4 DEF Atomic!FindEmpty, Mode

LEMMA SemTimeoutMaps ==
  ASSUME IInv, NEW c \in Consumers, SemTimeout(c)
  PROVE  Atomic!GiveUp(c)
<1>1. Mode[c] = "waiting"
  BY DEF SemTimeout, Goto, Mode, CallMode
<1>2. Mode' = [Mode EXCEPT ![c] = "out"]
  BY ModeMoves DEF IInv, SemTimeout, Goto
<1>3. Available' = Available
  BY AvailableStays DEF IInv, TypeOK, SemTimeout, Goto, Reserved
<1>. QED  BY <1>1, <1>2, <1>3 DEF Atomic!GiveUp, Mode

LEMMA DequeueLockStutters ==
  ASSUME IInv, NEW c \in Consumers, DequeueLock(c)
  PROVE  Available' = Available /\ Mode' = Mode
<1>1. Mode[c] = "got" /\ Mode' = [Mode EXCEPT ![c] = "got"]
  BY ModeMoves DEF IInv, DequeueLock, Goto, Mode, CallMode
<1>2. Mode' = Mode
  BY <1>1 DEF Mode
<1>3. Available' = Available
  BY AvailableStays DEF IInv, TypeOK, DequeueLock, Goto, Reserved
<1>. QED  BY <1>2, <1>3

LEMMA ClockMaps ==
  ASSUME IInv, NEW c \in Consumers, DequeueClock(c)
  PROVE  Atomic!Enter(c)
<1>1. Mode[c] = "called"
  BY DEF DequeueClock, Goto, Mode, CallMode
<1>2. Mode' = [Mode EXCEPT ![c] = "entered"]
  BY ModeMoves DEF IInv, DequeueClock, Goto
<1>3. Available' = Available
  BY AvailableStays DEF IInv, TypeOK, DequeueClock, Goto, Reserved
<1>. QED  BY <1>1, <1>2, <1>3 DEF Atomic!Enter, Mode

LEMMA ClockErrorMaps ==
  ASSUME IInv, NEW c \in Consumers, DequeueClockError(c)
  PROVE  Atomic!Fail(c)
<1>1. Mode[c] = "called"
  BY DEF DequeueClockError, Goto, Mode, CallMode
<1>2. Mode' = [Mode EXCEPT ![c] = "out"]
  BY ModeMoves DEF IInv, DequeueClockError, Goto
<1>3. Available' = Available
  BY AvailableStays DEF IInv, TypeOK, DequeueClockError, Goto, Reserved
<1>. QED  BY <1>1, <1>2, <1>3 DEF Atomic!Fail, Mode

LEMMA StepMaps == ASSUME IInv, [Next]_vars PROVE [Atomic!ANext]_(Atomic!avars)
<1>1. ASSUME Available' = Available, Mode' = Mode
      PROVE  [Atomic!ANext]_(Atomic!avars)
  BY <1>1 DEF Atomic!avars, Mode
<1>2. ASSUME NEW p \in Producers, EnqueueCall(p) \/ Enqueue(p)
      PROVE  [Atomic!ANext]_(Atomic!avars)
  <2>1. CASE Post(p)
    BY <2>1, PostMaps DEF Atomic!ANext
  <2>2. CASE Push(p)
    BY <1>1, <2>2, PushStutters
  <2>3. CASE EnqueueCall(p) \/ EnqueueLock(p) \/ EnqueueUnlock(p)
    BY <1>1, <2>3, ProducerStutters
  <2>. QED  BY <1>2, <2>1, <2>2, <2>3 DEF Enqueue
<1>3. ASSUME NEW c \in Consumers, DequeueCall(c) \/ Dequeue(c)
      PROVE  [Atomic!ANext]_(Atomic!avars)
  <2>1. CASE DequeueCall(c)
    BY <2>1, CallMaps DEF Atomic!ANext
  <2>2. CASE SemWait(c)
    BY <2>2, SemWaitMaps DEF Atomic!ANext
  <2>3. CASE SemBlock(c)
    BY <2>3, SemBlockMaps DEF Atomic!ANext
  <2>4. CASE SemTimeout(c)
    BY <2>4, SemTimeoutMaps DEF Atomic!ANext
  <2>5. CASE DequeueReturn(c)
    BY <2>5, ReturnMaps DEF Atomic!ANext
  <2>6. CASE DequeueClockError(c)
    BY <2>6, ClockErrorMaps DEF Atomic!ANext
  <2>9. CASE DequeueClock(c)
    BY <2>9, ClockMaps DEF Atomic!ANext
  <2>7. CASE DequeueLock(c)
    BY <1>1, <2>7, DequeueLockStutters
  <2>8. CASE Pop(c)
    BY <1>1, <2>8, PopStutters
  <2>. QED  BY <1>3, <2>1, <2>2, <2>3, <2>4, <2>5, <2>6, <2>7, <2>8, <2>9 DEF Dequeue
<1>4. CASE UNCHANGED vars
  BY <1>1, <1>4 DEF vars, Available, Reserved, Mode, CallMode
<1>. QED  BY <1>2, <1>3, <1>4 DEF Next

(***************************************************************************)
(* The class implements the one-step queue that ChatServer is modelled     *)
(* against: an enqueue adds at its sem_post, a dequeue takes when it       *)
(* passes sem_timedwait, and returns nothing only if it found the queue    *)
(* empty, or could not read the clock.                                     *)
(***************************************************************************)
THEOREM QueueIsAtomic == Spec => ImplementsAtomicQueue
<1>1. Init => Atomic!AInit
  BY InitMaps
<1>2. IInv /\ [Next]_vars => [Atomic!ANext]_(Atomic!avars)
  BY StepMaps
<1>. QED
  BY <1>1, <1>2, Invariance, PTL DEF Spec, ImplementsAtomicQueue, Atomic!ASpec
===============================================================================
