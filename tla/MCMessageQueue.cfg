\* Two producers and two consumers share one queue and three messages.
CONSTANTS
  Producers = {p1, p2}
  Consumers = {c1, c2}
  Messages = {m1, m2, m3}
  NoThread = NoThread
  NullMsg = NullMsg
SPECIFICATION FairSpec
INVARIANTS
  TypeOK
  LockInv
  SemaphoreCount
  PopFindsMessage
  Fifo
PROPERTIES
  ImplementsAtomicQueue
  EnqueueReturns
  DequeueReturns
  EveryMessagePopped
