\* Two senders and a receiver, each with a name of its own, share a room.
CONSTANTS
  s1 = s1
  r2 = r2
  Senders = {s1, s2}
  Receivers = {r1}
  RoomNames = {a}
  UserName <- Name
  MaxRequests = 2
  NoRoom = NoRoom
  NoSession = NoSession
  NoMessage = NoMessage
SPECIFICATION Spec
INVARIANTS
  TypeOK
  LockInv
  DeliveryStream
PROPERTIES
  NoEnqueueAfterExit
