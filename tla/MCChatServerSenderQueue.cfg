\* Two senders in a room, and nobody to dequeue for them.
CONSTANTS
  s1 = s1
  r2 = r2
  Senders = {s1, s2}
  Receivers = {}
  RoomNames = {a}
  UserName <- Name
  MaxRequests = 2
  NoRoom = NoRoom
  NoSession = NoSession
  NoMessage = NoMessage
SPECIFICATION Spec
INVARIANTS
  OnlyReceiversQueue
