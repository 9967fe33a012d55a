\* A sender and a receiver, which may stop reading at any time.
CONSTANTS
  s1 = s1
  r2 = r2
  Senders = {s1}
  Receivers = {r1}
  RoomNames = {a}
  UserName <- Name
  MaxRequests = 3
  NoRoom = NoRoom
  NoSession = NoSession
  NoMessage = NoMessage
SPECIFICATION FairSpec
PROPERTIES
  BroadcastCompletes
  DepartedSenderEnds
  BackloggedReceiverEnds
  QueuedIsWritten
