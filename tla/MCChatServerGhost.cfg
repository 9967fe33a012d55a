\* A receiver that goes: its thread should end.
CONSTANTS
  s1 = s1
  r2 = r2
  Senders = {s1}
  Receivers = {r1}
  RoomNames = {a}
  UserName <- Name
  MaxRequests = 2
  NoRoom = NoRoom
  NoSession = NoSession
  NoMessage = NoMessage
SPECIFICATION FairSpec
PROPERTIES
  DepartedReceiverEnds
