\* A sender and two receivers, one of its own name, in two rooms.
CONSTANTS
  s1 = s1
  r2 = r2
  Senders = {s1}
  Receivers = {r1, r2}
  RoomNames = {a, b}
  UserName <- Name
  MaxRequests = 2
  NoRoom = NoRoom
  NoSession = NoSession
  NoMessage = NoMessage
SPECIFICATION Spec
PROPERTIES
  ImplementsGroupChat
INVARIANTS
  OneRoomPerName
  MembershipMatchesSession
SYMMETRY RoomSymmetry
