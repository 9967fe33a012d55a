\* Everything a user may type.
CONSTANTS
  Logins <- AllLogins
  Lines <- AllLines
  MaxSends = 3
SPECIFICATION FairSpec
INVARIANTS
  TypeOK
  ReplyAnswersRequest
  RoomAsBelieved
PROPERTIES
  WaitEnds
  SessionEnds
