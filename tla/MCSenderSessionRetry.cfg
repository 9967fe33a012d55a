\* The replies to an invalid message.
CONSTANTS
  Logins <- AllLogins
  Lines <- AllLines
  MaxSends = 3
SPECIFICATION Spec
INVARIANTS
  OneReplyPerRequest
