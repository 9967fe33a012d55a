\* Messages of any length, cut in any way; the reader keeps calling receive.
CONSTANTS
  MAX_LEN = 5
  RIO_BUFSIZE = 3
  SocketSize = 4
  Messages <- AllMessages
  MaxSends = 2
SPECIFICATION FairSpec
INVARIANTS
  TypeOK
  StreamPreserved
  RoundTrip
PROPERTIES
  SendReturns
  EverythingParsed
