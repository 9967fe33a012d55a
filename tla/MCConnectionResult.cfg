\* What m_last_result says after a call.
CONSTANTS
  MAX_LEN = 5
  RIO_BUFSIZE = 3
  SocketSize = 4
  Messages <- ShortMessages
  MaxSends = 2
SPECIFICATION Spec
INVARIANTS
  ResultOfLastCall
