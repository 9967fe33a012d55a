\* Two senders, a receiver, a descriptor table that the three would overfill.
CONSTANTS
  s1 = s1
  s2 = s2
  r1 = r1
  v4 = v4
  v6 = v6
  Clients <- TheClients
  Senders <- TheSenders
  Addrs <- TheAddrs
  Passive <- Lists
  Resolved <- Lists
  OPEN_MAX = 6
  LISTENQ = 2
SPECIFICATION FairSpec
INVARIANTS
  TypeOK
  OneOwner
  ServerOutlivesThreads
PROPERTIES
  FindsServer
  DepartedFreesDescriptor
