SPECIFICATION FairSpec
CONSTANTS
  Conns = {c1, c2}
  listenfd = listenfd
  BUF_SIZE = 2
  EPOLL_SIZE = 3
  WINDOW = 2
  MaxBytes = 3
  MaxClients = 3
  Abrupt = TRUE
CHECK_DEADLOCK FALSE
INVARIANTS
  TypeOK
  BatchReadable
  NothingStranded
PROPERTIES
  EndSeen
  AllAccepted
