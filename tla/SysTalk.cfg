SPECIFICATION ShmSpec
CONSTANTS
  NoPid = NoPid
  Leaked = Leaked
  Pids = {p1, p2}
  USER_LIMIT = 2
  BACKLOG = 1
  FD_LIMIT = 4
  SIG_CAP = 1
  SIG_READ = 1
  PIPE_CAP = 1
  Interrupted = FALSE
  Faults = {}
  RECV_CAP = 1
  MaxClients = 3
  Talkers = {p1, p2}
  Chunks = 1
CHECK_DEADLOCK FALSE
SYMMETRY Symmetry
INVARIANTS
  ShmTypeOK
  BlankIsBrief
  NoSelfNotify
PROPERTIES
  OwnTextIfShared
  TextStaysAnnounced
