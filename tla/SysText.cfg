SPECIFICATION ShmFairSpec
CONSTANTS
  NoPid = NoPid
  Leaked = Leaked
  Pids = {p1, p2}
  USER_LIMIT = 2
  BACKLOG = 1
  FD_LIMIT = 4
  SIG_CAP = 1
  SIG_READ = 1
  PIPE_CAP = 2
  Interrupted = FALSE
  Faults = {}
  RECV_CAP = 1
  MaxClients = 2
  Talkers = {p1}
  Chunks = 2
CHECK_DEADLOCK FALSE
PROPERTIES
  LatestTextSeen
  LeaverEnds
  StaysHeard
