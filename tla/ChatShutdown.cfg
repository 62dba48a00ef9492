SPECIFICATION Spec
CONSTANTS
  NoPid = NoPid
  Leaked = Leaked
  Pids = {p1, p2, p3}
  USER_LIMIT = 2
  BACKLOG = 2
  FD_LIMIT = 4
  SIG_CAP = 2
  SIG_READ = 1
  PIPE_CAP = 0
  Interrupted = TRUE
  Faults = {}
CHECK_DEADLOCK FALSE
SYMMETRY Symmetry
INVARIANTS
  KillOnlyOwn
  ExitLeavesAtMostOne
  NeverDeaf
  NoAbort
PROPERTIES
  StaysAnnounced
