SPECIFICATION Spec
CONSTANTS
  NoPid = NoPid
  Leaked = Leaked
  Pids = {p1, p2}
  USER_LIMIT = 2
  BACKLOG = 1
  FD_LIMIT = 4
  SIG_CAP = 1
  SIG_READ = 1
  PIPE_CAP = 0
  Interrupted = FALSE
  Faults = {"fork"}
CHECK_DEADLOCK FALSE
SYMMETRY Symmetry
INVARIANTS
  NoAbort
