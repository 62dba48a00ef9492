SPECIFICATION Spec
CONSTANTS
  NoPid = NoPid
  Leaked = Leaked
  Pids = {p1, p2, p3}
  USER_LIMIT = 2
  BACKLOG = 1
  FD_LIMIT = 6
  SIG_CAP = 1
  SIG_READ = 1
  PIPE_CAP = 1
  Interrupted = FALSE
  Faults = {"accept", "fork"}
CHECK_DEADLOCK FALSE
SYMMETRY Symmetry
INVARIANTS
  TableConsistent
  ChannelsMatch
  SlotAtOrAboveIndex
PROPERTIES
  RosterSpec
