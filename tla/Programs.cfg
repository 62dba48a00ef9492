SPECIFICATION ProgramsSpec
CONSTANTS
  Pids = {p1, p2}
  Conns = {c1, c2, c3}
  FD_LIMIT = 2
  Faults = {"accept", "fork"}
  NCHILD = 5
  Threads = {t1, t2, t3}
  Zero = Zero
  BUF_SIZE = 2
  MaxBytes = 5
  SELECT_LIMIT = 3
  SELECT_BUF = 1
  WINDOW = 1
  SelectBytes = 2
  MaxClients = 4
  MaxGone = 1
CHECK_DEADLOCK FALSE
INVARIANTS
  NoZombieForgotten
  NeverOutOfDescriptors
  AnswerRight
  HolderClearedAtEnd
  OutcomeRight
  ScanRight
PROPERTIES
  ClientSeesEnd
  ChildrenReaped
  InputRead
  AllServed
