SPECIFICATION Spec
CONSTANTS
  SLOTS = 3
  FD_LIMIT = 4
  BUF_SIZE = 1
  WINDOW = 1
  MaxBytes = 2
  MaxClients = 4
  MaxGone = 1
CHECK_DEADLOCK FALSE
INVARIANT MaxiIsLength
