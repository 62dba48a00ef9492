SPECIFICATION FairSpec
CONSTANTS
  SLOTS = 3
  FD_LIMIT = 4
  BUF_SIZE = 1
  WINDOW = 1
  MaxBytes = 2
  MaxClients = 5
  MaxGone = 1
CHECK_DEADLOCK FALSE
INVARIANTS
  TypeOK
  TableMatchesSet
  NreadyCounts
PROPERTY ServedBelowMaxi
