SPECIFICATION Spec
CONSTANTS
  FD_LIMIT = 2
  MaxUnread = 1
  MaxClients = 3
CHECK_DEADLOCK FALSE
PROPERTY CarriesOwnData
