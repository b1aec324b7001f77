SPECIFICATION Spec
CONSTANTS
  Sockets = {1, 2}
  Others = {3}
  Queries = {"q"}
  ConnOf <- OneConn
  Texts = {{"q"}, {}}
  MaxLog = 3
  NoBackup = NoBackup
  NoSocket = NoSocket
INVARIANTS TypeOK UnfilteredView CountCovers StatusIsTrue
PROPERTY SettledStays
CHECK_DEADLOCK FALSE
