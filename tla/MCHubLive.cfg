SPECIFICATION Spec
CONSTANTS
  Clients = {c1, c2}
  Senders = {s1}
  Msgs = {m1}
  NoData = NoData
  NoClient = NoClient
  MaxFeed = 2
PROPERTIES PublishCompletesUnlessStuck PeerLeavesForgotten RoundsArrive
CHECK_DEADLOCK FALSE
