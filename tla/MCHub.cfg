SPECIFICATION Safety
CONSTANTS
  Clients = {c1, c2, c3}
  Senders = {s1}
  Msgs = {m1, m2}
  NoData = NoData
  NoClient = NoClient
  MaxFeed = 3
SYMMETRY Symmetry
INVARIANTS TypeOK NoUseAfterClose GapFree CaughtUp BoundedLag
PROPERTIES StuckForever BroadcastSpec
CHECK_DEADLOCK FALSE
