SPECIFICATION EstablishedSafety
CONSTANTS
  Conns = {k1}
  Chunks <- Commands
  Torn = Torn
  Nothing = Nothing
  MaxSent = 4
  MaxParts = 1
INVARIANTS NoCmdLost AttributionWindow EarlierCmdsFirst IdsInOrder
CHECK_DEADLOCK FALSE
