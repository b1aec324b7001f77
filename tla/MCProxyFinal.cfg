SPECIFICATION EstablishedSafety
CONSTANTS
  Conns = {k1}
  Chunks <- Queries
  Torn = Torn
  Nothing = Nothing
  MaxSent = 3
  MaxParts = 1
INVARIANT FinishedIsFinal
CHECK_DEADLOCK FALSE
