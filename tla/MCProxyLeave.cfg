SPECIFICATION Spec
CONSTANTS
  Conns = {k1}
  Chunks <- Queries
  Torn = Torn
  Nothing = Nothing
  MaxSent = 2
  MaxParts = 1
PROPERTY AppCloseTearsDown
CHECK_DEADLOCK FALSE
