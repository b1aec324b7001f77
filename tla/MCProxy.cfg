SPECIFICATION Spec
CONSTANTS
  Conns = {k1}
  Chunks <- Session
  Torn = Torn
  Nothing = Nothing
  MaxSent = 2
  MaxParts = 2
INVARIANTS TypeOK AnswersReportedOnce
PROPERTIES ServerCloseTearsDown ForwardedIsReported
CHECK_DEADLOCK FALSE
