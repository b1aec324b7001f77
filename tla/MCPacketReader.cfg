SPECIFICATION Spec
CONSTANTS
  MaxCalls = 2
  MaxCount = 2
INVARIANTS TypeOK OneResponse WaitsOnlyFor PanicsAreKnown HandshakeRelayed
PROPERTY CutEnds
CHECK_DEADLOCK FALSE
