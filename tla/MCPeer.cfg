SPECIFICATION Spec
CONSTANTS
  MaxMake = 1000000
  Messages <- MCMessages
INVARIANTS TypeOK RoundTrip CutShort PanicsAreKnown BitmapCovers
CHECK_DEADLOCK FALSE
