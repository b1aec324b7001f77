SPECIFICATION Spec
CONSTANTS
  Readers = {r1, r2}
  Requested = {"/", "/css", "/js/vue.min.js", "/absent"}
  Corrupt = {"/js/vue.min.js"}
  NoFile = "-"
  Databases = {"other"}
  Default = "default"
  MaxRows = 2
  Conns = {k1}
  Chunks <- Bytes
  MaxRequests = 2
INVARIANTS TypeOK AssetWholeOrError AnswerSound AnnouncedListens CrashesKnown
PROPERTY AssetsAnswered
CHECK_DEADLOCK FALSE
