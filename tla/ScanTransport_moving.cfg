SPECIFICATION TransportSpec
CONSTANTS
  None = None
  Kinds = {"plain", "undated"}
  MaxRecords = 3
  EndInclusive = FALSE
  Extras = {0, 1}
  MaxPageSize = 3
  MappedTimespans = {1}
  Providers = {"gdelt", "newsapi"}
  Counts = {3, 6}
  PageSizes = {1, 3}
  Timespans = {1, 3}
  InitNow = 3
  MaxNow = 4
  MaxInitFeed = 4
  MaxFeed = 5
  MaxLosses = 1
  InitFeeds <- OrderedFeeds
INVARIANTS
  TransportTypeOK
  CountHonoured
  NoDatedRepeat
  NoGap
  GapsOnlyAtEdges
  CompleteWhenShort
PROPERTIES
  KeepsContract
  CursorMoves
CHECK_DEADLOCK FALSE
