SPECIFICATION Spec
CONSTANTS
  None = None
  Kinds = {"plain", "undated"}
  MaxRecords = 3
  EndInclusive = TRUE
  Extras = {0}
  MaxPageSize = 2
  MappedTimespans = {1}
  Providers = {"gdelt", "newsapi"}
  Counts = {4, 5}
  PageSizes = {1, 2, 4}
  Timespans = {1, 2}
  InitNow = 2
  MaxNow = 3
  MaxInitFeed = 3
  MaxFeed = 5
  InitFeeds <- OrderedFeeds
INVARIANTS
  TypeOK
  NoGap
  CompleteWhenShort
  PagesDisjoint
  NewsApiLookBack
PROPERTIES
  CursorMoves
  ScanEnds
CHECK_DEADLOCK FALSE
