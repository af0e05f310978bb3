SPECIFICATION Spec
CONSTANTS
  None = None
  Kinds = {"plain"}
  MaxRecords = 3
  EndInclusive = FALSE
  Extras = {0}
  MaxPageSize = 3
  MappedTimespans = {}
  Providers = {"gdelt"}
  Counts = {1, 3, 6}
  PageSizes = {1, 2, 4}
  Timespans = {1, 3}
  InitNow = 3
  MaxNow = 3
  MaxInitFeed = 4
  MaxFeed = 5
  InitFeeds <- OrderedFeeds
INVARIANTS
  LookBackHonoured
CHECK_DEADLOCK FALSE
