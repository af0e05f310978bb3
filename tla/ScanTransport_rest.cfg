SPECIFICATION TransportSpec
CONSTANTS
  None = None
  Kinds = {"plain"}
  MaxRecords = 3
  EndInclusive = TRUE
  Extras = {0}
  MaxPageSize = 2
  MappedTimespans = {1}
  Providers = {"gdelt", "newsapi"}
  Counts = {2, 4}
  PageSizes = {1, 2}
  Timespans = {1, 2}
  InitNow = 2
  MaxNow = 2
  MaxInitFeed = 4
  MaxFeed = 0
  MaxLosses = 2
  InitFeeds <- OrderedFeeds
PROPERTY
  LossesLeaveNoTrace
CHECK_DEADLOCK FALSE
