SPECIFICATION Spec
CONSTANTS
  None = None
  Kinds = {"plain"}
  MaxRecords = 3
  EndInclusive = FALSE
  Extras = {0}
  MaxPageSize = 3
  MappedTimespans = {}
  Providers = {"newsapi"}
  Counts = {3}
  PageSizes = {2}
  Timespans = {1, 3}
  InitNow = 3
  MaxNow = 3
  MaxInitFeed = 4
  MaxFeed = 5
  InitFeeds <- OrderedFeeds
INVARIANTS
  NewsApiNoDuplicate
CHECK_DEADLOCK FALSE
