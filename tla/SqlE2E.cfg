SPECIFICATION E2ESpec
CONSTANTS
  None = None
  Kinds = {"plain"}
  MaxRecords = 250
  EndInclusive = FALSE
  Extras = {0}
  MaxPageSize = 100
  MappedTimespans = {1}
  Providers = {"gdelt", "newsapi"}
  Counts = {1, 2, 3, 25}
  PageSizes = {1, 2, 5, 50}
  Timespans = {1}
  InitNow = 3
  MaxNow = 3
  MaxFeed = 3
  InitFeeds = {}
INVARIANTS
  SuiteIsRight
  SuiteTells
  NoNetwork
CHECK_DEADLOCK FALSE
