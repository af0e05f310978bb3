SPECIFICATION Spec
CONSTANTS
  None = None
  Unresolved = Unresolved
  Queries <- WrittenQueries
  Written <- WrittenNames
  Timespans = {"understood", "other", "huge", "superscript"}
  Secrets <- SomeSecrets
  MaxArticles = 1
  Bodies <- SomeBodies
INVARIANTS
  TypeOK
  KeyIsTheUsers
  ApiKeySuffices
  DiscoveryIsTrue
PROPERTIES
  BoundIsAccepted
  BindEnds
CHECK_DEADLOCK FALSE
