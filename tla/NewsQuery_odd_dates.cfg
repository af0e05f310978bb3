SPECIFICATION Spec
CONSTANTS
  None = None
  Unresolved = Unresolved
  Queries <- PlainQueries
  Written <- WrittenNames
  Timespans = {"understood"}
  Secrets <- SomeSecrets
  MaxArticles = 1
  Bodies <- SomeBodies
INVARIANT OddDatesDoNoHarm
CHECK_DEADLOCK FALSE
