SPECIFICATION Spec
CONSTANTS
  Tests = {t1, t2, t3}
  Transports = {"subprocess", "http", "unix", "tcp"}
  MaxPolls = 2
INVARIANTS
  TypeOK
  GreenMeansTested
  PassIsGreen
  OnlyTheMock
  WorkerReaped
PROPERTY
  HarnessEnds
CHECK_DEADLOCK FALSE
