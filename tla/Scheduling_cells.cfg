SPECIFICATION FairSpec
CONSTANTS
  cb = cb  null = null
  JOBS = 2
  TICK_LIMIT = 2
  Modes <- BothTests
  Groups = 2
  MaxOps = 2
  MaxRuns = 2
  OnEvent <- cb
  NoCallback <- null
INVARIANT WorkersDrained
INVARIANT ReportIsTrue
PROPERTY HelpersReturn
CHECK_DEADLOCK FALSE
