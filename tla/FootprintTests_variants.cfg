SPECIFICATION FootprintSpec
CONSTANTS
  cb = cb  null = null
  TRIALS = 3
  MaxEvents = 6
  OnEvent <- cb
  NoCallback <- null
INVARIANT ScannedAtRest
INVARIANT PassMeansNobody
CHECK_DEADLOCK FALSE
