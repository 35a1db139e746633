SPECIFICATION LifecycleFairSpec
CONSTANTS
  cb1 = cb1  null = null
  Suites <- BothTests
  Drivers <- AllDrivers
  EVENT_CAPACITY = 2
  WrongEvents <- Wrong
  MaxResults = 1
  MaxCommands = 1
  OnEvent <- cb1
  NoCallback <- null
INVARIANT PassMeansKept
INVARIANT NoFalseAlarm
INVARIANT SharedDataOwned
PROPERTY NobodyStaysHeld
CHECK_DEADLOCK FALSE
