SPECIFICATION Spec
CONSTANTS
  cb = cb  null = null
  max_templates = 3
  PAGE_IDS = 2
  STAGED_TEST_SLOTS = 2
  EVENT_CAPACITY = 2
  SampleCounts <- Devices
  MaxRuns = 2
  OnEvent <- cb
  NoCallback <- null
INVARIANT OnlyOwnDeleted
INVARIANT NextRunIsSafe
INVARIANT EnrollmentIsOver
CHECK_DEADLOCK FALSE
