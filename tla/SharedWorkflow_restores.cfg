SPECIFICATION Spec
CONSTANTS
  cb = cb  null = null
  max_templates = 2
  SampleCounts <- ManagedOrStaged
  QueueSize = 1
  MaxRuns = 2
  OnEvent <- cb
  NoCallback <- null
INVARIANT UserTemplatesSurvive
INVARIANT PassMeansRestored
INVARIANT NoControlUnlessIdle
INVARIANT EventsAccounted
CHECK_DEADLOCK FALSE
