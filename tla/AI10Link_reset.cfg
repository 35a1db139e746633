SPECIFICATION Spec
CONSTANTS
  i1 = i1  i2 = i2  i3 = i3
  Ids <- ThreeIds
  PageSize = 1
  MaxCount = 2
  RingFrames = 2
  Slack = 0
  Faults <- AnyFault
  Numbers <- SomeNumbers
SYMMETRY SymmetricIds
INVARIANT ReplyIsFresh
INVARIANT AnswersAreTrue
INVARIANT ListIsComplete
INVARIANT QuietWhenDone
