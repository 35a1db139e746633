SPECIFICATION Spec
CONSTANTS
  t1 = t1  t2 = t2  f1 = f1  f2 = f2
  Callers <- TwoCallers
  max_templates = 2
  MaxCount = 1
  Fingers <- TwoFingers
  Interleaved = FALSE
  Scores <- TwoScores
  Thresholds <- SomeThresholds
  Levels <- SomeLevels
SYMMETRY Symmetry
INVARIANT StoredIsSampled
PROPERTY MatchIsReal
PROPERTY StoreContract
