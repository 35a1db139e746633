SPECIFICATION FairSpec
CONSTANTS
  t1 = t1  t2 = t2
  Callers <- TwoCallers
  MaxTemplates = 2
  MaxCount = 2
  Pieces = 2
  Polls = 1
  Late = 0
  Faults <- Losing
INVARIANT ImageIsOwn
PROPERTY ListIsExact
PROPERTY DeleteIsDone
PROPERTY StoreContract
PROPERTY CallsReturn
