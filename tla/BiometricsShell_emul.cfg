SPECIFICATION ShellSpec
CONSTANTS
  t1 = t1  t2 = t2  s1 = s1  s2 = s2  nobody = nobody
  Callers <- TwoCallers
  Slots <- TwoSlots
  UINT16_MAX = 3
  Ids <- SomeIds
  Arguments <- AroundTheRange
  NoOne <- nobody
  Samples = 2
  BufferSamples = 3
  Settings <- SomeSettings
SYMMETRY CallersAndSlots
INVARIANT TemplateIsOwn
PROPERTY CompleteIsStored
PROPERTY LeftOpenWhenFull
PROPERTY StoreContract
