SPECIFICATION FairSpec
CONSTANTS
  c1 = c1  c2 = c2  w = w  none = none  cb1 = cb1  null = null
  Callers <- OneCaller
  Worker <- w
  NoThread <- none
  Callbacks <- OneCallback
  NoCallback <- null
  RxCapacity = 1
  DeviceStatuses <- ResultOrFailure
PROPERTY CallsReturn
PROPERTY SingleEnds
