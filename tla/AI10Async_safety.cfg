SPECIFICATION Spec
CONSTANTS
  c1 = c1  c2 = c2  w = w  none = none  cb1 = cb1  null = null
  Callers <- TwoCallers
  Worker <- w
  NoThread <- none
  Callbacks <- OneCallback
  NoCallback <- null
  RxCapacity = 1
  DeviceStatuses <- KindsOfStatus
INVARIANT UartExclusive
INVARIANT StopQuiescent
INVARIANT DoneMeansIdle
INVARIANT NoLostWakeup
PROPERTY EventContract
