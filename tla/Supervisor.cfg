SPECIFICATION FairSpec
CONSTANTS
  Requests = {r1, r2, r3}
  Boot = boot
  None = none
  MaxVersion = 2
INVARIANTS
  AtMostOneRuntime
  RunningHasRuntime
  AuditNamesActiveVersion
  NoDowngrade
  ReloadingHasWorker
PROPERTIES
  StoppedForGood
  ShutdownNotStarved
  ReloadAnswered
CHECK_DEADLOCK FALSE
