SPECIFICATION FairSpec
CONSTANTS
  Requests = {r1}
  Writers = {w1}
  QueueCapacity = 1
  MaxInFlight = 1
  OutcomeCapacity = 1
  PersistCapacity = 1
  Storages = {TRUE}
  None = none
PROPERTY FailedIsRetried
CHECK_DEADLOCK FALSE
