SPECIFICATION FairSpec
CONSTANTS
  Requests = {r1, r2}
  Writers = {w1, w2}
  QueueCapacity = 1
  MaxInFlight = 1
  OutcomeCapacity = 1
  PersistCapacity = 1
  Storages = {TRUE, FALSE}
  None = none
INVARIANTS
  ForwarderAccounts
  PersistenceAccounts
  RowsTruthful
  StoppedIsQuiet
PROPERTIES
  NoLateCall
  RequestsSettle
CHECK_DEADLOCK FALSE
