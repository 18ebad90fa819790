SPECIFICATION FairSpec
CONSTANTS
  ApiCommands = {a1, a2}
  RuleCommands = {b1}
  QueueCapacity = 2
  BusCapacity = 1
  OutcomeCapacity = 1
  StorageFaults = TRUE
  Stops = TRUE
  None = none
INVARIANTS
  WriteAheadAudit
  StatusTruthful
  PublishedOnce
  OrderPreserved
  NoSilentLoss
  NoOrphans
PROPERTIES
  ResultFinal
  AcceptedSettles
CHECK_DEADLOCK FALSE
