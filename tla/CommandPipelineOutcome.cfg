SPECIFICATION Spec
CONSTANTS
  ApiCommands = {a1, a2}
  RuleCommands = {b1}
  QueueCapacity = 1
  BusCapacity = 1
  OutcomeCapacity = 3
  StorageFaults = FALSE
  Stops = TRUE
  None = none
SYMMETRY Symmetry
INVARIANT OutcomeReported
CHECK_DEADLOCK FALSE
