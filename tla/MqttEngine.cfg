SPECIFICATION FairSpec
CONSTANTS
  NFilters = 2
  Messages = {m1, m2, bad}
  Invalid = {bad}
  Commands = {c1, c2}
  Capacity = 2
  IngressCapacity = 1
  CommandCapacity = 1
  MinDelay = 2
  MaxDelay = 5
  MaxFailures = 3
  MaxConnects = 2
  None = none
INVARIANTS
  IngressAccounted
  NoFilterForgotten
  BackoffDoubles
PROPERTY ShutdownCompletes
CHECK_DEADLOCK FALSE
