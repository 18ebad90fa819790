SPECIFICATION FairSpec
CONSTANTS
  NFilters = 1
  Messages = {m1}
  Invalid = {}
  Commands = {c1, c2}
  Capacity = 2
  IngressCapacity = 1
  CommandCapacity = 1
  MinDelay = 2
  MaxDelay = 5
  MaxFailures = 1
  MaxConnects = 2
  None = none
PROPERTY SubscriptionsRegistered
CHECK_DEADLOCK FALSE
