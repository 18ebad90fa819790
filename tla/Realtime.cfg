SPECIFICATION RealtimeSpec
CONSTANTS
  Events <- MCEvents
  Filters <- MCFilters
  Requests <- MCRequests
  ChannelCapacity = 1
  ClientBuffer = 1
  MaxCommandPayload = 1
  MaxInputs = 4
INVARIANTS
  StreamAccounts
  FilterHonoured
PROPERTY StreamsEnd
CHECK_DEADLOCK FALSE
