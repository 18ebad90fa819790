SPECIFICATION RealtimeSpec
CONSTANTS
  Events <- MCEvents
  Filters <- MCFilters
  Requests <- MCRequests
  ChannelCapacity = 1
  ClientBuffer = 1
  MaxCommandPayload = 1
  MaxInputs = 2
PROPERTY SlowClientClosed
CHECK_DEADLOCK FALSE
