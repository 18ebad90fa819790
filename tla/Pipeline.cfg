CONSTANTS
  Conditions <- MCConditions
  MaxConditionDepth = 3
  MaxConditionNodes = 6
  MaxActions = 7
  MaxPayload = 12
  MaxTopic = 8
  MaxPayloadSize = 6
  MaxRawSize = 4
  MaxJsonDepth = 4
  MaxFields = 2
  RetainRaw = TRUE
  RequireHttps = TRUE
  MinTimeout = 1
  Configs <- MCConfigs
  Messages <- MCMessages
  MaxMessages = 2
  MaxIntents = 8
  MaxMetadataEntries = 1
  MaxBody = 3
  ForwardCapacity = 1
  CommandCapacity = 1
SPECIFICATION Spec
INVARIANTS
  FirstRouteWins
  DispatchAccounts
  ReferencesResolve
  RenderingSubstitutes
  StartRefusals
CHECK_DEADLOCK FALSE
