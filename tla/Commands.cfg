SPECIFICATION FairSpec
CONSTANTS
  None = None
  NaN = NaN
  TimeoutMs = 2
  RetryInterval = 1
  MaxRetries = 2
  SendMayThrow = TRUE
  Inputs = {i1, i2, i3}
  BadIdentity = {i3}
  PayloadNodes = {p1, p2}
  ParamNodes = {q}
  Cameras = {camera}
  MaxInputs = 3
  Altitudes = {20, 28, 12}
  Homes <- FewHomes
  Heights <- FewHeights
  ModeNames = {"hold", "land", "position", "nowhere"}
  Caches = {{}, {1}, {1, 2, 3}}
  ArduPilotModes <- FewArduPilotModes
  PX4_MODES <- FewPX4Modes
  PublishedModes <- FewPublished
  Configs <- FewConfigs
  Payloads <- FewPayloads
CHECK_DEADLOCK FALSE
INVARIANTS
  WaitIsSound
  OutcomesAreTold
  CompletionIsTrue
  PayloadsAreAsShown
PROPERTIES
  OnlyNewestGoesOn
  CommandsEnd
