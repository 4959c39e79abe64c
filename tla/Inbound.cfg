SPECIFICATION FairSpec
CONSTANTS
  None = None
  Messages <- FewMessages
  Bags <- FewBags
  Parameters <- FewParameters
  Blank = Blank
  NaN = NaN
  e1 = e1
  e2 = e2
  Kinds <- EveryKind
  Addresses = {e1, e2}
  MaxSockets = 3
  WriteIds = {w1, w2, w3}
  Senders = {e1, e2, e3}
  Datagrams <- FewDatagrams
  MaxDecoders = 2
  MaxPending = 2
  IdleMs = 1
  MaxHeard = 2
  MaxFailures = 1
  Sweeps = {"udp"}
  Frames <- FewFrames
  Filters <- FewFilters
  Own <- Ourselves
  MaxSubs = 3
  MaxFrames = 1
  Arrivals <- FewArrivals
  Configs <- FewConfigs
  Second = 2
  StatusMs = 2
  MaxNow = 2
  MaxOut = 3
CHECK_DEADLOCK FALSE
INVARIANTS
  TransportIsTrue
  StreamsAreTheirOwn
  TrustIsEarned
  PassesOnAsConfigured
  FramesMeanTheSame
PROPERTIES
  PartialsOutliveChurn
  DispatchIsExact
  EverythingIsReleased
