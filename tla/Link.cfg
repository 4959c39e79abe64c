SPECIFICATION Spec
CONSTANTS
  None = None
  Torn = Torn
  Endpoints = {a1, a2}
  Table <- BothKinds
  Fed <- OneVehicle
  Readings = {0, 1}
  Streams = {a1, a2}
  Sources = {b1, b2}
  HasKey = TRUE
  AcceptInvalid = TRUE
  UnitsPerTick = 2
  OneMinute = 1
  SequenceModulus = 2
  MaxClock = 2
  MaxStamp = 3
  MaxEmits = 2
  Nodes = {a1, a2}
  Targets = {b1, b2}
  Kinds = {"local", "attitude"}
  SendMayThrow = TRUE
  MaxStreams = 3
  MaxQueued = 1
  Requests <- OneOfEachBand
  Capacity <- SmallBands
  AgeStep = 1
  ClockMayStepBack = TRUE
  MaxSeq = 3
  MaxNow = 3
SYMMETRY Symmetry
CHECK_DEADLOCK FALSE
INVARIANTS
  PeersAreTrue
  ReplaysAndOnlyReplays
  StreamsOwnTheirTargets
PROPERTIES
  EmissionsAreOrdered
