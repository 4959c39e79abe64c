SPECIFICATION FairSpec
CONSTANTS
  MemberCount = 3
  RunCount = 3
  BundlePlans <- Plans
  SingleKeys = {"files"}
  MissionTypes = {"mission", "fence"}
  Vehicles = {1, 2, 3}
  Headless = {2}
  Lists <- FewLists
  MaxInputs = 1
  LeaderShapes = {"grid"}
CHECK_DEADLOCK FALSE
INVARIANTS
  FanOutIsTrue
  OperationsAreTrue
PROPERTIES
  SendsAreMeant
  FormationsHold
  RunsEnd
