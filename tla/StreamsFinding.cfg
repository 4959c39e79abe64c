SPECIFICATION Spec
CONSTANTS
  Nodes = {n1}
  Targets = {t1}
  Kinds = {"global"}
  SendMayThrow = FALSE
  MaxStreams = 2
  MaxQueued = 2
  None = None
PROPERTIES
  BrakeIsFinal
