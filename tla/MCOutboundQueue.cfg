SPECIFICATION Spec
CONSTANTS
  id1 = id1
  id2 = id2
  hb = hb
  sp = sp
  t1 = t1
  v1 = v1
  v2 = v2
  NoItem = NoItem
  Requests <- MCRequests
  Capacity <- MCCapacity
  AgeStep = 1
  ClockMayStepBack = FALSE
  MaxSeq = 5
  MaxNow = 2
INVARIANTS
  IInv
  SelectionIsGlobal
PROPERTIES
  AgedIsNotOvertaken
  NothingLostSilently
  UrgentFirst
  ImplementsScheduler
