SPECIFICATION MovesSpec
CONSTANTS
  Undefined = Undefined
  Blank = Blank
  NaN = NaN
  MaxEdits = 3
INVARIANT FormIsWhatFlies
CHECK_DEADLOCK FALSE
