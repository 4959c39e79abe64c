SPECIFICATION Spec
CONSTANT None = None
CONSTANT Empty = Empty
CONSTANT NaN = NaN
PROPERTY ProfilesArePinned
CHECK_DEADLOCK FALSE
