SPECIFICATION Spec
CONSTANT None = None
CONSTANT Empty = Empty
CONSTANT NaN = NaN
INVARIANT BundlesAreRight
INVARIANT DefinitionsAreWhole
INVARIANT DialogsAreSound
PROPERTY DeploysArePinned
CHECK_DEADLOCK FALSE
