SPECIFICATION Spec
CHECK_DEADLOCK FALSE
CONSTANTS
  RunLengths = {1}
INVARIANT
  UnavailableMeansNone
