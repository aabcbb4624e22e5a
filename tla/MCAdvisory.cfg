SPECIFICATION Spec
CHECK_DEADLOCK FALSE
CONSTANTS
  RunLengths = {0, 1, 2}
INVARIANTS
  AnnotatedUpToHere
  CountedAnswersAreReal
PROPERTY
  EveryCallEnds
