SPECIFICATION SpecLog
CHECK_DEADLOCK FALSE
CONSTANTS
  Writers = {w1, w2}
  Events = {"ingest", "reconcile"}
  MaxLines = 4
  MaxTears = 2
INVARIANTS
  LogTypeOK
  SerialAppendsVerify
  VerifiedChainLostNothing
PROPERTY
  BrokenForever
