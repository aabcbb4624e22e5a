SPECIFICATION Spec
CHECK_DEADLOCK FALSE
CONSTANTS
  s1 = s1
  s2 = s2
  s3 = s3
  demo = demo
  upload = upload
  Sessions <- MCSessions
  Datasets = {demo, upload}
  ExceptionCount <- MCExceptionCount
SYMMETRY Symmetry
INVARIANTS
  WholeUnlessOverlapped
  TransactionHasOwner
