SPECIFICATION Spec
CHECK_DEADLOCK FALSE
CONSTANTS
  ApiUploads = {u1}
  f1 = f1
  f2 = f2
  AppUploads <- MCAppUploads
  Payloads <- MCPayloads
  Demo = demo
  NoDataset = none
SYMMETRY Symmetry
INVARIANTS
  AcceptedIsComplete
  ShownRunIsOfTheDataset
