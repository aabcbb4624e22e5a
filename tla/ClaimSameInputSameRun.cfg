SPECIFICATION Spec
CONSTANTS
  r1 = r1
  r2 = r2
  t1 = t1
  t2 = t2
  streamlit = streamlit
  demo = demo
  upload = upload
  k1 = k1
  none = none
  Writers <- MCWriters
  MaxTears = 1
  Tenants <- MCTenants
  NoTenant = streamlit
  Payloads <- MCPayloads
  Keys <- MCKeys
  NoKey = none
  ExceptionCount <- MCExceptionCount
  MaxCrashes = 1
INVARIANT
  SameInputSameRun
CHECK_DEADLOCK FALSE
