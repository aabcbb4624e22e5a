SPECIFICATION Spec
CHECK_DEADLOCK FALSE
CONSTANTS
  Utrs <- MCUtrs
  Upper <- MCUpper
  NoUtr = "-"
  Narrations <- MCNarrations
  Token <- MCToken
  Ratio <- MCRatio
  SettlementIds = {"s1", "s2", "s3"}
  OrderIds = {"o1", "o2"}
  NoOrder = "-"
  Blank = Blank
  LegacySections = {"194C", "194J", "194Z"}
  PaymentCodes = {"1023", "1026", "9999"}
  NoCode = "-"
  CodeMap <- MCCodeMap
  RateWithPan <- MCRateWithPan
  RateNoPan <- MCRateNoPan
  ReviewThreshold = 2100
  AmbiguityMargin = 150
  Inputs <- AccountingInputs
INVARIANT
  TdsFindingFlagsTheSettlement
