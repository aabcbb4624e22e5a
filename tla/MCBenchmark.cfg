SPECIFICATION BenchmarkSpec
CHECK_DEADLOCK FALSE
CONSTANTS
  Utrs <- MCUtrs
  Upper <- MCUpper
  NoUtr = NoUtr
  Narrations <- MCNarrations
  Token <- MCToken
  Ratio <- MCRatio
  SettlementIds <- MCSettlementIds
  OrderIds <- MCOrderIds
  NoOrder = NoOrder
  Blank = Blank
  LegacySections = {"194C", "194J", "194I", "194H", "194A"}
  PaymentCodes = {"1023", "1026", "1028", "1031", "1034"}
  NoCode = "-"
  CodeMap <- MCCodeMap
  RateWithPan <- MCRateWithPan
  RateNoPan <- MCRateNoPan
  ReviewThreshold = 2100
  AmbiguityMargin = 150
  Inputs = {}
  Setups <- MCSetups
INVARIANTS
  TruthMatchesTheFiles
  GeneratedRunCompletes
  NoFalseMatch
  LabelsAreAsPlanted
  OrdersAreLabelledAsPlanted
  UnresolvableIsPunted
