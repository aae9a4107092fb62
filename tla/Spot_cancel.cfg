SPECIFICATION Spec
CONSTANTS
  Scale = 2
  FeeNum = 1
  FeeDen = 4
  PendingWindow = 2
  ExpiryMargin = 0
  MaxLegs = 10
  MaxPrice = 100
  Nodes <- MCNodes
  NodeList <- MCNodeList
  Me = "me"
  Rival = "rival"
  Listings <- MCCancelListings
  InitialHash = 11
  InitialBalance <- MCBalance
  InitialAllowance <- MCAllowance
  LimitTtl = 288
  MarketTtl = 3
  ExclusiveWindow = 1
  MinOrderQuote = 2
  MaxOrderQuote = 0
  GasReserve = 1
  WrapsNative = TRUE
  ReceiveNative = TRUE
  ResetFirst = {"base"}
  Allowed <- MCCancelAllowed
PROPERTY
  CancelHonoured
CHECK_DEADLOCK FALSE
