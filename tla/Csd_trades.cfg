SPECIFICATION Spec
CONSTANTS
  Bps = 10
  CsdUnit = 10
  Coarse = 1000
  Makers = {"mA", "mB"}
  Known = {"mA"}
  MaxHints = 1
  MaxHops = 3
  MaxCandidates = 2
  PageSize = 1
  OfferPages = 2
  OtherPages = 2
  Slack = 1
  ReceiptsFor = 8
  PaymentsFor = 7
  FlyingFor = 6
  Recheck = 0
  ProvenFor = 1
  NewMakerMax = 5
  ExecutorFee = 1
  Me = "me"
  Scenarios <- MCScenarios
  CsdFee = 1
  Gap = 1
  FirstGap = 2
  MaxKeys = 6
  PermitFor = 1
  LockTime = 1
  SaleLockTime = 2
  ClaimTime = 1
  MaxConf = 2
  ClaimAfter = 0
  RefundAfter = 1
  BriefSkip = 1
  LongSkip = 2
  FollowFor = 20
  OrderFor = 3
  MaxTotalLocked = 15
INVARIANTS
  TypeOK
  PoolNeverLoses
  NewestOffersFound
  ProvenMakersSettled
  RecentTradesHappened
  PaymentsStayClaimable
PROPERTY
  LockedBuysEnd
CHECK_DEADLOCK FALSE
