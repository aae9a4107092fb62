SPECIFICATION Spec
CONSTANTS
  Accounts <- MCAccounts
  Executors = {"relay"}
  Self = "spot"
  Tokens <- MCTokens
  WrappedNative = "weth"
  Markets = {"weth/usdc"}
  Auths = {"a1", "a3", "b1", "c1", "c2"}
  auth <- BookAuth
  Orders = {"ask1", "ask2", "ask3", "bid", "capped", "fake"}
  order <- BookOrder
  Fills <- BookFills
  Scale = 2
  MaxUint = 1000
  InitialBalance <- Rich
  InitialAllowance <- Rich
  Revocable = {"b1"}
  Cancellable = {"bid"}
  Approvals = {}
  Transfers = {}
  MaxTime = 1
INVARIANTS
  TypeOK
  ReservedPartKept
  LegsWithinSignedAmounts
  BoundIsSumOfLegs
  OrdersNeverOverfill
  CapsHold
  FeesStayProportional
  HoldsNothingBetweenTrades
  FilledIsBackedByFills
  ExposureMatchesOrders
  BaseReachesItsBuyers
PROPERTIES
  ImplementsPromise
  ReservationHonoured
  SliverCannotBlockFreeFill
  ClosedForGood
CHECK_DEADLOCK FALSE
