SPECIFICATION Spec
CONSTANTS
  Accounts <- MCAccounts
  Executors = {"relay"}
  Self = "spot"
  Tokens <- MCTokens
  WrappedNative = "weth"
  Markets = {"weth/usdc"}
  Auths = {"a1", "b1"}
  auth <- SliverAuth
  Orders = {"ask", "bid"}
  order <- SliverOrder
  Fills <- SliverFills
  Scale = 2
  MaxUint = 1000
  InitialBalance <- Rich
  InitialAllowance <- Rich
  Revocable = {}
  Cancellable = {}
  Approvals = {}
  Transfers = {}
  MaxTime = 0
PROPERTIES
  SliverCannotBlock
CHECK_DEADLOCK FALSE
