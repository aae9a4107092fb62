SPECIFICATION Spec
CONSTANTS
  Accounts = {"alice", "bob", "relay"}
  Executors = {"bob", "relay"}
  Self = "spot"
  Tokens <- MCTokens
  WrappedNative = "weth"
  Markets = {"weth/usdc"}
  Auths = {"a1", "b1", "b2", "b3"}
  auth <- WalletAuth
  Orders = {"ask", "bid", "self", "odd"}
  order <- WalletOrder
  Fills <- WalletFills
  Scale = 2
  MaxUint = 1000
  InitialBalance <- Poor
  InitialAllowance <- Approved
  Revocable = {"a1"}
  Cancellable = {}
  Approvals = {3}
  Transfers = {3}
  MaxTime = 0
PROPERTIES
  LimitPricesHonoured
  WalletsMoveOnlyAsSigned
CHECK_DEADLOCK FALSE
