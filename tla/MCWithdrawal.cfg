SPECIFICATION Spec
CONSTANTS
  Ids = {"w1", "w2"}
  Users = {"alice", "bob"}
  Owner <- Owners
  Coin = "ETH"
  Assets = {"ETH"}
  Amounts = {1, 2}
  Fee = 1
  Deposits <- Funds
  Reviewed = TRUE
  Overlapping = FALSE
  Failures = {"refused", "lost"}
  Kinds = {"evm", "trc20"}
  Scale <- MCScale
  Prices = {1, 2}
  MaxTxs = 2
  MaxInt = 63
INVARIANTS FrozenBacksPending BooksMatchStatus PaidWithinAmount NothingForFree RejectedIsUnsent
CHECK_DEADLOCK FALSE
