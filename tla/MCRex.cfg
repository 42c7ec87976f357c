SPECIFICATION MCSpec
CONSTANTS
  o1 = o1
  o2 = o2
  None = None
  Owners <- MCOwners
  NumTables = 2
  InitTokens <- LendingTokens
  InitStake <- NoStake
  RexRatio = 1
  InitRent = 1
  KeptPart = 2
  LoanTime = 1
  Transfers = {2}
  Purchases = {2}
  RexAmounts = {2}
  Payments = {1}
  LoanFunds = {1}
  Rents = {}
  Fees = {}
  MaxRuns = {1}
  MaxLoans = 1
  MaxTokens = 7
INVARIANTS
  PoolIsSound
  VotesCountStake
  BalanceIsSound
  ReturnsAddUp
PROPERTIES
  PricesAreKept
  SellersAreFirst
  NothingStaysBehind
