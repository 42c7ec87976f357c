SPECIFICATION PlainSpec
CONSTANTS
  o1 = o1
  o2 = o2
  None = None
  Owners <- MCOwners
  NumTables = 1
  InitTokens <- TradingTokens
  InitStake <- SomeStake
  RexRatio = 1
  InitRent = 1
  KeptPart = 2
  LoanTime = 1
  Transfers = {1, 2}
  Purchases = {1, 2}
  RexAmounts = {1, 2}
  Payments = {1}
  LoanFunds = {1}
  Rents = {}
  Fees = {1}
  MaxRuns = {1}
  MaxLoans = 0
  MaxTokens = 7
INVARIANTS
  VoteStakeIsCounted
