SPECIFICATION MCSpec
CONSTANTS
  a1 = a1
  a2 = a2
  Account <- MCAccount
  B1 = a1
  MaxClaimable = 2
  VestingTime = 2
  RefundDelay = 2
  InitialFunds <- MCFunds
  Quantities = {0, 1, 2}
  LimitValues <- MCLimits
  Lossy = TRUE
INVARIANTS
  StakeIsBacked
  StakesAddUp
  DeferredNotEarly
PROPERTIES
  LockSpec
  RefundReturns
