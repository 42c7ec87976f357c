SPECIFICATION MCSpec
CONSTANTS
  b1 = b1
  b2 = b2
  n1 = n1
  n2 = n2
  Bidder <- MCBidder
  Name <- MCName
  Existing = {}
  None = None
  InitialFunds <- MCFunds
  BidAmounts = {1, 2}
  Day = 1
  ActivationDelay = 1
  Lossy = FALSE
INVARIANTS
  NamesCoverClaims
PROPERTIES
  OnlyWinnersPay
  RefundsArrive
  AllAuctionsClose
