SPECIFICATION MCSpec
CONSTANTS
  p1 = p1
  p2 = p2
  Producer <- MCProducer
  Legacy <- MCLegacy
  Never = Never
  LastTime = 5
  MaxVotes = 1
  MaxUnpaid = 1
  MaxInflation = 1
  Precision = 1
  Factors = {1, 2}
  MinVotePay = 2
  MaxRevision = 1
INVARIANTS
  PayIsBacked
  SharesAddUp
