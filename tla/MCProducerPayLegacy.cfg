SPECIFICATION PlainSpec
CONSTANTS
  p1 = p1
  p2 = p2
  Producer <- MCProducer
  Legacy <- MCLegacy
  Never = Never
  LastTime = 5
  MaxVotes = 1
  MaxUnpaid = 0
  MaxInflation = 0
  Precision = 1
  Factors = {1}
  MinVotePay = 1
  MaxRevision = 0
INVARIANTS
  VotesCountOnce
