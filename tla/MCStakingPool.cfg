SPECIFICATION MCSpec
CONSTANTS
  a1 = a1
  a2 = a2
  a3 = a3
  b1 = b1
  b2 = b2
  p1 = p1
  p2 = p2
  None = None
SYMMETRY Symmetric
INVARIANTS
  VotesAreSound
  StakesAreSound
PROPERTIES
  StakeKeepsItsValue
  ClaimsComeNoSooner
