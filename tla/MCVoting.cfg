SPECIFICATION Spec
CONSTANTS
  a1 = a1
  a2 = a2
  a3 = a3
  p1 = p1
  p2 = p2
  p3 = p3
  Account <- MCAccount
  Producer <- MCProducer
  None = None
  MaxVotes = 2
  LastWeek = 1
  Factor <- MCFactor
  MaxStake = 1
SYMMETRY Symmetric
INVARIANTS
  VotesAddUp
  VotesAreStake
  NoProxyCycle
  BallotsStayValid
