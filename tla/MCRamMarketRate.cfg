SPECIFICATION Spec
CONSTANTS
  a1 = a1
  a2 = a2
  Account <- MCAccount
  TokenSupply = 3500
  InitialRam = 7
  InitialFunds <- MCFunds
  RamGift = 1
  MaxRamLimit = 12
  WordSize = 3
  Quantities = {1, 3, 4}
  ByteCounts = {1, 2, 3}
  RamSizes = {9}
  Rates = {0, 2}
  RamLimits = {2}
  MaxSlot = 2
PROPERTY RateIsKept
