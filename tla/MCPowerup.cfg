SPECIFICATION MCSpec
CONSTANTS
  a1 = a1
  a2 = a2
  net = net
  cpu = cpu
INVARIANTS
  SalesAreSound
  FeesAreFair
  LimitsAreSound
PROPERTIES
  PriceOutlivesUse
  ExpiredOrdersReturn
