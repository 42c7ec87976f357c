SPECIFICATION MCSpec
CONSTANTS
  p1 = p1
  p2 = p2
  p3 = p3
  i1 = i1
  i2 = i2
INVARIANTS
  SeatsAreSound
  RoundsArePaidOnce
PROPERTIES
  SeatsAndPayAreFair
  ScheduleIsRenewed
