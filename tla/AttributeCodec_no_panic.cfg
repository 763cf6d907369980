SPECIFICATION Spec
CONSTANTS
  MaxTrips = 1
  OtherKind = 4000
INVARIANT
  NoPanic
CHECK_DEADLOCK FALSE
