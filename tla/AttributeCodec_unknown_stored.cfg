SPECIFICATION Spec
CONSTANTS
  MaxTrips = 1
  OtherKind = 4000
INVARIANT
  UnknownStored
CHECK_DEADLOCK FALSE
