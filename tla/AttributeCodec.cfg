SPECIFICATION Spec
CONSTANTS
  MaxTrips = 3
  OtherKind = 4000
INVARIANTS
  TypeOK
  RoundTrip
  OwnBytes
  UnknownKept
  PanicsKnown
CHECK_DEADLOCK FALSE
