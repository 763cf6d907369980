SPECIFICATION Spec
CONSTANTS
  Bits = 10
  Others = {1, 3, 256, 768, 1023}
  MaxFlags = 3
  MaxTrips = 2
INVARIANTS TypeOK RoundTrip Resent CallerBytes RepeatedCarries
CHECK_DEADLOCK FALSE
