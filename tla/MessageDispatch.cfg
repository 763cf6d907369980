SPECIFICATION Spec
CONSTANTS
  MaxLen = 24
  Families = {0, 2, 10}
  MaxTrips = 2
INVARIANTS TypeOK RoundTrip Stable ShortIsBareGet
CHECK_DEADLOCK FALSE
