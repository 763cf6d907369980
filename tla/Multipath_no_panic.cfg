SPECIFICATION FairSpec
CONSTANTS
  MaxPayload = 34
  WireLengths = {0, 1, 7, 8, 9, 12, 16, 34, 35}
  AttrBytes = {0, 4, 12}
  MaxHops = 3
INVARIANTS NoPanic
CHECK_DEADLOCK FALSE
