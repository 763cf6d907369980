SPECIFICATION FairSpec
CONSTANTS
  MaxPayload = 34
  WireLengths = {0, 1, 7, 8, 9, 12, 16, 34, 35, 65535}
  AttrBytes = {0, 4, 12, 65516, 65520, 65528}
  MaxHops = 3
INVARIANTS TypeOK HopsTile OkIsWhole RoundTrip
PROPERTIES Ends
CHECK_DEADLOCK FALSE
