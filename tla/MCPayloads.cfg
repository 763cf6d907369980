SPECIFICATION FairSpec
CONSTANTS
  Lefts = {0, 1, 14, 15, 16, 255}
  MaxWords = 9
  MaxSegments = 3
  ManySegments = 15
  MaxHeaders = 3
  LabelBits = 2
  TcBits = 1
  ClassBits = 3
  TtlBits = 1
  MaxStack = 2
  Keys = {k1, k2}
  Stale = stale
  MaxKeys = 4
  Vals = {"a", "b"}
  MaxEattrs = 3
  MaxInfos = 2
  MaxAttrs = 2
  Vnis = {10, 20}
  MaxVnis = 3
  MaxEntries = 2
  MaxInner = 2
  Addresses = {a, b}
  Indexes = {0, 1, 2}
  MaxTargets = 3
  MaxTrips = 2
INVARIANTS TypeOK RoundTrip ReadAsSent Resent DamageBounded PanicsKnown
PROPERTIES Ends
CHECK_DEADLOCK FALSE
