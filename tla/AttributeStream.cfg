SPECIFICATION FairSpec
CONSTANTS
  MaxPayload = 10
  Lengths = {0, 3, 4, 5, 8, 10, 11, 65535}
INVARIANTS TypeOK InBounds Disjoint Tiled StrictOkIsComplete
PROPERTIES Progress Returns ImplementsDecode
CHECK_DEADLOCK FALSE
