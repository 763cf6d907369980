SPECIFICATION Spec
CONSTANTS
  Names = {"fq_codel", "sfq"}
  MaxAttrs = 1
  MaxTrips = 1
INVARIANTS FalseIsNotSent
CHECK_DEADLOCK FALSE
