SPECIFICATION Spec
CONSTANTS
  Vals = {"a"}
  MaxEattrs = 2
  MaxInfos = 1
  MaxAttrs = 1
INVARIANT MalformedSkipped
CHECK_DEADLOCK FALSE
