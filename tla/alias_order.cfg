SPECIFICATION Spec
CONSTANTS
  Alias <- Aliases3
  Unknown = {"u"}
INVARIANTS TypeOK UnknownReported CirclesReported
PROPERTY Returns
CHECK_DEADLOCK FALSE
