SPECIFICATION KSpec
CONSTANTS
  Value <- Values3
  MaxFields = 3
  Reuse = TRUE
INVARIANTS ConditionTypeOK SelectsBeyond
CHECK_DEADLOCK FALSE
