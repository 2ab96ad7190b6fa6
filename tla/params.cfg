SPECIFICATION Spec
CONSTANTS
  Cond = {"c", "d"}
  Field = {"a", "b"}
  Lists <- Lists2
  Queries = {"", "q"}
  Pages = {0, 3}
  Sizes = {0, 2}
  Numbers = {1}
  DefaultSize = 1
  CursorSize = 2
  MaxU32 = 3
  MaxCursorFields = 2
  MaxCalls = 6
INVARIANTS TypeOK JudgedByFirstList SizesAgree
PROPERTY ImplementsRequest
CHECK_DEADLOCK FALSE
