SPECIFICATION MSpec
CONSTANTS
  Null = Null
  Bad = Bad
  MaxU8 = 3
  Row <- Rows
  Given <- GivenOf
  Methods <- DocMethods
  Answers <- AllAnswers
  Inputs <- AllInputs
INVARIANT ScopesReachEveryRow
CHECK_DEADLOCK FALSE
