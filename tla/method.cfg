SPECIFICATION MSpec
CONSTANTS
  Null = Null
  Bad = Bad
  MaxU8 = 3
  Row <- Rows
  Given <- GivenOf
  Methods <- AllMethods
  Answers <- AllAnswers
  Inputs <- AllInputs
INVARIANTS TypeOK RowsAsMeant ClausesExtended Delivered InsertedAsWritten CountAsksSame
CHECK_DEADLOCK FALSE
