SPECIFICATION CSpec
CONSTANTS
  Null = Null
  Column <- Columns
  Row <- Rows
  Less <- LessOf
  Like <- LikeOf
  Lower <- LowerOf
  Wrap <- WrapOf
  Literal <- LiteralOf
  Postgres = FALSE
  UserArgs <- Args
  Calls <- AllCalls
  Grouping = "a"
INVARIANTS TypeOK SelectsAsAsked NeverMoreThanWritten BoundInTextOrder TotalExact
CHECK_DEADLOCK FALSE
