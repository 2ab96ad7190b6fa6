SPECIFICATION CSpec
CONSTANTS
  Null = Null
  Column <- Columns
  Row <- Rows
  Less <- LessOf
  Like <- LikeOf
  Lower <- LowerOf
  Wrap <- WrapOf
  Literal <- LiteralOf
  Postgres = FALSE
  UserArgs <- Args
  Calls <- NotInCalls
  Grouping = "a"
INVARIANT FiltersReachEveryRow
CHECK_DEADLOCK FALSE
