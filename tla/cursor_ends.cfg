SPECIFICATION WalkSpec
CONSTANTS
  Row <- Row4
  Key <- Key4
  Asc = TRUE
  Limits = {1, 2}
  NoLimit = NoLimit
  DefaultLimit = 2
  MaxU32 = 7
  Opaque = {}
  SortGiven = {TRUE}
PROPERTY WalkEnds
