SPECIFICATION Spec
CONSTANTS
  Row <- Row3
  Key <- Key3
  Asc = FALSE
  Limits = {1, 2, NoLimit}
  NoLimit = NoLimit
  DefaultLimit = 2
  MaxU32 = 7
  Opaque = {"c"}
  SortGiven = {TRUE, FALSE}
INVARIANTS TypeOK PageExact TokensAtEnds NoDuplicates NoSkips BackReturns
PROPERTY KeepsPromise
