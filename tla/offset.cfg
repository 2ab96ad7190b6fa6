SPECIFICATION Spec
CONSTANTS
  Row <- Row3
  Key <- Key3
  Methods = {"Serial", "Slice"}
  Paginations = {"Serial", "Slice", "None"}
  Sizes = {0, 2}
  PageNumbers = {0, 2, 5, 7}
  DefaultLimit = 2
  MaxU32 = 7
INVARIANTS TypeOK PageExact NoSkipsWithoutDeletes NoRepeatsWithoutInserts
