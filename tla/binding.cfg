SPECIFICATION Spec
CONSTANTS
  Uses <- SoundUses
  Values = {0, 1, 2, 3}
  MaxU8 = 10
INVARIANTS TypeOK BoundAsMeant ArgumentsMatch
CHECK_DEADLOCK FALSE
