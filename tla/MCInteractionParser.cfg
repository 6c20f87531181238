CONSTANTS
  MaxU64 = 9
  Symbols <- AllSymbols
  BodyFields <- ManyFields
SPECIFICATION Spec
INVARIANTS
  NothingMisread
  EveryCommandRead
CHECK_DEADLOCK FALSE
