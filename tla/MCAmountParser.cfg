CONSTANTS
  MaxU64 = 255
  DigitsTyped = {0, 1, 2, 5, 9}
  MaxTyped = 5
  MaxDecimals = 3
SPECIFICATION Spec
INVARIANTS
  AmountsExact
CHECK_DEADLOCK FALSE
