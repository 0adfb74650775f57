SPECIFICATION FunctionsSpec
CONSTANTS
  Last4 = 2
  Last6 = 2
  NameLimit = 8
  MaxLines = 1
  MaxTail = 1
INVARIANTS NeverOutsideRange
CHECK_DEADLOCK FALSE
