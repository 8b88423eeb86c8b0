SPECIFICATION Spec
CONSTANTS
  broken = broken
  empty = empty
  one = one
  two = two
  Source = {broken, empty, one, two}
  Broken = {broken}
  Length <- MCLength
  None = None
  MaxEdits = 3
CHECK_DEADLOCK FALSE
INVARIANT NeverStepsWhenNotAllowed
