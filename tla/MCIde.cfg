SPECIFICATION FairSpec
CONSTANTS
  broken = broken
  empty = empty
  one = one
  two = two
  Source = {broken, empty, one, two}
  Broken = {broken}
  Length <- MCLength
  None = None
  MaxEdits = 3
CHECK_DEADLOCK FALSE
INVARIANTS CompiledIsCurrent StepperIsShown
PROPERTIES RunIsNotDisturbed TextIsStored
