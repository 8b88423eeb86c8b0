\* The compiler is a function: it stops when it has its verdict.
CHECK_DEADLOCK FALSE
SPECIFICATION FrontSpec
CONSTANTS
  MaxValue = 1
  MaxIndex = 2
  Label = {"A", "B", "other"}
  Bodies = {}
  HardwareSpecs <- MCHardwareSpecs
  Texts <- MCTexts
INVARIANTS ParsesWhatIsWritten RefusesTheFirstFault FaultIsPlaced ReportsEveryFault DuplicatesNameTheFirst JumpsReachTheirLabels
