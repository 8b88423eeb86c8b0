SPECIFICATION MCSpec
CONSTANTS
  MaxValue = 3
  Label = {}
  MAX_CYCLE_COUNT = 4
  MaxLength = 3
  Setups <- MCSetups
INVARIANTS TypeOK StaysInside CycleBudget ErrorExplained PanicExplained ExecuteAllVerdict
PROPERTIES TerminatedIsFinal FailureIsClean ArithmeticIsModular
