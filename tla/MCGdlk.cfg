\* A rejected source has nothing more to do.
CHECK_DEADLOCK FALSE
SPECIFICATION Spec
CONSTANTS
  MaxValue = 3
  Label = {"A", "B"}
  MAX_CYCLE_COUNT = 5
  Bodies <- MCBodies
  HardwareSpecs <- MCHardwareSpecs
  ProgramSpecs <- MCProgramSpecs
INVARIANTS CompiledIsWellFormed
PROPERTIES RunsTheSource EverySourceGetsItsVerdict
