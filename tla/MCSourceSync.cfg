SPECIFICATION Spec
CONSTANTS
  Device = {d}
  Source = {a, b}
  None = None
  MaxTime = 6
  MaxEdits = 4
CHECK_DEADLOCK FALSE
SYMMETRY Symmetric
INVARIANTS ReopenShowsTheWork SaveButtonTellsTheTruth SavedUntilOvertaken
