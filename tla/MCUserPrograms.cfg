SPECIFICATION ListSpec
CONSTANTS
  Request = {r1, r2, r3}
  User = {u, v}
  Owner = u
  Here = p
  ProgramSpec = {p}
  NoSpec = NoSpec
  FileName <- Names
  Source = {x, y}
SYMMETRY Symmetric
INVARIANTS SourcesAreOwn UpdatesMerge ListShowsTheTable
PROPERTIES DeletedStaysDeleted AnswersTellWhatHappened
CHECK_DEADLOCK FALSE
