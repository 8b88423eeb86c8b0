SPECIFICATION FairSpec
CONSTANTS
  Row = {r1, r2, r3, r4}
  Filter = {{r1, r2, r3}, {r4}}
  RowsAtFirst = 2
  MaxIndex = 7
  PageSize = {1, 2}
  NoCursor = NoCursor
  NoLimit = NoLimit
CHECK_DEADLOCK FALSE
INVARIANTS WalkSeesEveryRow PageInfoIsAccurate
PROPERTY WalkEnds
