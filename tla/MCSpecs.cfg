SPECIFICATION Spec
CONSTANTS
  Id = {i, j}
  NoId = NoId
  Absent = Absent
  Name <- Names
  LongName <- LongNames
  Numbers <- MCNumbers
  NumbersChange <- MCNumbersChange
  Buffers <- MCBuffers
  BuffersChange <- MCBuffersChange
  MAX_BUFFER = 1
INVARIANTS SpecsFit SlugsFindTheirSpec
SYMMETRY Ids
