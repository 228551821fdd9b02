CONSTANTS
  TreeKeys = {1, 2, 3, 4, 5, 6, 7, 8, 9, 10}
  Address = {1, 2, 3, 4, 5, 6, 7, 8, 9, 10}
  MaxFreed = 5
  UnbalancedKeys = {1, 2, 3, 4, 5}
  N = 5
  Keys = {1, 2, 3}
  FieldSize = 2
  Bytes = {0, 97, 128}
  MaxData = 5
VIEW View
SPECIFICATION ProgramsSpec
INVARIANTS TreesSound SortSound ChecksExact
