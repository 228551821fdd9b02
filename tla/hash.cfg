CONSTANTS
  Strings <- MCStrings
  Pointers = {p1, p2}
  Values = {v1}
  Hash <- hashFunction
  InitialCapacity = 2
  MaxCapacity = 8
SYMMETRY Symmetry
SPECIFICATION Spec
INVARIANTS TypeOK Reachable LoadBounded MergeNeverGrows
PROPERTY ImplementsEntryBag
