SPECIFICATION TablesSpec
CONSTANTS
  Pointers = {p, q}
  s = s
  FixedHash <- MCFixedHash
  Elts = {x, y}
  Default = Default
  Addresses = {0, 1, 13}
  StartSizes = {1}
  MaxCollections = 2
INVARIANTS StaleOnlyIfSplit IterationVisitsAll
PROPERTIES KeepsPromise
SYMMETRY MCSymmetry
