SPECIFICATION CollectorSpec
CONSTANTS
  Roots = {r1, r2}
  MaxBlocks = 4
  BlockSize = 2
  Fields = 1
  MaxObjects = 3
  MaxCollections = 2
  Nil = Nil
INVARIANTS HeapIsWhole
PROPERTIES CollectsAtOnce
SYMMETRY MCSymmetry
