SPECIFICATION Spec
CONSTANTS
  Threads = {t1, t2}
  MemSize = 24
  Header = 3
  MinSize = 3
  Sizes = {1, 4, 9}
SYMMETRY Symmetry
INVARIANTS
  HeapTiles
  GivenApart
  LowestFree
