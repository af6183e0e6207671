SPECIFICATION Spec
CONSTANTS
  Pools = {p1, p2, p3}
  Null = null
  PoolSize = 24
  Sizes = {1, 8, 9, 24}
  MaxBlocks = 5
  SegmentSize = 2
  Inline = inline
  Segments = {g1, g2}
  MaxSize = 5
SYMMETRY Symmetry
INVARIANTS
  TypeOK
  PoolsAreFreedOnce
  ReferencesStayValid
PROPERTIES
  Implements
