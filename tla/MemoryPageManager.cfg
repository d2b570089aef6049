CONSTANTS
  MaxPages = 3
  Handles = {h1, h2, h3}
  None = None
  MaxCrashes = 2
SPECIFICATION Spec
SYMMETRY HandleSymmetry
INVARIANTS
  TypeOK
  RefCountExact
  PagesBacked
  FreeListDurable
  OwnedPagesKept
  OnlyLastPageTorn
  WasteBounded
PROPERTIES
  TableKept
  AllocatorSpec
