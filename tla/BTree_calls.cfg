CONSTANTS
  Key <- KeysUsed
  Data = {d, e}
  NodeId <- Nodes
  NULL = NULL
  leafslotmax = 4
  innerslotmax = 4
  Families <- CallFamilies
  ExtraKeys = {0, 2, 4}
SPECIFICATION MCSpec
INVARIANTS
  TypeOK
  TreeIsChain
  SeparatorsExact
  CapacityKept
  SiblingsStillAdjacent
  IterationCorrect
  SearchesCorrect
PROPERTIES
  MultimapSpec
  IterErasesItsPair
  CallsReturn
CHECK_DEADLOCK FALSE
