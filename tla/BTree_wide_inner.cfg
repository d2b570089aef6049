CONSTANTS
  Key <- KeysUsed
  Data = {d}
  NodeId <- Nodes
  NULL = NULL
  leafslotmax = 4
  innerslotmax = 8
  Families <- WideFamilies
  ExtraKeys = {}
SPECIFICATION MCSpec
INVARIANTS
  CapacityKept
CHECK_DEADLOCK FALSE
