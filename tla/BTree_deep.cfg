CONSTANTS
  Key <- KeysUsed
  Data = {d}
  NodeId <- Addresses
  NULL = NULL
  leafslotmax = 5
  innerslotmax = 5
  Families <- DeepFamilies
  ExtraKeys = {}
SPECIFICATION ObjectsSpec
INVARIANTS
  ObjectsApart
CHECK_DEADLOCK FALSE
