CONSTANTS
  Key = {"a", "b"}
  Data = {"x", "y"}
  Blank = "blank"
  KeySize = 1
  DataSize = 16
  IntSize = 4
  AreaSize = 4048
  LimitSize = 65488
  MaxInserts = 1
  MaxDeaths = 0
SPECIFICATION ClaimSpec
INVARIANT KeysReadBack
CHECK_DEADLOCK FALSE
