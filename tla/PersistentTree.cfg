CONSTANTS
  Key = {"a", "b"}
  Data = {"x", "y"}
  Blank = "blank"
  KeySize = 1
  DataSize = 16
  IntSize = 4
  AreaSize = 4048
  LimitSize = 65488
  MaxInserts = 8
  MaxDeaths = 2
SPECIFICATION Spec
INVARIANTS
  TypeOK
  RefsInOrder
  InsertsCounted
  SearchSurvives
  LastInsertFound
  InsideWhileRoom
CHECK_DEADLOCK FALSE
