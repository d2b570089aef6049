CONSTANTS
  Blank = " "
  Quote = "'"
  Alnum <- AlnumChars
  Number <- Numbers
  StringBytes <- Strings
  Query <- Queries
  Name <- Tables
  Text <- ShortStrings
  AreaSize = 4048
  LimitSize = 65488
  MaxFiles = 4
  MaxInserts = 2
SPECIFICATION Spec
INVARIANTS
  TypeOK
  GetFindsLastInsert
  InsertsSurvive
  WordsAreTheInput
