CONSTANTS
  Thread = {main, t1, t2}
  Main = main
  Conn = {c1, c2}
  Acceptor = Acceptor
  None = None
SPECIFICATION Spec
INVARIANTS
  TypeOK
  VerifyHolds
  NeverLost
  EndsByOwnError
  ThreadsSurvive
PROPERTIES
  EveryHandlerRuns
CHECK_DEADLOCK FALSE
