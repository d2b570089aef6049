CONSTANTS
  Byte = {"cr", "lf"}
  Zero = "nul"
  until <- Delimiter
  BufferSize = 4
  MaxRequest = 9
SPECIFICATION Spec
INVARIANTS
  TypeOK
  BufferHoldsStream
  ReturnsInTime
  RoomAsNeeded
CHECK_DEADLOCK FALSE
