SPECIFICATION Spec
CONSTANTS
  ByteValues = 2
  ShortLengths = 2
  MaxMessages = 2
  MaxFrameSize = 3
  Sizes = {0}
  BodySizes = {0, 5}
  FirstKeys = {0, 1}
  LaterKeys = {1}
  MaxFragments = 3
  MaxControls = 2
  Writers = {"foreign"}
INVARIANTS DeliveredAsSent
CHECK_DEADLOCK FALSE
