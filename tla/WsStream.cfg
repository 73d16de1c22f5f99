SPECIFICATION Spec
CONSTANTS
  ByteValues = 2
  ShortLengths = 2
  MaxMessages = 2
  MaxFrameSize = 3
  Sizes = {0, 1, 2, 4, 5, 7}
  BodySizes = {0, 5}
  FirstKeys = {0, 1}
  LaterKeys = {0}
  MaxFragments = 3
  MaxControls = 2
  Writers = {"library", "foreign"}
INVARIANTS DeliveredAsSent NothingHeldBack
PROPERTIES CloseRequestStays
CHECK_DEADLOCK FALSE
