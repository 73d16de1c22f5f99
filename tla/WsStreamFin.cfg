SPECIFICATION Spec
CONSTANTS
  ByteValues = 2
  ShortLengths = 2
  MaxMessages = 2
  MaxFrameSize = 3
  Sizes = {0, 1, 3, 4}
  BodySizes = {0, 5}
  FirstKeys = {0, 1}
  LaterKeys = {0}
  MaxFragments = 3
  MaxControls = 2
  Writers = {"library"}
INVARIANTS NothingHeldBack
CHECK_DEADLOCK FALSE
