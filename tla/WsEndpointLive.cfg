SPECIFICATION FairSpec
CONSTANTS
  Peer = {p1, p2}
  Other <- MCOther
  MaxSend = 2
  MaxEvents = 1
  MayStop = FALSE
  MayReset = FALSE
PROPERTIES
  EveryMessageArrives
  CloseCompletes
CHECK_DEADLOCK FALSE
