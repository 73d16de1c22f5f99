SPECIFICATION Spec
CONSTANTS
  Peer = {p1, p2}
  Other <- MCOther
  MaxSend = 2
  MaxEvents = 0
  MayStop = TRUE
  MayReset = TRUE
SYMMETRY Symmetry
INVARIANTS
  TypeOK
  NoLostWakeup
  CloseIsFinal
  CloseAfterMessages
PROPERTIES
  ImplementsPipe
CHECK_DEADLOCK FALSE
