SPECIFICATION FairSpec
CONSTANTS
  Client = {c1, c2, c3}
  FirstClients = {c1}
  AskingClients = {c2}
  Payload = {a, b}
  MaxKey = 2
  MaxPushes = 3
  MaxBreaks = 1
INVARIANTS
  Replicated
PROPERTIES
  CreateIsFresh
  Converge
  EveryClientIsServed
CHECK_DEADLOCK FALSE
