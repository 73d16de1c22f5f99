SPECIFICATION Spec
CONSTANTS
    Bad = Bad
    Connections = {c1, c2}
    Endpoints = {e1}
    MaxSends = 2
    SendThrows = TRUE
INVARIANTS DeliveredOnce ConnectionsAreHeld
CHECK_DEADLOCK FALSE
