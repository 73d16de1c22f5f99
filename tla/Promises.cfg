SPECIFICATION FairSpec
CONSTANTS
    Errors = {e1, e2}
    MaxSteps = 3
    MaxTurns = 2
INVARIANTS TakenByTheFirst StackIsBounded EndsAsItShould
PROPERTIES Settles
CHECK_DEADLOCK FALSE
