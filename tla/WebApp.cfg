SPECIFICATION WebSpec
CONSTANTS
    Char <- MCChar
    Names <- MCNames
    Members <- MCMembers
    Routes <- MCRoutes
    Strings <- MCStrings
    Prefix <- MCPrefix
    MaxHistory = 3
    PushStateFires = TRUE
    MaxParams = 2
    Modulus = 16
    Pages <- MCPages
    Rows <- MCRows
    MaxRows = 2
INVARIANTS DomIsCurrent ListenersAreLive StoresFollowLocation BackShowsTheSame
CHECK_DEADLOCK FALSE
