CHECK_DEADLOCK FALSE
SPECIFICATION FairSpec
CONSTANTS
    Service = service
    Hand = hand
    None = None
    Torn = Torn
    MaxIds = 2
INVARIANTS
    ControlReachable
    IdentityStable
PROPERTY
    ComesBack
