CHECK_DEADLOCK FALSE
SPECIFICATION Spec
CONSTANTS
    Texts = {ta, tb}
    None = None
    Platforms = {"poll", "watch"}
    TTL = 2
    MaxEntries = 2
    MaxCopies = 2
    MaxReceived = 3
    MaxExits = 1
INVARIANTS
    OneSendPerCopy
    
    OwnCopyDelivered
