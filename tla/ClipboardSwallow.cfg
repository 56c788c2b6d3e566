CHECK_DEADLOCK FALSE
SPECIFICATION Spec
CONSTANTS
    Texts = {ta, tb}
    None = None
    Platforms = {"poll"}
    TTL = 2
    MaxEntries = 3
    MaxCopies = 3
    MaxReceived = 1
    MaxExits = 0
INVARIANT
    FinalCopyDelivered
