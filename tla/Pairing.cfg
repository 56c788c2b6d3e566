CHECK_DEADLOCK FALSE
SPECIFICATION FairSpec
CONSTANTS
    A = A  B = B  None = None
    Codes = {k1, k2, k3}
    Initiators = {A, B}
    Faults = {"lose", "expire", "restart", "unpair", "reject", "cross"}

    
PROPERTIES
    ApprovedWasCompared
    PairingCompletes
