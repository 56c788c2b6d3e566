CHECK_DEADLOCK FALSE
SPECIFICATION FairSpec
CONSTANTS
    A = A  B = B  None = None
    Codes = {k1, k2, k3}
    Initiators = {A}
    Faults = {"unpair"}
PROPERTY
    PairAgain
