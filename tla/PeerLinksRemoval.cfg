CHECK_DEADLOCK FALSE
SPECIFICATION Spec
CONSTANTS
    Lo = Lo  Hi = Hi  NoConn = NoConn
    Conns = {c1, c2}
    MaxDoublings = 2
    Commands = {"unpair"}
INVARIANT
    NoSessionAfterRemoval
