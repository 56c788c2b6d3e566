CHECK_DEADLOCK FALSE
SPECIFICATION FairSpec
CONSTANTS
    Lo = Lo  Hi = Hi  NoConn = NoConn
    Conns = {c1, c2}
    MaxDoublings = 2
    Commands = {"unpair", "reject"}
INVARIANTS
    TypeOK
    OneDialler
    
    NoDanglingEntry
PROPERTIES
    Recovers
