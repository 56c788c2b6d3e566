CHECK_DEADLOCK FALSE
SPECIFICATION FairSpec
CONSTANTS
    A = A  B = B
    MaxText = 1
    Expand = 2
    Overhead = 1
    MaxFrame = 3
    Room = 2
    MaxEach = 1

    
PROPERTIES
    ImplementsChannel
    SendReturns
    
