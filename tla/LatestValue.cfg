CHECK_DEADLOCK FALSE
SPECIFICATION QueueFairSpec
CONSTANTS
    Producers = {reader1, reader2, reader3}
    MaxValues = 5
INVARIANTS
    LastWins
    WaitsOnlyForOthers
PROPERTIES
    EnqueueReturns
