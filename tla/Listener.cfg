SPECIFICATION FairSpec
CONSTANTS
    Conns = {c1, c2}
    Sources = {near, other, third, routed}
    Direct = {near, other, third}
    MaxHandshakes = 1
    PerSource = 2
    Global = 3
    MaxEntries = 2
    Minute = 2
INVARIANTS
    SlotsExact
    PairRateBounded
PROPERTIES
    EveryConnectionEnds
    RefusedForCause
