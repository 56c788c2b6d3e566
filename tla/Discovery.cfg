SPECIFICATION FairSpec
CONSTANTS
    Devices = {d1, d2, d3}
    Addresses = {home, moved}
    MaxPeers = 2
    TTL = 3
    None = None
INVARIANTS
    FreshestKept
    AdvertisedWhileOpen
PROPERTIES
    Rediscovers
    ErrorClears
