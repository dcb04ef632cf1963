CONSTANTS
    Keys = {1, 2, 3, 4}
    Prefixes <- TwoPrefixes
    Shards <- TwoShards
    MaxKeys = 1
    CheckpointPages = 2
    ChunkRows = 2
    Revs = {1, 2}
    MaxRequests = 2
    MaxEdits = 1
SPECIFICATION FairSpec
CHECK_DEADLOCK FALSE
INVARIANTS
    TypeOK
    InventoryIsComplete
    NoRowTwice
PROPERTIES
    EvidenceIsKept
    DiscoveryEnds
