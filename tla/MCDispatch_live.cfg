\* A destination that refuses everything next to one that accepts.
SPECIFICATION FairSpec
CONSTANTS
    w1 = w1
    w2 = w2
    None = None
    Gone = Gone
    Workers = {w1, w2}
    Events = {1, 2}
    Destinations = {1, 2}
    TargetOf <- OneTarget
    AddressedTo <- ToAll
    TextChunks <- ChunksOneTwo
    WithReport = {1}
    ProviderFiles <- FirstMayGo
    Dead = {1}
    Lease = 1
    Backoff <- BackoffShort
    ClaimLimit = 50
    MaxFaults = 1
    Prompt = TRUE
INVARIANT
    NothingLost
PROPERTY
    EventuallyServed
