\* Two destinations: does a newer event wait for an older one of its target?
SPECIFICATION Spec
CONSTANTS
    w1 = w1
    w2 = w2
    None = None
    Gone = Gone
    Workers = {w1, w2}
    Events = {1, 2}
    Destinations = {1, 2}
    TargetOf <- OneTarget
    AddressedTo <- ToAll
    TextChunks <- ChunksOneTwo
    WithReport = {1}
    ProviderFiles <- AllText
    Dead = {}
    Lease = 2
    Backoff <- BackoffShort
    ClaimLimit = 50
    MaxFaults = 1
    Prompt = FALSE
SYMMETRY Symmetry
INVARIANT
    NewerWaits
