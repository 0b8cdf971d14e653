\* The providers file may gain or lose attachment support between processes.
SPECIFICATION Spec
CONSTANTS
    w1 = w1
    w2 = w2
    None = None
    Gone = Gone
    Workers = {w1, w2}
    Events = {1, 2}
    Destinations = {1}
    TargetOf <- OneTarget
    AddressedTo <- ToAll
    TextChunks <- ChunksOneTwo
    WithReport = {1}
    ProviderFiles <- TextOrAttach
    Dead = {}
    Lease = 2
    Backoff <- BackoffShort
    ClaimLimit = 50
    MaxFaults = 2
    Prompt = FALSE
SYMMETRY Symmetry
INVARIANT
    NothingLost
