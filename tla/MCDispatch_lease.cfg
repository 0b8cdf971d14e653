\* Two dispatchers, one destination, two events, two faults.
SPECIFICATION Spec
CONSTANTS
    w1 = w1
    w2 = w2
    None = None
    Gone = Gone
    Workers = {w1, w2}
    Events = {1, 2}
    Destinations = {1}
    TargetOf <- OneTarget
    AddressedTo <- ToAll
    TextChunks <- ChunksOneTwo
    WithReport = {1}
    ProviderFiles <- AllText
    Dead = {}
    Lease = 2
    Backoff <- BackoffShort
    ClaimLimit = 50
    MaxFaults = 2
    Prompt = FALSE
SYMMETRY Symmetry
INVARIANTS
    TypeOK
    ChunksInOrder
    DuplicatesNeedFaults
    OneSender
    NewerWaits
PROPERTIES
    ProgressKept
    ImplementsQueue
