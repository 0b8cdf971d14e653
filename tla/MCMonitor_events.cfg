\* Two processes, both with destinations, take one target through changes, moves, outages and
\* recoveries.
SPECIFICATION Spec
CONSTANTS
    w1 = w1
    w2 = w2
    i1 = i1
    i2 = i2
    a = a
    b = b
    u = u
    v = v
    ok = ok
    d1 = d1
    None = None
    Workers = {w1, w2}
    Names = {1}
    Keys = {"page", "other"}
    Key <- MCKey
    Ids = {i1}
    Contents = {a, b}
    Urls = {u, v}
    Statuses = {ok}
    Destinations = {d1}
    Configured <- AllConfigured
    Every = 1
    FailureThreshold = 2
    MaxTime = 1
    MaxRevision = 3
SYMMETRY Symmetry
INVARIANTS
    HistoryChain
    RedirectChain
    EventsAnnounced
