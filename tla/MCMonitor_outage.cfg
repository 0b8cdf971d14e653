\* Two processes, one of them without destinations, check one target through outages,
\* changes and recoveries.
SPECIFICATION Spec
CONSTANTS
    w1 = w1
    w2 = w2
    i1 = i1
    i2 = i2
    a = a
    b = b
    u = u
    v = v
    ok = ok
    d1 = d1
    None = None
    Workers = {w1, w2}
    Names = {1}
    Keys = {"page", "other"}
    Key <- MCKey
    Ids = {i1}
    Contents = {a, b}
    Urls = {u}
    Statuses = {ok}
    Destinations = {d1}
    Configured <- OneConfigured
    Every = 1
    FailureThreshold = 2
    MaxTime = 0
    MaxRevision = 5
SYMMETRY DataSymmetry
INVARIANTS
    TypeOK
    CopiesFaithful
    OneAlarmPerOutage
PROPERTY
    AnnouncedWithRecord
