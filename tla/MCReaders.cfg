\* Targets of two names that collide, which two processes check, remove and add while a
\* reader shows a change.
SPECIFICATION ReadersSpec
CONSTANTS
    w1 = w1
    w2 = w2
    i1 = i1
    i2 = i2
    a = a
    b = b
    u = u
    ok = ok
    d1 = d1
    None = None
    Workers = {w1, w2}
    Names = {1, 2}
    Keys = {"page"}
    Key <- MCKey
    Ids = {i1, i2}
    Contents = {a, b}
    Urls = {u}
    Statuses = {ok}
    Destinations = {d1}
    Configured <- AllConfigured
    Every = 1
    FailureThreshold = 3
    MaxTime = 1
    MaxRevision = 2
SYMMETRY Symmetry
INVARIANTS
    NamesIndexed
    SnapshotsPresent
    NoOrphans
    HistoryTimeOrdered
    NoMissedChange
    ChangesShowable
    ChangeConnected
PROPERTIES
    NoRollback
    LatestChosen
