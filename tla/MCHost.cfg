\* Snapshots and the service unit of one host whose power may fail.
SPECIFICATION HostSpec
CONSTANTS
    a = a
    b = b
    c = c
    p1 = p1
    p2 = p2
    unitA = unitA
    unitB = unitB
    i1 = i1
    i2 = i2
    Absent = Absent
    Torn = Torn
    None = None
    NoUnit = NoUnit
    Restarting = Restarting
    Paths <- MCPaths
    Contents = {a, b, c}
    Procs = {p1, p2}
    Announcing = {p1}
    MaxVersion = 3
    Unit <- UnitPath
    Units = {unitA, unitB}
    Installers = {i1, i2}
    Families = {"data", "service"}
SYMMETRY Symmetry
INVARIANTS
    SnapshotsKept
    PromiseKept
PROPERTY
    DoctorHonest
