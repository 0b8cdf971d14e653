\* Three targets; a sleep lasts up to three units, an interval four.
SPECIFICATION FairSpec
CONSTANTS
    Targets = {1, 2, 3}
    Absent = Absent
    Every = 4
    MaxWait = 3
    Floor = 1
    Behind = 1
    Jumps <- MCJumps
INVARIANTS
    TypeOK
    Alert
PROPERTY
    EventuallyChecked
