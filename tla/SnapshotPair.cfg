CONSTANTS
    a = a
    b = b
    c = c
    Threads = {loop, t1}
    EventLoop = loop
    Hosts = {a, b, c}
    PageCount <- MCPageCount
    SweepMax = 2
    NoSnap = NoSnap
    Initial <- OnA
    Saves <- Some
    SweepTime = 1
    MaxTtl = 1
    MaxTime = 2
    MaxCalls = 3
    MaxSaves = 2
SPECIFICATION Spec
CHECK_DEADLOCK FALSE
INVARIANTS
    TypeOK
    WholeOrMixed
PROPERTIES
    AgeBounded
