CONSTANTS
    h1 = h1
    h2 = h2
    h3 = h3
    u1 = u1
    u2 = u2
    Threads = {loop, t1}
    EventLoop = loop
    Keys = {k1}
    NoKey = NoKey
    Hosts = {h1, h2}
    Users = {u1, u2}
    NoUser = NoUser
    NoHost = NoHost
    NoToken = NoToken
    NoEntry = NoEntry
    Accounts <- MCAccounts
    KeycloakHosts = {h1, h3}
    LegacyHosts = {h1, h2}
    Refusing = {h3}
    FixedBearer = NoToken
    Initial <- OnH1
    Saves <- ToH2OrBad
    Rejected <- BadTtl
    Latency = 1
    MaxTtl = 1
    MaxTime = 2
    MaxRequests = 3
    MaxSaves = 1
    MaxExpiries = 0
    MaxFaults = 0
SPECIFICATION Spec
CHECK_DEADLOCK FALSE
INVARIANTS
    FetchedInForce
    SavedInstanceRead
PROPERTIES
    PromiseKept
