CONSTANTS
    h1 = h1
    h2 = h2
    h3 = h3
    u1 = u1
    u2 = u2
    Threads = {loop, t1}
    EventLoop = loop
    Keys = {k1}
    NoKey = NoKey
    Hosts = {h1}
    Users = {u1, u2}
    NoUser = NoUser
    NoHost = NoHost
    NoToken = NoToken
    NoEntry = NoEntry
    Accounts <- MCAccounts
    KeycloakHosts = {h1, h3}
    LegacyHosts = {h1, h2}
    Refusing = {h3}
    FixedBearer = NoToken
    Initial <- OnH1
    Saves <- Nothing
    Rejected <- Nothing
    Latency = 1
    MaxTtl = 2
    MaxTime = 1
    MaxRequests = 3
    MaxSaves = 0
    MaxExpiries = 1
    MaxFaults = 0
SPECIFICATION Spec
CHECK_DEADLOCK FALSE
INVARIANTS
    OneStrikeMasked
