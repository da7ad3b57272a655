CONSTANTS
    h1 = h1
    h2 = h2
    h3 = h3
    u1 = u1
    u2 = u2
    Threads = {loop}
    EventLoop = loop
    Keys = {k1}
    NoKey = NoKey
    Hosts = {h1, h2, h3}
    Users = {u1, u2}
    NoUser = NoUser
    NoHost = NoHost
    NoToken = NoToken
    NoEntry = NoEntry
    Accounts <- MCAccounts
    KeycloakHosts = {h1, h3}
    LegacyHosts = {h1, h2}
    Refusing = {h3}
    FixedBearer = NoToken
    Initial <- OnH1
    Saves <- Every
    Rejected <- BadTtl
    Latency = 1
    MaxTtl = 1
    MaxTime = 2
    MaxRequests = 3
    MaxSaves = 2
    MaxExpiries = 1
    MaxFaults = 1
SPECIFICATION FairSpec
CHECK_DEADLOCK FALSE
INVARIANTS
    TypeOK
    SavedInstanceRead
    OneStrikeMasked
PROPERTIES
    CallsEnd
