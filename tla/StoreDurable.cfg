CONSTANTS
    w1 = w1
    w2 = w2
    base_url = base_url
    cache_ttl = cache_ttl
    password = password
    old = old
    new = new
    word = word
    pound = pound
    short = short
    Workers = {w1, w2}
    Fields <- AllSettings
    IntFields = {cache_ttl}
    Values = {old, new, word, pound, short}
    Numbers = {old, new}
    Unset = Unset
    Defaults <- MCDefaults
    Parsed <- MCParsed
    Preset <- MCPreset
    FirstFile <- MCFirstFile
    Deployments <- MCDeployments
    Payloads <- MCPayloads
    MaxSaves = 3
    MaxCrashes = 2
SPECIFICATION Spec
CHECK_DEADLOCK FALSE
INVARIANTS
    TypeOK
    SurvivesRestart
