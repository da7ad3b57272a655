CONSTANTS
    QueryCatalog <- MCQueryCatalog
    None = None
    NotAnObject = NotAnObject
    Loop = loop
    Probes = {t1}
    Backends = {"local", "openai", "disabled"}
    Drafts <- MCDrafts
    Libraries <- MCLibraries
    Asks <- MCAsks
    MaxRequests = 4
    MaxProbes = 2
SPECIFICATION Spec
CHECK_DEADLOCK FALSE
INVARIANTS
    AnswersKept
    AsksConfigured
PROPERTIES
    RequestsEnd
