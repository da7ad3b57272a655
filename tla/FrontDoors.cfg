CONSTANTS
    again = again
    tweak = tweak
    fresh = fresh
    wrong = wrong
    shippedBoard = shippedBoard
    newBoard = newBoard
    reader = reader
    writer = writer
    stranger = stranger
    odd = odd
    r1 = r1
    r2 = r2
    r3 = r3
    Requests = {r1, r2, r3}
    Doors = {"web", "http", "stdio"}
    Environments <- MCEnvironments
    ApiKeys <- MCApiKeys
    Claims <- MCClaims
    RoleMap <- MCRoleMap
    NoToken = NoToken
    Nobody = Nobody
    Tokens = {reader, writer, odd, stranger, NoToken}
    Specs = {again, tweak, fresh, wrong}
    Slug <- MCSlug
    Invalid = {wrong}
    Shipped = {shippedBoard}
    BuiltIn = BuiltIn
    NoFile = NoFile
    Empty = Empty
    Torn = Torn
    Unsure = Unsure
    MaxCrashes = 1
SYMMETRY Interchangeable
SPECIFICATION Spec
CHECK_DEADLOCK FALSE
INVARIANTS
    TypeOK
    ReadsLastSave
    AuditedWrites
    DoorsAgree
