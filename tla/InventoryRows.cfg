CONSTANTS
    c1 = c1
    c2 = c2
    c3 = c3
    s1 = s1
    s2 = s2
    s3 = s3
    s4 = s4
    n1 = n1
    n2 = n2
    n3 = n3
    n4 = n4
    n5 = n5
    n6 = n6
    Ids = {c1, c2, c3, s1, s2, s3, s4}
    NoId = NoId
    Names = {n1, n2, n3, n4, n5, n6}
    NoName = NoName
    Catalogues <- MCCatalogues
    Facets <- MCFacets
SPECIFICATION Spec
CHECK_DEADLOCK FALSE
INVARIANTS
    TypeOK
    OneOrigin
    OneSourcePerConnection
    ConnectionNamesSource
