CONSTANTS
    s1 = s1
    s2 = s2
    Sources = {s1, s2}
    NoSource = NoSource
    Entities <- MCEntities
    NoScore = NoScore
    MaxEntities = 6
    NameRank <- MCNameRank
    SweepMax = 5
    WorstLimit = 3
    WorstKeep = 2
    WorstShown = 2
    RowLimit = 2
SPECIFICATION Spec
CHECK_DEADLOCK FALSE
INVARIANTS
    TypeOK
    WorstExact
    SourcesAddUp
    CapExact
    BandsWithinDatasets
