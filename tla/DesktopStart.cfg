CONSTANTS
    MaxStarts = 3
    MaxPolls = 2
SPECIFICATION FairSpec
CHECK_DEADLOCK FALSE
INVARIANTS
    TypeOK
    NoOrphan
    AppHasAnswered
PROPERTIES
    FastFailTrue
    SplashEnds
