CONSTANTS
    Reads = {r1, r2}
    Pumps = {p1}
    Sector = 4
    DwordLimit = 16
    FileSize = 10
    Offsets = {0, 3, 9}
    Sizes = {1, 4, 15}
SPECIFICATION FairSpec
INVARIANTS
    TypeOK
    PagesOutliveTheRead
    ResumedOnce
    SuccessGivesAllBytes
PROPERTY EveryReadResumes
CHECK_DEADLOCK FALSE
