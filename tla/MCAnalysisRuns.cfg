SPECIFICATION FairSpec
CONSTANTS
    p1 = p1
    p2 = p2
    gap = gap
    shift = shift
    v1 = v1
    v2 = v2
    None = None
    Features = {gap}
    SkillFeatures = {gap}
    Values = {v1, v2}
    Pages = {p1, p2}
    Capacity = 2
    MaxRuns = 2
INVARIANTS
    TypeOK
    SlotsAccounted
    WorkIsRegistered
PROPERTIES
    UnflaggedIsCurrent
    PageSettles
CHECK_DEADLOCK FALSE
