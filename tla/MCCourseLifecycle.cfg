SPECIFICATION FairSpec
CONSTANTS
    r1 = r1
    r2 = r2
    smu = smu
    tamu = tamu
    m251 = m251
    math251 = math251
    cs = cs
    None = None
    TermKeys = {1, 2, 3}
    Codes = {m251, math251, cs}
    Normal <- MCNormal
    CatalogId <- MCCatalogId
    Letters = {"A"}
    Points <- PassPoints
    Institutions = {smu, tamu}
    Replaces = {smu}
    MaxPoints = 1
    Activation <- MCActivation
    Home = smu
    Verified = {smu}
    Reqs = {r1, r2}
    Kinds = {"page", "add", "remove", "finalize", "edit"}
    FirstTerms <- OneTerm
    LastDay = 1
    Transcripts = {}
    NewCourses <- PlanCourses
    Edits <- PlanEdits
    MaxInputs = 2
    MaxFailures = 1
INVARIANT PromotedOnce
PROPERTIES
    FulfilledNotLost
    HistoryKept
    DuePromoted
CHECK_DEADLOCK FALSE
