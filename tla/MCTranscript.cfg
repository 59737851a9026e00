SPECIFICATION Spec
CONSTANTS
    r1 = r1
    r2 = r2
    smu = smu
    tamu = tamu
    m251 = m251
    math251 = math251
    cs = cs
    None = None
    TermKeys = {1, 2, 3}
    Codes = {m251, math251, cs}
    Normal <- MCNormal
    CatalogId <- MCCatalogId
    Letters = {"A", "F", "W", "Z"}
    Points <- MCPoints
    Institutions = {smu, tamu}
    Replaces = {smu}
    MaxPoints = 1
    Activation <- MCActivation
    Home = smu
    Verified = {smu}
    Reqs = {r1, r2}
    Kinds = {"upload", "review", "confirm", "edit"}
    FirstTerms <- OneTerm
    LastDay = 0
    Transcripts <- MCTranscripts
    NewCourses = {}
    Edits <- ReviewEdits
    MaxInputs = 2
    MaxFailures = 1
INVARIANTS
    OneRowPerTerm
    ExclusionsSound
    ReconciledIsPlan
SYMMETRY ReqSymmetry
CHECK_DEADLOCK FALSE
