SPECIFICATION Spec
CONSTANTS
    c1 = c1
    c2 = c2
    old = old
    new = new
    g1 = g1
    a = a
    b = b
    v1 = v1
    v2 = v2
    None = None
    Tabs = {c1, c2}
    Processes = {old, new}
    IdentityOf <- MCIdentityOf
    Identities <- MCIdentities
    Sources = {"requirement_groups"}
    Values = {v1, v2}
    Groups = {g1}
    Candidates = {a}
    LiveGroups <- MCLiveGroups
    SatisfiedBy <- MCSatisfiedBy
    Valid <- MCValid
    InitialStudentRevisions = {0, 1}
    MaxRevision = 2
INVARIANT WriteGuarded
SYMMETRY TabSymmetry
PROPERTIES
    ImplementsStore
    AppliedUnderOwnSemantics
    NoLostUpdate
    OnlyValidSetsStored
CHECK_DEADLOCK FALSE
