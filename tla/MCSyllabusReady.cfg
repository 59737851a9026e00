SPECIFICATION Spec
CONSTANTS
    t1 = t1
    t2 = t2
    clear = clear
    vague = vague
    fix = fix
    slip = slip
    None = None
    Plain = Plain
    Tabs = {t1, t2}
    Kinds = {"ingest", "correct", "confirm"}
    Sources = {"s1", "s2"}
    Extracts = {clear, vague}
    Batches = {fix, slip}
    Accepts <- MCAccepts
    Unknown = Unknown
    Vague = Vague
    Refused = Refused
    Readings <- MCReadings
    Lists <- MCLists
    Scores100 = {50, 75, 90}
    Points = 200
    MaxRequests = 4
    MaxFailures = 0
INVARIANT ReadyOnlyConfirmed
SYMMETRY TabSymmetry
CHECK_DEADLOCK FALSE
