SPECIFICATION Spec
CONSTANTS
    None = None
    Courses <- MCCourses
    Rank <- MCRank
    Hours <- MCHours
    Groups <- MCGroups
    Top = {"top"}
    Program <- MCProgram
    Cap = 7
    Inputs <- MCInputs
INVARIANTS
    OrderKept
    HoursCapped
    NothingDropped
    NeverSilentlyIncomplete
    ChoicesHonoured
CHECK_DEADLOCK FALSE
