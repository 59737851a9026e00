SPECIFICATION Spec
CONSTANTS
    None = None
    Courses <- MCCourses
    Rank <- MCRank
    Hours <- MCHours
    Groups <- MCGroups
    Top = {"top"}
    Program <- MCProgram
    Cap = 7
    Inputs <- WithdrawnInputs
INVARIANTS
    NeverSilentlyIncomplete
CHECK_DEADLOCK FALSE
