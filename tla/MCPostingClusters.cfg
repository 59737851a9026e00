SPECIFICATION FairSpec
CONSTANTS
    None = None
    Workday = {"w1", "w2", "w3"}
    Vendor = {"a1", "a2", "j"}
    Boards = {"r1"}
    Titles = {"Analyst", "Data Analyst", "Nurse"}
    Batches <- MCBatches
    Legacy = {"w1", "w2"}
    LegacyKey <- MCLegacyKey
    Ids = {1, 2, 3, 4, 5, 6, 7, 8}
    MaxFaults = 1
INVARIANT SweptClean
PROPERTIES IdentityKept OneRequisition Healed
