CONSTANTS
    Procs = {1, 2, 3, 4}
    Nobody = 0
    Registered = FALSE
    Commands = {"register", "up", "down", "status"}
    Kills = 1
    Refreshes = {1}
SPECIFICATION FairSpec
INVARIANTS
    TypeOK NoOrphan
PROPERTIES
    RefreshTellsTruth DisconnectEnds
CHECK_DEADLOCK FALSE
