CONSTANTS
    Procs = {p1, p2}
    Nobody = Nobody
    Registered = TRUE
    Commands = {"up", "down"}
    Kills = 0
SPECIFICATION FairSpec
PROPERTIES
    DownDisconnects
CHECK_DEADLOCK FALSE
