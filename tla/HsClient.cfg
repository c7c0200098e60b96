CONSTANTS
    Procs = {p1, p2, p3}
    Nobody = Nobody
    Registered = FALSE
    Commands = {"register", "up", "down", "status", "serve"}
    Kills = 1
SYMMETRY Symmetry
SPECIFICATION Spec
INVARIANTS
    TypeOK RegisteredIsOnDisk RefusedOnlyUnregistered PidNamesUp
CHECK_DEADLOCK FALSE
