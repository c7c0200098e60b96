CONSTANTS
    MaxConnects = 1
    MaxIntents = 2
    MaxStops = 2
    MaxDestroys = 0
SPECIFICATION Spec
INVARIANTS
    ButtonDisconnects
CHECK_DEADLOCK FALSE
