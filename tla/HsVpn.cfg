CONSTANTS
    MaxConnects = 3
    MaxIntents = 4
    MaxStops = 4
    MaxDestroys = 1
SPECIFICATION FairSpec
INVARIANTS
    TypeOK RunningHasTunnel UpIsHeld
PROPERTIES
    DisconnectTakesDown
CHECK_DEADLOCK FALSE
