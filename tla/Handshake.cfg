CONSTANTS
    Dialers = {d1, d2}
    MaxRekeys = 1
SPECIFICATION FairSpec
INVARIANTS
    TypeOK Agreement HonestIsAccepted ConnSettled
PROPERTIES
    DialEnds
CHECK_DEADLOCK FALSE
