CONSTANTS
    Writers = {w1, w2}
    Readers = {r1, r2}
    Nobody = Nobody
    NonceMod = 4
    MaxChunk = 2
    MaxLen = 3
    MaxCalls = 3
    MaxFails = 1
    MaxOthers = 1
SPECIFICATION FairSpec
INVARIANTS
    TypeOK InOrder WritesWhole DiesOnlyAfterFailure NonceUnique
PROPERTIES
    AllRead
CHECK_DEADLOCK FALSE
