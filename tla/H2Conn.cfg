CONSTANTS
    Statuses = {200, 403}
    Window = 2
    MaxOthers = 2
SPECIFICATION FairSpec
INVARIANTS
    TypeOK ResponseIsAnswer
PROPERTIES
    DeadlineReturns AnswerReturns ReadersEnd
CHECK_DEADLOCK FALSE
