CONSTANTS
    Handlers = {h1, h2}
    NoHandler = NoHandler
    Preloaded = 0
    MaxNodes = 1
    MaxTime = 1
    MaxDeaths = 1
SPECIFICATION FairSpec
PROPERTIES
    RequestsAnswered
CHECK_DEADLOCK FALSE
