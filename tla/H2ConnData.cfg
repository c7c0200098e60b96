CONSTANTS
    Statuses = {200}
    Window = 1
    MaxOthers = 0
SPECIFICATION Spec
INVARIANTS
    ReturnsDataReceived
CHECK_DEADLOCK FALSE
