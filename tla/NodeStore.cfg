CONSTANTS
    Handlers = {h1, h2}
    NoHandler = NoHandler
    Preloaded = 0
    MaxNodes = 2
    MaxTime = 2
    MaxDeaths = 1
SYMMETRY Symmetry
SPECIFICATION Spec
INVARIANTS
    TypeOK KnownSurvive NoAddressReuse HeadscaleKnowsRegistered
    ReadsAreFresh AckedDurable
PROPERTIES
    NodesOnlyGrow ImplementsRegistry
CHECK_DEADLOCK FALSE
