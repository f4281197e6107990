SPECIFICATION Spec
CONSTANTS
    Kind <- MCKind
    Parts <- MCParts
    MaxRead = 2
    MaxLine = 2
    MaxFiles = 2
    MaxTruncations = 1
    Outages = {"dir"}
INVARIANTS ReadIsEmitted EmittedInOrder DistinctIds FinalPassCatchesUp
PROPERTIES BlindIsReported CatchesUp
CHECK_DEADLOCK FALSE
