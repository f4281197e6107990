SPECIFICATION Spec
CONSTANTS
    Kind <- PlainKind
    Parts <- PlainParts
    MaxRead = 2
    MaxLine = 2
    MaxFiles = 2
    MaxTruncations = 0
    Outages = {}
INVARIANT NoLineSkippedByRotation
CHECK_DEADLOCK FALSE
