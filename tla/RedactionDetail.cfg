CONSTANTS
    Root <- MCRoot
    Words <- MCWords
    Reading <- MCReading
    Replacement = "fffd"
    MaxWords = 4
    DetailLimit = 5
    LineLimit = 4
SPECIFICATION Spec
INVARIANT NoPathInDetail
CHECK_DEADLOCK FALSE
