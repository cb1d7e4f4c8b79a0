CONSTANTS
    Root <- MCRoot
    Words <- MCWords
    Reading <- MCReading
    Replacement = "fffd"
    MaxWords = 4
    DetailLimit = 5
    LineLimit = 4
SPECIFICATION Spec
INVARIANTS NoPathLeft EvidenceIsFaithful
CHECK_DEADLOCK FALSE
