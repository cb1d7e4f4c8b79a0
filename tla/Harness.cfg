CONSTANTS
    NChains = 2
    NClients = 2
    MaxRuns = 2
    Servable <- MCServable
    TlsClients <- MCTlsClients
    Echoing <- MCEchoing
    Locked <- MCLocked
SPECIFICATION Spec
INVARIANTS TypeOK EveryPairAccounted SkipIsExplained CellsHaveCleanEvidence OksHaveEvidence MatrixFollowsResults
PROPERTY ImplementsSurvey
CHECK_DEADLOCK FALSE
