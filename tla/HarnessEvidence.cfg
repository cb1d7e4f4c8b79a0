CONSTANTS
    NChains = 2
    NClients = 1
    MaxRuns = 1
    Servable <- MCServable
    TlsClients <- MCTlsClients
    Echoing <- MCEchoing
    Locked = {}
SPECIFICATION Spec
INVARIANT EvidenceRedacted
CHECK_DEADLOCK FALSE
