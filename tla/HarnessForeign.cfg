CONSTANTS
    NChains = 2
    NClients = 1
    MaxRuns = 2
    Servable <- MCAllServable
    TlsClients <- MCTlsClients
    Echoing = {}
    Locked = {}
SPECIFICATION Spec
INVARIANT HandshakeWithOwnChain
CHECK_DEADLOCK FALSE
