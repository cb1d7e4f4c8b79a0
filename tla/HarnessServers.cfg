CONSTANTS
    NChains = 2
    NClients = 1
    MaxRuns = 2
    Servable <- MCAllServable
    TlsClients <- MCTlsClients
    Echoing = {}
    Locked = {}
SPECIFICATION FairSpec
INVARIANTS ForeignServerIsOrphan OneServerPerChain
PROPERTY HangsOnlyInRunner
CHECK_DEADLOCK FALSE
