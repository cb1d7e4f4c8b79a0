CONSTANTS
    NChains = 2
    MaxCalls = 2
SPECIFICATION Spec
INVARIANTS TypeOK PeerIsNotEarlierChain TraceIsOfOneClient
    LogIsOfRow
PROPERTY CallsEnd
CHECK_DEADLOCK FALSE
