CONSTANTS
    NRows = 3
    Keyed <- MCKeyed
    MaxRuns = 2
SPECIFICATION FairSpec
INVARIANTS TypeOK RowsAreFresh NothingLeftBehind PeerIsOwnOrOrphan SweepIsWhole
PROPERTY SweepEnds
CHECK_DEADLOCK FALSE
