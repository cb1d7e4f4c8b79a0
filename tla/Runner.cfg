SPECIFICATION Spec
INVARIANTS TypeOK OkIsEarned VerdictIsNotExitCode
PROPERTY KeepsContract
CHECK_DEADLOCK FALSE
