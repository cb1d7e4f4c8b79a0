SPECIFICATION Spec
INVARIANT FailIsVerdict
CHECK_DEADLOCK FALSE
