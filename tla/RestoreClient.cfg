\* Three transfers: one fails, one echoes, one fails late; the run may end.
SPECIFICATION FairClientSpec
CONSTANTS
    MaxWorkers = 3
    None = None
INVARIANTS RootCauseReported SuccessIsClean
PROPERTY FailureEndsTheRun
CHECK_DEADLOCK FALSE
