SPECIFICATION FairSpec
PROPERTY FailureTerminatesBoth
CHECK_DEADLOCK FALSE
