SPECIFICATION FairSpec
CONSTANTS
    Workload = {w1, w2, w3}
    NumExpectations = 2
INVARIANTS Safety NoFailureLost QuietWhenJudged EarlyMeansFinished
PROPERTIES ContractKept RunAndTasksEnd
CHECK_DEADLOCK FALSE
