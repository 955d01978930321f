SPECIFICATION FairSpec
CONSTANTS
    NodeCounts = {1, 2, 4}
    MaxFaults = 1
INVARIANTS Safety ReadyMeansConnected TimeoutReportsUnready
PROPERTIES BringUpEnds
CHECK_DEADLOCK FALSE
