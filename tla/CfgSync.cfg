SPECIFICATION FairSpec
CONSTANTS
    NumHosts = 3
    Address = {"x", "y"}
    MaxAttempts = 2
    MaxRestarts = 3
INVARIANTS Safety
PROPERTIES CollectedAreAnswered
CHECK_DEADLOCK FALSE
