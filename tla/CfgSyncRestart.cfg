SPECIFICATION FairSpec
CONSTANTS
    NumHosts = 3
    Address = {"x"}
    MaxAttempts = 2
    MaxRestarts = 1
PROPERTIES EveryRequestAnswered
CHECK_DEADLOCK FALSE
