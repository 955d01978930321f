SPECIFICATION FairSpec
CONSTANTS
    MaxWallets = 3
    NoLimit = NoLimit
    UserLimit = {NoLimit, 2}
    Rate = {1, 2}
    RUN_DURATION = 4
    IntervalHint = {0, 1, 6}
    NumClients = 2
    Branches = 2
    SUBMIT_RETRIES = 2
    MaxLosses = 1
    CATCHUP_POLLS = 2
INVARIANTS Safety
PROPERTIES RunEnds
CHECK_DEADLOCK FALSE
