SPECIFICATION FairSpec
CONSTANTS
    MaxNodes = 2
    MAX_POLLS = 3
INVARIANTS Safety
PROPERTIES PreserveKept DeployEnds
CHECK_DEADLOCK FALSE
