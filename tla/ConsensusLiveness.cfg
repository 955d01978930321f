SPECIFICATION FairSpec
CONSTANTS
    NumNodes = 3
    Setting <- MCSetting
    LAG_ALLOWANCE_MAX = 5
    MIN_PROGRESS_BLOCKS = 5
    REQUEST_RETRIES = 2
INVARIANTS Safety NoFalseAlarm
PROPERTIES EvaluationEnds
CHECK_DEADLOCK FALSE
