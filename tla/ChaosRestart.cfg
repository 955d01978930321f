SPECIFICATION FairSpec
CONSTANTS
    MaxNodes = 3
    MIN_DELAY = 1
    MAX_DELAY = 3
    TARGET_COOLDOWN = 5
INVARIANTS TypeOK
PROPERTIES CooldownKept RestartsGoOn
CHECK_DEADLOCK FALSE
