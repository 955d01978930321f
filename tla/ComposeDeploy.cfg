SPECIFICATION FairSpec
CONSTANT BLOCK_FEED_MAX_ATTEMPTS = 5
INVARIANTS Safety StackIsServed
PROPERTY DeployEnds
CHECK_DEADLOCK FALSE
