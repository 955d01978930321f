SPECIFICATION FairSpec
CONSTANTS
    Block <- MCBlock
    Genesis = "g"
    ZeroId = "zero"
    Parent <- MCParent
    Height <- MCHeight
    BlockTxs <- MCBlockTxs
    Account = {"x", "y", "z"}
    Capture = {"c1"}
    Tracked <- MCTracked
    Capacity = 2
    MaxFailures = 2
INVARIANTS Safety ParentsFirst SeenIsIngested StatsExact CaptureExact
PROPERTIES TipObserved CapturesEnd
CHECK_DEADLOCK FALSE
