SPECIFICATION Spec
CONSTANTS
    None = None
    NoLimit = None
    NodeCounts = {0, 1, 2}
    UserCounts = {0, 2, 3}
    Funds = {2, 5}
    OwnWallets <- MCOwnWallets
    GivenIds <- MCGivenIds
    Durations = {1000, 7000}
    Delays = {0, 5, 70}
    SlotTimes = {0, 1}
    SlotCoeffs = {0, 7, 50, 100}
    U64_MAX = 250
    MaxCalls = 3
INVARIANTS Safety WalletIsLastRequest GenesisIsSound BuiltMeansRunnable
CHECK_DEADLOCK FALSE
