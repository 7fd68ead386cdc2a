SPECIFICATION FairSpec
CONSTANTS
    r1 = r1
    r2 = r2
    r3 = r3
    i1 = i1
    i2 = i2
    Request <- MCRequest
    Install <- MCInstall
    InstallOf <- MCInstallOf
    Playing <- MCPlaying
    Pages <- TwoOrders
    HealthThreshold = 3
    SearchTtl = 1
    Grace = 1
    FailTtl = 2
    MaxTime = 3
    MaxLosses = 1
INVARIANT PicksIgnoreOrder
PROPERTIES NoFreshListReplaced FailureStaysWithTheInstall EveryRequestAnswered
CHECK_DEADLOCK FALSE
