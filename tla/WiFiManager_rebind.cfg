SPECIFICATION Spec
CONSTANTS
    Reasons = {201, 202}
    IPs = {"ip1"}
    RadioStatuses = {"IDLE", "FAILED"}
    AutoReconnect = TRUE
    BakedIn = FALSE
    NvsImages <- StoredNvsOnly
    RetryInterval = 1
    FirstRetries = 1
    ConnectTimeout = 1
    InitialTimeout = 2
    ApStaRetry = 1
    LongOutage = 1
    StrategyCount = 2
    LoopCount = 2
    MaxEvents = 1
INVARIANTS
    ConnectRearmsRebind
