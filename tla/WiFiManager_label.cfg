SPECIFICATION Spec
CONSTANTS
    Reasons = {200, 201}
    IPs = {"ip1"}
    RadioStatuses = {"IDLE", "FAILED"}
    AutoReconnect = TRUE
    BakedIn = FALSE
    NvsImages <- StoredNvsOnly
    RetryInterval = 1
    FirstRetries = 1
    ConnectTimeout = 1
    InitialTimeout = 2
    ApStaRetry = 1
    LongOutage = 1
    StrategyCount = 1
    LoopCount = 1
    MaxEvents = 1
INVARIANTS
    NoApMeansScanMiss
