SPECIFICATION FairSpec
CONSTANTS
    Reasons = {8, 201}
    IPs = {"ip1", "0.0.0.0"}
    RadioStatuses = {"IDLE", "FAILED", "OTHER"}
    AutoReconnect = TRUE
    BakedIn = TRUE
    NvsImages <- AllNvsImages
    RetryInterval = 1
    FirstRetries = 1
    ConnectTimeout = 1
    InitialTimeout = 2
    ApStaRetry = 1
    LongOutage = 1
    StrategyCount = 1
    LoopCount = 1
    MaxEvents = 1
PROPERTIES
    NoticesDrop
    SelfHeals
    BakedKeepsTrying
    FollowsRadio
