SPECIFICATION FairSpec
CONSTANTS
    Reasons = {202}
    IPs = {}
    RadioStatuses = {"FAILED"}
    AutoReconnect = FALSE
    BakedIn = FALSE
    NvsImages <- StoredNvsOnly
    RetryInterval = 1
    FirstRetries = 1
    ConnectTimeout = 1
    InitialTimeout = 2
    ApStaRetry = 1
    LongOutage = 1
    StrategyCount = 2
    LoopCount = 1
    MaxEvents = 1
PROPERTIES
    CampaignEnds
