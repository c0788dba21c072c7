SPECIFICATION FairSpec
CONSTANTS
    Keys = {k1, k2}
    Turns = {t1, t2}
    k1 = k1
    k2 = k2
    t1 = t1
    t2 = t2
    None = None
    Kinds = {"plain", "inject", "stop", "command"}
    MaxMessages = 3
    MaxRestarts = 0
    QueueCap = 3
    Batch = 1
    MaxCycles = 1
    PublishPhases = {"starting", "serving"}
    MatchersAwait = FALSE
    ConsumerYields = TRUE
CHECK_DEADLOCK FALSE
PROPERTY KeepsLedger
PROPERTY EventuallySettled
