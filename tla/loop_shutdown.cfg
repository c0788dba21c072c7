SPECIFICATION Spec
CONSTANTS
    Keys = {k1, k2}
    Turns = {t1, t2}
    k1 = k1
    k2 = k2
    t1 = t1
    t2 = t2
    None = None
    Kinds = {"plain", "inject", "stop", "command"}
    MaxMessages = 4
    MaxRestarts = 1
    QueueCap = 4
    Batch = 1
    MaxCycles = 1
    PublishPhases = {"starting", "serving", "closing", "draining", "drained"}
    MatchersAwait = TRUE
    ConsumerYields = FALSE
CHECK_DEADLOCK FALSE
SYMMETRY Symmetry
INVARIANT WaitingKept
INVARIANT NoCompetingTurns
