SPECIFICATION Spec
CONSTANTS
    j1 = j1
    j2 = j2
    j3 = j3
    p1 = p1
    p2 = p2
    Jobs = {j1, j2, j3}
    Services = {p1, p2}
    Schedules <- OneShotAndInterval
    Slots = 2
    Grace = 0
    Kinds = {"remove", "switch", "reschedule", "byhand", "look", "crash", "torn"}
    MaxTime = 3
    MaxEdits = 1
    MaxCrashes = 1
CHECK_DEADLOCK FALSE
SYMMETRY Symmetry
INVARIANT CronConsistent
INVARIANT FiredOnce
INVARIANT OwedKept
INVARIANT OwnersWordKept
