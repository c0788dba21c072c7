SPECIFICATION FairSpec
CONSTANTS
    Asks = {"approval", "question"}
    MaxRecords = 2
    MaxAsks = 2
    Kinds = {"stop", "crash", "change"}
    MaxDisturbed = 2
CHECK_DEADLOCK FALSE
INVARIANT WaitConsistent
INVARIANT RunsOnce
INVARIANT VerdictKept
PROPERTY DecisionsHold
PROPERTY NothingHangs
