SPECIFICATION Spec
CONSTANTS
    NJobs = 2
    Pids = {p1, p2}
    p1 = p1
    p2 = p2
    NoPid = NoPid
    Cap = 1
    NPages = 2
    NoJob = NoJob
    LaunchMayFail = TRUE
    Kinds = {"crash", "stop", "retry"}
    MaxDisturbed = 2
SYMMETRY Symmetry
INVARIANT JobsConsistent
INVARIANT DoneIsComplete
PROPERTY ProgressKept
