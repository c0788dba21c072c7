SPECIFICATION FairSpec
CONSTANTS
    NJobs = 2
    Pids = {p1, p2}
    p1 = p1
    p2 = p2
    NoPid = NoPid
    Cap = 1
    NPages = 1
    NoJob = NoJob
    LaunchMayFail = FALSE
    Kinds = {"crash", "age"}
    MaxDisturbed = 1
PROPERTY JobsSettle
