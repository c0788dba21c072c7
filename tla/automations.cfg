SPECIFICATION Spec
CONSTANTS
    mail = mail
    digest = digest
    e1 = e1
    e2 = e2
    t1 = t1
    Autos = {mail, digest}
    Single = {mail, digest}
    Chain <- AThenB
    ChainWhen = {"achieved"}
    Events = {e1, e2}
    AutoOf <- AllOfA
    Threads = {t1}
    ThreadOf <- FirstOnThread
    NoThread = NoThread
    MaxAttempts = 2
    OnStuck = "escalate_pause"
    Kinds = {"crash", "shutdown", "toggle", "stop", "fault"}
    MaxDisturbed = 1
    MaxParks <- OnlyAAsks
CHECK_DEADLOCK FALSE
INVARIANT RunsConsistent
INVARIANT OneActive
INVARIANT WorkOnce
INVARIANT EventKept
INVARIANT NobodyStranded
INVARIANT ClaimKept
PROPERTY SettledStays
