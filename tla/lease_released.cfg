SPECIFICATION FairSpec
CONSTANTS
    Procs = {gateway, tui}
    gateway = gateway
    tui = tui
    Threads <- SomeThreads
    TurnRoles = {turn}
    SaverRoles = {rename}
    turn = turn
    rename = rename
    NoClient = NoClient
    Clients <- SomeClients
    MaxDeaths = 1
INVARIANT LeaseConsistent
INVARIANT LockHasAHolder
PROPERTY LockGivenBack
