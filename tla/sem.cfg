CONSTANTS
    Tasks = {a, b, c, d}
    Limits = {0, 1, 2, 3}
    MaxResizes = 3
    a = a
    b = b
    c = c
    d = d
SPECIFICATION FairSpec
INVARIANTS GateConsistent PermitsConserved
PROPERTIES EveryWaiterServed CapConverges
