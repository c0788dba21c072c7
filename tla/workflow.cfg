SPECIFICATION FairSpec
CONSTANTS
    p1 = p1
    p2 = p2
    Procs = {p1, p2}
    NCalls = 3
    Kinds = {"answer", "tool", "cancel", "stop"}
    Nobody = Nobody
CHECK_DEADLOCK FALSE
INVARIANT InOneHand
INVARIANT OneWinner
PROPERTY NoGhost
