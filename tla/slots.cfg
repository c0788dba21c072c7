CONSTANTS
    Turns = {t1, t2, t3}
    Subagents = {s1}
    NoTurn = NoTurn
    LaneLimit = 2
    CeilingLimit = 1
    t1 = t1
    t2 = t2
    t3 = t3
    s1 = s1
SPECIFICATION FairSlotsSpec
INVARIANT SlotsConsistent
PROPERTIES OtherChatsRun SubagentsFinish
CHECK_DEADLOCK FALSE
