\* One thread delivers every event, STOP_COMPLETE included.
SPECIFICATION FairSpec
CONSTANTS
    NoConn = NoConn
    Unwritten = Unwritten
    Conns = {c1, c2, c3}
    Workers = {w1}
    StopThreads = {w1}
    QueueCells = 3
    Garbage = {0, 1}
    MapTears = TRUE
INVARIANTS OpenConnectionKeepsContext MapHoldsLiveContexts JobFindsContext ClosedIsPending JobReclaimsAll
PROPERTIES ContextLifetimeKept ReclaimedByNextCallback
CHECK_DEADLOCK FALSE
