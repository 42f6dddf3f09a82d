\* Two msquic workers, and the application thread that closes the listener.
SPECIFICATION Spec
CONSTANTS
    NoConn = NoConn
    Unwritten = Unwritten
    Conns = {c1, c2, c3}
    Workers = {w1, w2}
    StopThreads = {main}
    QueueCells = 3
    Garbage = {0, 1}
    MapTears = TRUE
SYMMETRY WorkerSymmetry
INVARIANTS TypeOK NewIdIsFree
CHECK_DEADLOCK FALSE
