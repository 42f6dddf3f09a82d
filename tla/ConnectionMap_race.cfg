\* Two msquic workers: the queue is shared without a lock, and even a map whose
\* operations never harmed each other would not help.
SPECIFICATION Spec
CONSTANTS
    NoConn = NoConn
    Unwritten = Unwritten
    Conns = {c1, c2, c3}
    Workers = {w1, w2}
    StopThreads = {main}
    QueueCells = 3
    Garbage = {0, 1}
    MapTears = FALSE
SYMMETRY WorkerSymmetry
INVARIANT JobFindsContext
CHECK_DEADLOCK FALSE
