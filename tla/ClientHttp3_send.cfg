\* Two callers; submitting, picking a stream and sending may fail, and the connection may end.
SPECIFICATION FairSpec
CONSTANTS
    Callers = {c1, c2}
    Http3Streams = {control}
    Vectors <- MCVectors
    MaxVectors = 2
    CallsFail = {"submit", "send", "writev"}
INVARIANTS TypeOK WriteIsCurrent SentInOrder ArraysHaveOneOwner NothingLeftBehind
PROPERTY SendReturns
CHECK_DEADLOCK FALSE
