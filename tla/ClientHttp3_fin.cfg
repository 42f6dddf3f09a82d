\* The program's one caller, and no call fails.
SPECIFICATION Spec
CONSTANTS
    Callers = {main}
    Http3Streams = {control, encoder, decoder}
    Vectors <- MCVectors
    MaxVectors = 16
    CallsFail = {}
INVARIANT FinWithLastBuffer
CHECK_DEADLOCK FALSE
