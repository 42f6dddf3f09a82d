\* One connection with one request stream; every call the module names may fail.
SPECIFICATION FairSpec
CONSTANTS
    Requests = {r1}
    PeerUni = {}
    MaxBuffers = 2
    CallsFail = {"new", "open", "start", "bind", "read"}
INVARIANTS TypeOK StreamsFoundById BoundStreamsAreOurs EndComesLast
PROPERTIES ConnectedBecomesReady Http3InitEndsOrSpins
CHECK_DEADLOCK FALSE
