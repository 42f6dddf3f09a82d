\* One connection, a request stream and a unidirectional stream of the peer.
SPECIFICATION Spec
CONSTANTS
    Requests = {r1}
    PeerUni = {u1}
    MaxBuffers = 2
    CallsFail = {"open", "start"}
PROPERTY ReadFindsHttp3
CHECK_DEADLOCK FALSE
