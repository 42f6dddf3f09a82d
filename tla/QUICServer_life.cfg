\* Two connections; every call the module names may fail.
SPECIFICATION FairSpec
CONSTANTS
    Conns = {c1, c2}
    CallsFail = {"library", "registration", "configuration", "credential", "listener", "start",
                 "configure"}
INVARIANTS TypeOK HandlesOutliveUse EverythingIsReleased
PROPERTIES ServerEnds HandleLifetimeKept
CHECK_DEADLOCK FALSE
