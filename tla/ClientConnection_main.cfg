\* Every call the module names may fail; the connection may end at any moment.
SPECIFICATION FairSpec
CONSTANTS
    RandomLength = 2
    MaxSecretLength = 3
    Secrets <- MCSecrets
    CallsFail = {"library", "registration", "configuration", "credential", "connect", "open",
                 "start", "new", "bind", "submit", "writev", "fopen"}
INVARIANTS TypeOK PumpFindsStreams NoStreamGetsAnothersData ReadyStreamsWork
INVARIANTS HandlesOutliveUse KeyLogReadsBack
PROPERTIES MainEnds HandleLifetimeKept
CHECK_DEADLOCK FALSE
