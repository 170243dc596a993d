\* Two requests; the watchdog ends what nobody else does.
SPECIFICATION FairSpec
CONSTANTS
    r1 = r1
    r2 = r2
    r3 = r3
    k1 = k1
    Requests <- TwoRequests
    ManualDir <- NoSet
    Killers <- NoSet
    NoBrowser = NoBrowser
PROPERTIES
    SessionsEnd
    ImplementsSessionLife
