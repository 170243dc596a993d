\* Two requests, one with a directory of its own, and one killSessions call.
SPECIFICATION Spec
CONSTANTS
    r1 = r1
    r2 = r2
    r3 = r3
    k1 = k1
    Requests <- TwoRequests
    ManualDir <- OneManual
    Killers <- OneKiller
    NoBrowser = NoBrowser
INVARIANTS
    ListedSessionsWhole
    DirOutlivesBrowser
    KillSeesAllThrough
