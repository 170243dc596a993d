\* Three commands, and a client's on the same WebSocket, whose id is also
\* the second that the connection gives out; no symmetry, because the run checks
\* a liveness property.
SPECIFICATION FairSpec
CONSTANTS
    c1 = c1
    c2 = c2
    c3 = c3
    Commands <- ThreeCommands
    StartId = 2
    Client = client
    ForeignIds <- Foreign
INVARIANTS
    ResumedOnce
    AnswersMatch
    NoneWaitsAfterDispose
PROPERTIES
    EveryCallGoesOn
