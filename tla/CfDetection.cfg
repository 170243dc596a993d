\* One page, two challenges, three signals from the page.
SPECIFICATION FairSpec
CONSTANTS
    MaxDetections = 2
    MaxSignals = 3
    MaxAttempts = 2
    MaxRechallenges = 2
    MaxWidgetReloads = 1
    MaxClickRetries = 1
\* The tab may close and the session end.
CHECK_DEADLOCK FALSE
INVARIANTS
    RegistryExact
    HandlerAlive
    GhostFree
PROPERTIES
    ImplementsChallengeLife
    NoZombie
    EmbeddedSolveTold
