\* Two dispatches of one instance; one pooled browser with two tabs, two over time.
SPECIFICATION FairSpec
CONSTANTS
    j1 = j1
    j2 = j2
    i1 = i1
    Jobs <- TwoJobs
    Instances <- OneInstance
    PoolSize = 1
    TabsPerBrowser = 2
    MaxBrowsers = 2
    Observations <- FourObservations
\* Every dispatch may be over and every browser used up.
CHECK_DEADLOCK FALSE
INVARIANTS
    PermitsExact
    RetryIsFresh
    BurnedTokenLeft
    EgressAttributed
PROPERTIES
    RotatedForAFailure
    DispatchEnds
