\* Three requests under a concurrency and a queue length that a config event may change
\* at any time; no symmetry, because the run checks liveness and a refinement.
SPECIFICATION FairSpec
CONSTANTS
    r1 = r1
    r2 = r2
    r3 = r3
    Requests <- ThreeRequests
    ConcurrencyValues <- OneOrTwo
    QueuedValues <- NoneOrTwo
    HealthChecks = {TRUE, FALSE}
    Overrides = {"none", "timer", "noTimer"}
INVARIANTS
    SlotsCounted
PROPERTIES
    WithinLimits
    ImplementsAdmission
    EveryRequestServed
