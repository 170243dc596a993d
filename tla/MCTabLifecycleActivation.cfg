\* A second targetInfoChanged interrupts the activation of the first.
SPECIFICATION Spec
CONSTANTS
    t1 = t1
    t2 = t2
    Targets <- OneTarget
    MaxAttach = 1
    MaxEvents = 0
    NoTarget = NoTarget
INVARIANT
    ActivatedMeansProvisioned
