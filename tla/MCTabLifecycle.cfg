\* One tab attached up to twice; the teardown at any moment.
SPECIFICATION Spec
CONSTANTS
    t1 = t1
    t2 = t2
    Targets <- OneTarget
    MaxAttach = 2
    MaxEvents = 1
    NoTarget = NoTarget
INVARIANTS
    AnnouncedIsStored
    ClosedMeansAnnounced
    NoGhostFibers
PROPERTIES
    DestroyEnds
