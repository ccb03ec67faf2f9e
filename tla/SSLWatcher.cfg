\* Two processes, whose ids may be used again, compete for one slot.
CONSTANTS
    Pid = {p1, p2}
    Goroutine = {g1, g2}
    MaxConcurrentAttach = 1
    MaxDrops = 1
    None = None
SPECIFICATION FairSpec
CHECK_DEADLOCK FALSE
INVARIANTS
    SlotsBalanced
    EveryProbeOwned
    NoDuplicateCapture
    SeenIsHandled
PROPERTIES
    DropsCountedOnce
    EventuallyNoProbes
