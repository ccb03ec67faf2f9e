\* The first process that used the library exits; the second is attached.
CONSTANTS
    Pid = {p1, p2}
    Goroutine = {g1, g2}
    MaxConcurrentAttach = 1
    MaxDrops = 1
    None = None
SPECIFICATION FairSpec
CHECK_DEADLOCK FALSE
INVARIANTS
    AttachPathExists
