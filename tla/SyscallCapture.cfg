\* Two threads of applications and one of tinytap, maps of one entry, a ring
\* buffer of one event: every capacity is reached.
CONSTANTS
    Tid = {t1, t2, own}
    Own = {own}
    MapSize = 1
    RingSize = 1
    MaxCalls = 4
SPECIFICATION Spec
SYMMETRY Symmetry
CHECK_DEADLOCK FALSE
INVARIANTS
    EntriesOfCallsUnderWay
    SampleIsOwn
    NoSilentLoss
