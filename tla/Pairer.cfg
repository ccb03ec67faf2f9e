\* One process, one descriptor and one SSL*: three keys, one of them the key
\* of NULL, which Push refuses.  One held response at most, so that a second
\* evicts across keys.
CONSTANTS
    Pid = {1}
    Fd = {3}
    Ssl = {0, 7}
    MaxHeld = 1
    MaxMsgs = 4
SPECIFICATION FairSpec
CHECK_DEADLOCK FALSE
INVARIANTS
    HeldBound
    NoRequestLost
    PairedByPosition
PROPERTIES
    ImplementsContract
    EveryRequestSettled
