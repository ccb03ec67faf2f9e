\* Two exchanges on each of two connections of a descriptor, with early and
\* interim responses, timeouts and one mishap.
CONSTANTS
    Plans <- AllPlans
    MaxConns = 2
    Timeouts = TRUE
    MaxMishaps = 1
    Pid = {1}
    Fd = {3}
    Ssl = {0}
    MaxHeld = 2
    MaxMsgs = 8
SPECIFICATION FairSpec
CHECK_DEADLOCK FALSE
INVARIANTS
    FramedByItsRequest
    RightExchange
PROPERTIES
    NothingAfterClose
    CaptureEnds
