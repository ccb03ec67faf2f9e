\* A request is answered by an interim response and then by the final one.
CONSTANTS
    Plans <- InterimPlans
    MaxConns = 1
    Timeouts = FALSE
    MaxMishaps = 0
    Pid = {1}
    Fd = {3}
    Ssl = {0}
    MaxHeld = 8
    MaxMsgs = 8
SPECIFICATION Spec
CHECK_DEADLOCK FALSE
INVARIANTS
    PairsEachRequestWithItsResponse
