\* Three connections over two SSL objects and two descriptors, a ring buffer
\* of two events and maps of one entry.  Two exchanges, on one connection or on
\* two, and two mishaps, a timeout among them or not.
CONSTANTS
    TLSConn = {c1, c2, c3}
    SSLPtr = {7, 8}
    MaxExchanges = 2
    MaxRequests = 2
    RingCap = 2
    MapCap = 1
    MaxMishaps = 2
    None = None
    Pid = {1}
    Fd = {0, 3, 4}
    Ssl = {0, 7, 8}
    MaxHeld = 4
    MaxMsgs = 7
SPECIFICATION Spec
SYMMETRY Symmetry
CHECK_DEADLOCK FALSE
INVARIANTS
    RightExchange
    OneKey
    OnlyFreedAbandoned
    FreeTearsDown
    NoSilentLoss
