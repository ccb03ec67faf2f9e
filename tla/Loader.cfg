\* Two threads in calls of two kinds, every pattern of failures, each of the
\* three probe sets, with and without the optional symbols.
CONSTANTS
    Thread = {t1, t2}
    None = None
SPECIFICATION LoaderSpec
CHECK_DEADLOCK FALSE
INVARIANTS
    NothingLeftOpen
    UsersCloseFirst
    OwnArguments
