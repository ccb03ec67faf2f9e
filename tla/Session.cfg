\* The TUI or stdout; every counter grows, the diagnostic buffer overflows.
CONSTANTS
    diagBufferCap = 1
    MaxDrops = 2
    MaxSkips = 1
    MaxLines = 2
SPECIFICATION FairSpec
INVARIANTS
    QuietAtReport
    SummaryCoversHeader
    EveryLinePrinted
PROPERTIES
    ProcessEnds
