\* Complete samples of two messages of every framing; samples that lack units of
\* a body or of the CRLF after a chunk; samples cut anywhere, on messages framed by
\* Content-Length.  A header block just fits the buffer, a body of four units does
\* not fit MaxBodyBytes.
CONSTANTS
    Scenarios <- Sound
    MaxBufBytes = 4
    MaxBodyBytes = 3
SPECIFICATION Spec
CHECK_DEADLOCK FALSE
INVARIANTS
    ExactFraming
    TimestampOfFirstByte
    CutIsTold
    LossIsCounted
