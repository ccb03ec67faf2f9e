\* The budgets 2048, 1024, 1024, none as 2, 1, 1, 0; up to five iovecs, one more
\* than the loop looks at, of up to seven bytes: the last two wrap to 0 and 1.
CONSTANTS
    MAX_IOV = 4
    MAX_PAYLOAD = 4
    Word = 6
    iov_sample_budget <- Budgets
    MaxCount = 5
    MaxLen = 7
SPECIFICATION SampleSpec
CHECK_DEADLOCK FALSE
INVARIANTS
    SampleIsPrefix
