\* poll_loop on a chain older than the lookback, one restart, statements
\* that do not fail.
CONSTANTS
    NumLogs = 4
    BlockOf <- MCBlockOf
    Decodable <- MCDecodable
    MaxHead = 3
    HeadAtBoot = {1, 2}
    Lookback = 1
    WordModulus = 16
    MaxCrashes = 1
    DbFailures = FALSE
SPECIFICATION PollSpec
INVARIANT PollCursorSound
PROPERTIES
    PollCursorMonotonic
    PollEventuallyIndexed
