\* poll_loop on a chain younger than the lookback (head < 3000).
CONSTANTS
    NumLogs = 4
    BlockOf <- MCBlockOf
    Decodable <- MCDecodable
    MaxHead = 3
    HeadAtBoot = {1, 2}
    Lookback = 4
    WordModulus = 16
    MaxCrashes = 1
    DbFailures = FALSE
SPECIFICATION PollSpec
PROPERTY PollEventuallyIndexed
