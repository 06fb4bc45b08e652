\* Governance pipeline: crashes, RPC failures, failed (but whole) cursor
\* writes and an address file that may appear after boot, with a database
\* that does not fail.  The task really stops (returns) when the address
\* file is missing at start, so deadlock is not an error here.
CONSTANTS
    p1 = p1
    p2 = p2
    k1 = k1
    k2 = k2
    v1 = v1
    Absent = Absent
    Empty = Empty
    NoRow = NoRow
    NumLogs = 4
    BlockOf <- MCBlockOf
    Decodable <- MCDecodable
    Event <- MCEvent
    ProposalIds = {p1, p2}
    Keys = {k1, k2}
    Values = {v1}
    BatchKeys = {k1}
    MaxHead = 4
    HeadAtBoot = {0, 2}
    Lookback = 1
    MaxCrashes = 2
    MaxMonth = 2
    AddrAtBoot = {TRUE, FALSE}
    TornWrites = FALSE
    DbFailures = FALSE
    PgStore = FALSE
    BatchesTitled = FALSE
SPECIFICATION Spec
INVARIANTS
    TypeOK
    CursorSound
PROPERTIES
    EventuallyIndexed
    CursorSpec
CHECK_DEADLOCK FALSE
