\* Exchange pipeline, progress: the address file exists at boot.
CONSTANTS
    o1 = o1
    o2 = o2
    t1 = t1
    t2 = t2
    f1 = f1
    d1 = d1
    Absent = Absent
    Empty = Empty
    NoRow = NoRow
    NoDomain = NoDomain
    NumLogs = 5
    BlockOf <- MCBlockOf
    Decodable <- MCDecodable
    Event <- MCEvent
    Outlets = {o1, o2}
    Tiers = {t1, t2}
    Fees = {f1}
    Domains = {d1}
    MaxHead = 4
    HeadAtBoot = {0, 2}
    Lookback = 1
    MaxCrashes = 2
    AddrAtBoot = {TRUE}
    TornWrites = FALSE
    DbFailures = FALSE
    PgStore = FALSE
SPECIFICATION Spec
PROPERTY
    ListingConverges
