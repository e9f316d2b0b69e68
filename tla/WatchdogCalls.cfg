CONSTANTS
    k1 = k1
    k2 = k2
    None = None
    Accounts = {a1, a2}
    Ids = {k1, k2}
    MaxAlerts = 2
    MaxBatch = 2
    Threshold = 1
    ExtendTo = 1
    MinTtl = 1
    DailyReads <- OneIsRead
    MaxLedger = 3
SPECIFICATION Spec
SYMMETRY Symmetry
INVARIANTS TypeOK RegistryMatchesRecords PendingIsNotAdmin NothingArchives AlertsInOrder SinceIsExact
PROPERTIES PauseFreezes OwnerIsPermanent
