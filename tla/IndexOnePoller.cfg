CONSTANTS
    Pollers = {p1}
    Contracts <- TwoContracts
    Txs <- Ledgers
    Events <- SparseForOne
    Malformed <- MalformedEvents
    None = None
    MaxLedger = 5
    Window = 3
    Backfill = 2
    PageLimit = 2
    MaxPages = 2
    Faults = {"call", "cancel", "crash", "tx", "requeue"}
    MaxFaults = 1
SPECIFICATION Spec
INVARIANTS TypeOK DurableBelowSync CursorsWithinHead InvocationPerTx
PROPERTIES SyncNeverMovesBack StaysDurable
