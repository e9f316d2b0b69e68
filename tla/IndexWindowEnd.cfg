CONSTANTS
    Pollers = {p1}
    Contracts <- OneContract
    Txs <- Ledgers
    Events <- OnePerLedger
    Malformed <- NoEvents
    None = None
    MaxLedger = 3
    Window = 2
    Backfill = 1
    PageLimit = 3
    MaxPages = 2
    Faults = {}
    MaxFaults = 0
SPECIFICATION Spec
INVARIANTS NoLedgerSkipped
