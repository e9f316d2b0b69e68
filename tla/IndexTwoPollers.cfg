CONSTANTS
    Pollers = {p1, p2}
    Contracts <- OneContract
    Txs <- Ledgers
    Events <- OnePerLedger
    Malformed <- MalformedEvents
    None = None
    MaxLedger = 4
    Window = 2
    Backfill = 1
    PageLimit = 1
    MaxPages = 5
    Faults = {"call", "cancel", "crash", "requeue"}
    MaxFaults = 2
SPECIFICATION FairSpec
INVARIANTS DurableBelowSync
PROPERTIES CursorNeverMovesBack StaysDurable CatchesUp
