CONSTANTS
    Events <- MCEvents
    Months = {1, 2}
    Month <- MCMonth
    Archivers = {a1}
    Queries = {q1}
    Batch = 2
    Attached = TRUE
    Limit = 2
    MaxInserts = 2
    Faults = {"archive", "read"}
    MaxFaults = 2
SPECIFICATION FairSpec
INVARIANTS ArchiveAnswersPage
PROPERTIES NothingLost OldEventsLeave
