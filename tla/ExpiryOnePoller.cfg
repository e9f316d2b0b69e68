CONSTANTS
    s1 = s1
    s2 = s2
    s3 = s3
    Contracts = {ka}
    Entries = {1, 2}
    Pollers = {p1}
    Subscriptions = {s1, s2, s3}
    Filter <- MCFilter
    Sendable = {s1, s2}
    None = None
    Threshold = 0
    MaxEntries = 1
    Horizon = 1
    MaxChanges = 3
    Faults = {"list", "call", "exit"}
    MaxFaults = 2
SPECIFICATION FairSpec
PROPERTIES SentOncePerAlert StandingExpiryIsRecorded RecordedIsSent
