CONSTANTS
    Contracts = {ka}
    Pollers = {p1}
    Requests = {r1}
    Hashes = {h1, h2}
    NoHash = NoHash
    None = None
    MaxUpgrades = 1
    MaxWrites = 1
    Faults = {"call"}
    MaxFaults = 1
SPECIFICATION Spec
INVARIANTS UpgradeRecordedOnce
