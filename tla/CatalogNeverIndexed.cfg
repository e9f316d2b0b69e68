CONSTANTS
    Contracts = {ka}
    Pollers = {p1}
    Requests = {r1}
    Hashes = {h1, h2}
    NoHash = NoHash
    None = None
    MaxUpgrades = 2
    MaxWrites = 1
    Faults = {}
    MaxFaults = 0
SPECIFICATION FairSpec
PROPERTIES RegisteredIsIndexed
