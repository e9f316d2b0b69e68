CONSTANTS
    Contracts = {ka}
    Pollers = {p1}
    Requests = {r1}
    Hashes = {h1, h2}
    NoHash = NoHash
    None = None
    MaxUpgrades = 2
    MaxWrites = 3
    Faults = {"call", "crash", "request"}
    MaxFaults = 2
SPECIFICATION FairSpec
INVARIANTS UpgradesAreTrue UpgradeOncePerFault VerifiedDidRun
PROPERTIES HashMovesByUpgrade CodeIsTracked
