CONSTANTS
    Coordinators = {c1, c2}
    Workers <- Two
    Shards <- TwoShards
    Contracts <- TwoContracts
    ShardForContract <- EachItsShard
    NoOne = NoOne
    Absent = Absent
    StaleAfter = 1
    HeartbeatInterval = 1
    RebalanceInterval = 1
    Faults = {"coordinator", "store"}
    MaxFaults = 4
    Punctual = FALSE
SPECIFICATION FairSpec
INVARIANTS OneIndexerPerContract
PROPERTIES HealthyOwnerUndisturbed ContractsResume
