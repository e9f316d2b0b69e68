CONSTANTS
    Coordinators = {c1, c2}
    Workers <- Two
    Shards <- TwoShards
    Contracts <- OneContract
    ShardForContract <- ToShardZero
    NoOne = NoOne
    Absent = Absent
    StaleAfter = 2
    HeartbeatInterval = 1
    RebalanceInterval = 2
    Faults = {"session", "worker", "heartbeat"}
    MaxFaults = 3
    Punctual = TRUE
SPECIFICATION FairSpec
INVARIANTS OwnerHasRow RecoveryBound
PROPERTY ContractsResume
