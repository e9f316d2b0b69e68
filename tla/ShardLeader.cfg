CONSTANTS
    Coordinators = {c1, c2}
    Workers <- Three
    Shards <- TwoShards
    Contracts <- NoContracts
    ShardForContract <- NoHash
    NoOne = NoOne
    Absent = Absent
    StaleAfter = 1
    HeartbeatInterval = 1
    RebalanceInterval = 1
    Faults = {"coordinator", "ensure", "store", "worker", "heartbeat"}
    MaxFaults = 2
    Punctual = FALSE
SPECIFICATION Spec
SYMMETRY Symmetry
INVARIANTS TypeOK LeaderHoldsLock SnapshotIsCurrent OwnersAreLive
PROPERTY HandoverThroughPool
