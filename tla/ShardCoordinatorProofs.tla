----------------------- MODULE ShardCoordinatorProofs -----------------------
(***************************************************************************)
(* Theorems about ShardCoordinator, for any number of coordinators,        *)
(* workers, shards and contracts, any timing constants and any faults.     *)
(***************************************************************************)
EXTENDS ShardCoordinator, TLAPS

-----------------------------------------------------------------------------
(* Type correctness                                                        *)

\* Ages saturate at MaxAge.
LEMMA OlderInRange ==
    ASSUME NEW a \in 0 .. MaxAge
    PROVE  0 \in 0 .. MaxAge /\ Older(a) \in 0 .. MaxAge
BY ConstantsAssumption DEF Older, MaxAge

\* Each step keeps the type of every variable.
LEMMA TypeStep == TypeOK /\ [Next]_vars => TypeOK'
<1> SUFFICES ASSUME TypeOK, [Next]_vars PROVE TypeOK'
  OBVIOUS
<1> USE DEF TypeOK
<1>1. ASSUME NEW c \in Coordinators, LeaderStep(c) PROVE TypeOK'
  <2>1. CASE BecomeLeader(c)
    BY <2>1, IdsAssumption DEF BecomeLeader, worker
  <2>2. CASE StayFollower(c)
    BY <2>2 DEF StayFollower, db, worker
  <2>3. ASSUME NEW s \in Shards, EnsureShard(c, s) PROVE TypeOK'
    BY <2>3 DEF EnsureShard, worker
  <2>4. CASE ListWorkers(c)
    BY <2>4, IdsAssumption, OlderInRange DEF ListWorkers, SplitWorkers, db, worker
  <2>5. ASSUME NEW w \in Workers, DeleteWorker(c, w) PROVE TypeOK'
    BY <2>5, OlderInRange DEF DeleteWorker, worker
  <2>6. CASE ListShards(c)
    BY <2>6, IdsAssumption DEF ListShards, db, worker
  <2>7. ASSUME NEW s \in Shards, KeepShard(c, s) PROVE TypeOK'
    BY <2>7 DEF KeepShard, Visit, worker
  <2>8. ASSUME NEW s \in Shards, UnassignShard(c, s) PROVE TypeOK'
    BY <2>8 DEF UnassignShard, Visit, worker
  <2>9. ASSUME NEW s \in Shards, NEW w \in Workers, AssignShard(c, s, w)
        PROVE  TypeOK'
    BY <2>9 DEF AssignShard, Visit, worker
  <2>10. CASE EndRebalance(c)
    BY <2>10, OlderInRange DEF EndRebalance, Forget, NoRows, db, worker
  <2> QED
    BY <1>1, <2>1, <2>2, <2>3, <2>4, <2>5, <2>6, <2>7, <2>8, <2>9, <2>10 DEF LeaderStep
<1>2. ASSUME NEW c \in Coordinators, CoordinatorFault(c) PROVE TypeOK'
  <2>1. CASE EnsureFails(c)
    BY <2>1 DEF EnsureFails, Fault, db, worker
  <2>2. CASE RebalanceFails(c)
    BY <2>2, OlderInRange DEF RebalanceFails, Fault, Forget, NoRows, db, worker
  <2>3. CASE StopCoordinator(c)
    BY <2>3 DEF StopCoordinator, Fault, worker
  <2>4. CASE CrashCoordinator(c)
    BY <2>4, OlderInRange DEF CrashCoordinator, Fault, Forget, NoRows, db, worker
  <2> QED
    BY <1>2, <2>1, <2>2, <2>3, <2>4 DEF CoordinatorFault
<1>3. ASSUME NEW c \in Coordinators, StartCoordinator(c) PROVE TypeOK'
  BY <1>3, ConstantsAssumption DEF StartCoordinator, db, worker
<1>4. CASE ExpireSession \/ DropSession
  BY <1>4 DEF ExpireSession, DropSession, Fault, local, worker
<1>5. ASSUME NEW w \in Workers, StartWorker(w) PROVE TypeOK'
  BY <1>5, ConstantsAssumption DEF StartWorker, db, local
<1>6. ASSUME NEW w \in Workers, StopWorker(w) PROVE TypeOK'
  BY <1>6 DEF StopWorker, Fault, db, local
<1>7. ASSUME NEW w \in Workers, Heartbeat(w) PROVE TypeOK'
  BY <1>7, OlderInRange DEF Heartbeat, local
<1>8. ASSUME NEW w \in Workers, HeartbeatFails(w) PROVE TypeOK'
  BY <1>8 DEF HeartbeatFails, Fault, db, local
<1>9. ASSUME NEW w \in Workers, BeginPass(w) PROVE TypeOK'
  BY <1>9 DEF BeginPass, AssignedContracts, db, local
<1>10. ASSUME NEW w \in Workers, EndPass(w) PROVE TypeOK'
  BY <1>10 DEF EndPass, db, local
<1>11. CASE Tick
  BY <1>11, OlderInRange DEF Tick
<1>12. CASE UNCHANGED vars
  BY <1>12 DEF vars, db, local, worker
<1> QED
  BY <1>1, <1>2, <1>3, <1>4, <1>5, <1>6, <1>7, <1>8, <1>9, <1>10, <1>11, <1>12 DEF Next

\* The variables start with their types.
LEMMA TypeInit == Init => TypeOK
BY IdsAssumption, ConstantsAssumption DEF Init, TypeOK, NoRows, MaxAge

\* Every variable keeps its type, whatever faults happen.
THEOREM TypeCorrect == Spec => []TypeOK
BY TypeInit, TypeStep, PTL DEF Spec

-----------------------------------------------------------------------------
(* The foreign key                                                         *)

\* Even with several leaders at work, the owner of a shard always has a row
\* in indexer_workers: DeleteWorker and AssignShard keep the foreign key.
THEOREM ForeignKey == Spec => []OwnerHasRow
<1>1. Init => OwnerHasRow
  BY DEF Init, OwnerHasRow, NoRows
<1>2. TypeOK /\ OwnerHasRow /\ [Next]_vars => OwnerHasRow'
  <2> SUFFICES ASSUME TypeOK, OwnerHasRow, [Next]_vars PROVE OwnerHasRow'
    OBVIOUS
  <2> USE DEF TypeOK, OwnerHasRow
  <2>1. ASSUME NEW c \in Coordinators, NEW s \in Shards, EnsureShard(c, s)
        PROVE  OwnerHasRow'
    BY <2>1 DEF EnsureShard
  <2>2. ASSUME NEW c \in Coordinators, NEW w \in Workers, DeleteWorker(c, w)
        PROVE  OwnerHasRow'
    BY <2>2 DEF DeleteWorker
  <2>3. ASSUME NEW c \in Coordinators, NEW s \in Shards, UnassignShard(c, s)
        PROVE  OwnerHasRow'
    BY <2>3 DEF UnassignShard
  <2>4. ASSUME NEW c \in Coordinators, NEW s \in Shards, NEW w \in Workers,
               AssignShard(c, s, w)
        PROVE  OwnerHasRow'
    BY <2>4 DEF AssignShard
  <2>5. ASSUME NEW w \in Workers, Heartbeat(w) PROVE OwnerHasRow'
    BY <2>5 DEF Heartbeat
  <2>6. CASE UNCHANGED <<owner, workers>>
    BY <2>6
  <2> QED
    BY <2>1, <2>2, <2>3, <2>4, <2>5, <2>6
    DEF Next, LeaderStep, CoordinatorFault, BecomeLeader, StayFollower, ListWorkers, SplitWorkers,
        ListShards, KeepShard, EndRebalance, EnsureFails, RebalanceFails,
        StopCoordinator, CrashCoordinator, StartCoordinator, ExpireSession,
        DropSession, StartWorker, StopWorker, HeartbeatFails, BeginPass, EndPass,
        Tick, vars, db, local, worker
<1> QED
  BY <1>1, <1>2, TypeCorrect, PTL DEF Spec

-----------------------------------------------------------------------------
(* Leader election                                                         *)

\* A coordinator inside EnsureShards or Rebalance holds the lock.
LeaderInv ==
    \A c \in Coordinators :
        /\ pc[c] \in {"ensure", "evict", "assign"} => held[c]
        /\ held[c] => lock = c

\* Nobody leads at the start.
LEMMA LeaderInit == Init => LeaderInv
BY DEF Init, LeaderInv

\* Only a coordinator that got the lock acts, and while its session lasts
\* nobody else gets it.
LEMMA LeaderStepInv ==
    ASSUME "session" \notin Faults
    PROVE  TypeOK /\ LeaderInv /\ [Next]_vars => LeaderInv'
<1> SUFFICES ASSUME TypeOK, LeaderInv, [Next]_vars PROVE LeaderInv'
  OBVIOUS
<1> USE DEF TypeOK, LeaderInv
<1>1. ASSUME NEW c \in Coordinators, LeaderStep(c) PROVE LeaderInv'
  <2>1. CASE BecomeLeader(c)
    BY <2>1, IdsAssumption DEF BecomeLeader, Due
  <2>2. CASE ListWorkers(c)
    BY <2>2 DEF ListWorkers, SplitWorkers, db
  <2>3. CASE ListShards(c) \/ EndRebalance(c)
    BY <2>3 DEF ListShards, EndRebalance, db
  <2>4. CASE UNCHANGED <<lock, held, pc>>
    BY <2>4
  <2> QED
    BY <1>1, <2>1, <2>2, <2>3, <2>4
    DEF LeaderStep, StayFollower, EnsureShard, DeleteWorker, KeepShard,
        UnassignShard, AssignShard, Visit, db
<1>2. ASSUME NEW c \in Coordinators, CoordinatorFault(c) \/ StartCoordinator(c)
      PROVE  LeaderInv'
  <2>1. CASE StopCoordinator(c)
    BY <2>1 DEF StopCoordinator
  <2>2. CASE CrashCoordinator(c) \/ StartCoordinator(c) \/ RebalanceFails(c)
    BY <2>2 DEF CrashCoordinator, StartCoordinator, RebalanceFails, db
  <2>3. CASE EnsureFails(c)
    BY <2>3 DEF EnsureFails, db
  <2> QED
    BY <1>2, <2>1, <2>2, <2>3 DEF CoordinatorFault
<1>3. CASE ExpireSession
  BY <1>3 DEF ExpireSession, local
<1>4. CASE DropSession
  BY <1>4 DEF DropSession, Fault
<1>5. CASE UNCHANGED <<lock, held, pc>>
  BY <1>5
<1> QED
  BY <1>1, <1>2, <1>3, <1>4, <1>5
  DEF Next, StartWorker, StopWorker, Heartbeat, HeartbeatFails, BeginPass, EndPass,
      Tick, vars, db, local, worker

\* If the database never drops the connection of a live leader, then at most
\* one coordinator leads, and it holds the advisory lock while it does.
THEOREM LeaderExclusion ==
    ASSUME "session" \notin Faults
    PROVE  Spec => [](OneLeader /\ LeaderHoldsLock)
<1>1. Spec => []LeaderInv
  BY LeaderInit, LeaderStepInv, TypeCorrect, PTL DEF Spec
<1>2. LeaderInv => OneLeader /\ LeaderHoldsLock
  BY DEF LeaderInv, OneLeader, LeaderHoldsLock
<1> QED
  BY <1>1, <1>2, PTL

-----------------------------------------------------------------------------
(* Decisions of Rebalance are never out of date                            *)

\* While it deletes stale workers, the leader has every owner on one of its
\* two lists.
EvictInv ==
    \A c \in Coordinators : pc[c] = "evict" =>
        \A s \in Shards : owner[s] \in live[c] \union queue[c] \union {NoOne, Absent}

\* It visits existing rows only.
RowsInv ==
    \A c \in Coordinators : pc[c] = "assign" =>
        /\ queue[c] \subseteq Shards
        /\ \A s \in queue[c] : owner[s] # Absent

RebalanceInv == EvictInv /\ RowsInv /\ OwnersAreLive /\ SnapshotIsCurrent

\* No rebalance is under way at the start.
LEMMA RebalanceInit == Init => RebalanceInv
BY DEF Init, RebalanceInv, EvictInv, RowsInv, OwnersAreLive, SnapshotIsCurrent

\* The steps of Rebalance keep its lists in line with the table; those of
\* other processes do not touch the table, for the lock is the leader's.
LEMMA RebalanceStepInv ==
    TypeOK /\ OwnerHasRow /\ LeaderInv /\ RebalanceInv /\ [Next]_vars => RebalanceInv'
<1> SUFFICES ASSUME TypeOK, OwnerHasRow, LeaderInv, RebalanceInv, [Next]_vars
             PROVE  RebalanceInv'
  OBVIOUS
<1> USE DEF TypeOK, LeaderInv, RebalanceInv, EvictInv, RowsInv, OwnersAreLive,
            SnapshotIsCurrent
<1>1. ASSUME NEW c \in Coordinators, LeaderStep(c) PROVE RebalanceInv'
  <2>1. CASE BecomeLeader(c)
    BY <2>1 DEF BecomeLeader, Due
  <2>2. CASE StayFollower(c)
    BY <2>2 DEF StayFollower, db
  <2>3. ASSUME NEW s \in Shards, EnsureShard(c, s) PROVE RebalanceInv'
    BY <2>3 DEF EnsureShard
  <2>4. CASE ListWorkers(c)
    <3>1. \A w \in workers : age[w] <= StaleAfter \/ age[w] > StaleAfter
      BY ConstantsAssumption DEF MaxAge
    <3>2. \A s \in Shards : owner[s] \in live'[c] \union queue'[c] \union {NoOne, Absent}
      BY <2>4, <3>1 DEF ListWorkers, SplitWorkers, OwnerHasRow
    <3> QED
      BY <2>4, <3>2 DEF ListWorkers, SplitWorkers, db
  <2>5. ASSUME NEW w \in Workers, DeleteWorker(c, w) PROVE RebalanceInv'
    BY <2>5 DEF DeleteWorker
  <2>6. CASE ListShards(c)
    BY <2>6 DEF ListShards, db
  <2>7. ASSUME NEW s \in Shards, KeepShard(c, s) PROVE RebalanceInv'
    BY <2>7 DEF KeepShard, Visit, IsFirst
  <2>8. ASSUME NEW s \in Shards, UnassignShard(c, s) PROVE RebalanceInv'
    BY <2>8 DEF UnassignShard, Visit, IsFirst
  <2>9. ASSUME NEW s \in Shards, NEW w \in Workers, AssignShard(c, s, w)
        PROVE  RebalanceInv'
    BY <2>9 DEF AssignShard, Visit, IsTarget, IsFirst
  <2>10. CASE EndRebalance(c)
    BY <2>10 DEF EndRebalance, Forget, NoRows, db
  <2> QED
    BY <1>1, <2>1, <2>2, <2>3, <2>4, <2>5, <2>6, <2>7, <2>8, <2>9, <2>10 DEF LeaderStep
<1>2. ASSUME NEW c \in Coordinators, CoordinatorFault(c) \/ StartCoordinator(c)
      PROVE  RebalanceInv'
  <2>1. CASE EnsureFails(c)
    BY <2>1 DEF EnsureFails, db
  <2>2. CASE RebalanceFails(c)
    BY <2>2 DEF RebalanceFails, Forget, NoRows, db
  <2>3. CASE StopCoordinator(c)
    BY <2>3 DEF StopCoordinator
  <2>4. CASE CrashCoordinator(c)
    BY <2>4 DEF CrashCoordinator, Forget, NoRows, db
  <2>5. CASE StartCoordinator(c)
    BY <2>5 DEF StartCoordinator, db
  <2> QED
    BY <1>2, <2>1, <2>2, <2>3, <2>4, <2>5 DEF CoordinatorFault
<1>3. CASE UNCHANGED <<owner, pc, queue, live, snap>>
  BY <1>3
<1> QED
  BY <1>1, <1>2, <1>3
  DEF Next, ExpireSession, DropSession, StartWorker, StopWorker, Heartbeat,
      HeartbeatFails, BeginPass, EndPass, Tick, vars, db, local, worker

\* With a single leader the rows Rebalance still has to visit are as it read
\* them, and every owner in the table is a worker it counts as live.
THEOREM FreshDecisions ==
    ASSUME "session" \notin Faults
    PROVE  Spec => [](SnapshotIsCurrent /\ OwnersAreLive)
<1>1. Spec => []LeaderInv
  BY LeaderInit, LeaderStepInv, TypeCorrect, PTL DEF Spec
<1>2. Spec => []RebalanceInv
  BY <1>1, RebalanceInit, RebalanceStepInv, TypeCorrect, ForeignKey, PTL DEF Spec
<1>3. RebalanceInv => SnapshotIsCurrent /\ OwnersAreLive
  BY DEF RebalanceInv
<1> QED
  BY <1>2, <1>3, PTL

\* Once Rebalance has deleted the stale workers, whoever owns a shard is one it
\* counts as live: nothing is kept with, or assigned to, a worker that is gone.
THEOREM LiveOwners ==
    ASSUME "session" \notin Faults
    PROVE  Spec => []OwnersAreLive
BY FreshDecisions, PTL

-----------------------------------------------------------------------------
(* Implementation of ShardOwnership                                        *)

\* At first no shard is owned.
LEMMA TableInit == Init => Table!Init
BY IdsAssumption DEF Init, NoRows, Table!Init

\* Every step grants a shard out of the pool, revokes the shards of one worker,
\* or leaves the owners alone.
LEMMA TableStep ==
    TypeOK /\ LeaderInv /\ RebalanceInv /\ [Next]_vars
        => [Table!Next]_[s \in Shards |-> IF owner[s] = Absent THEN NoOne ELSE owner[s]]
<1> DEFINE pool(o) == [s \in Shards |-> IF o[s] = Absent THEN NoOne ELSE o[s]]
<1> SUFFICES ASSUME TypeOK, LeaderInv, RebalanceInv, [Next]_vars
             PROVE  Table!Next \/ pool(owner') = pool(owner)
  OBVIOUS
<1> USE DEF TypeOK
<1>1. ASSUME NEW c \in Coordinators, NEW s \in Shards, EnsureShard(c, s)
      PROVE  pool(owner') = pool(owner)
  BY <1>1 DEF EnsureShard
<1>2. ASSUME NEW c \in Coordinators, NEW w \in Workers, DeleteWorker(c, w)
      PROVE  Table!Next
  <2>1. Table!Revoke(w)
    BY <1>2, IdsAssumption DEF DeleteWorker, Table!Revoke
  <2> QED
    BY <2>1 DEF Table!Next
<1>3. ASSUME NEW c \in Coordinators, NEW s \in Shards, UnassignShard(c, s)
      PROVE  FALSE
  BY <1>3 DEF UnassignShard, Visit, IsFirst, RebalanceInv, OwnersAreLive,
              SnapshotIsCurrent, RowsInv
<1>4. ASSUME NEW c \in Coordinators, NEW s \in Shards, NEW w \in Workers,
             AssignShard(c, s, w)
      PROVE  Table!Next
  <2>1. owner[s] = NoOne
    BY <1>4 DEF AssignShard, Visit, IsFirst, RebalanceInv, OwnersAreLive,
                SnapshotIsCurrent, RowsInv
  <2>2. Table!Grant(s, w)
    BY <1>4, <2>1, IdsAssumption DEF AssignShard, Table!Grant
  <2> QED
    BY <2>2 DEF Table!Next
<1>5. CASE UNCHANGED owner
  BY <1>5
<1> QED
  BY <1>1, <1>2, <1>3, <1>4, <1>5
  DEF Next, LeaderStep, CoordinatorFault, BecomeLeader, StayFollower, ListWorkers, SplitWorkers,
      ListShards, KeepShard, EndRebalance, EnsureFails, RebalanceFails,
      StopCoordinator, CrashCoordinator, StartCoordinator, ExpireSession,
      DropSession, StartWorker, StopWorker, Heartbeat, HeartbeatFails, BeginPass,
      EndPass, Tick, vars, db, local, worker

\* With a single leader the shard table implements ShardOwnership: a shard
\* changes hands only through the pool of unowned shards.
THEOREM Handover ==
    ASSUME "session" \notin Faults
    PROVE  Spec => HandoverThroughPool
<1>1. Spec => []LeaderInv
  BY LeaderInit, LeaderStepInv, TypeCorrect, PTL DEF Spec
<1>2. Spec => []RebalanceInv
  BY <1>1, RebalanceInit, RebalanceStepInv, TypeCorrect, ForeignKey, PTL DEF Spec
<1> QED
  BY <1>1, <1>2, TableInit, TableStep, TypeCorrect, PTL
  DEF Spec, HandoverThroughPool, Table!Spec

-----------------------------------------------------------------------------
(* Healthy workers                                                         *)

\* Workers neither stop nor miss heartbeats, and a heartbeat comes in time.
Healthy ==
    /\ {"session", "worker", "heartbeat"} \cap Faults = {}
    /\ HeartbeatInterval <= StaleAfter

\* Then every row belongs to a running worker, is as old as its last heartbeat
\* at most, and is never on a list of stale workers.
FreshInv ==
    /\ workers \subseteq up
    /\ \A w \in up : beat[w] <= HeartbeatInterval
    /\ \A w \in workers : age[w] <= beat[w]
    /\ \A c \in Coordinators :
          /\ live[c] \subseteq workers
          /\ pc[c] = "evict" => queue[c] = {}

\* A pass covers contracts of shards that its worker owns.
ScopeInv ==
    \A w \in Workers : \A k \in pass[w] : owner[ShardForContract[k]] = w

Undisturbed == \A s \in Shards : owner[s] \in Workers => owner'[s] = owner[s]

\* There are no rows and no passes at the start.
LEMMA FreshInit == Init => FreshInv /\ ScopeInv
BY DEF Init, FreshInv, ScopeInv

\* A healthy worker's row is never older than StaleAfter, so it is never listed
\* as stale.
LEMMA FreshStep ==
    ASSUME Healthy
    PROVE  TypeOK /\ FreshInv /\ [Next]_vars => FreshInv'
<1> SUFFICES ASSUME TypeOK, FreshInv, [Next]_vars PROVE FreshInv'
  OBVIOUS
<1> USE DEF TypeOK, FreshInv
<1>1. ASSUME NEW c \in Coordinators, LeaderStep(c) PROVE FreshInv'
  <2>1. CASE BecomeLeader(c)
    BY <2>1 DEF BecomeLeader, worker
  <2>2. CASE StayFollower(c)
    BY <2>2 DEF StayFollower, db, worker
  <2>3. ASSUME NEW s \in Shards, EnsureShard(c, s) PROVE FreshInv'
    BY <2>3 DEF EnsureShard, worker
  <2>4. CASE ListWorkers(c)
    <3>1. \A w \in workers : ~(age[w] > StaleAfter)
      BY ConstantsAssumption DEF Healthy, MaxAge
    <3> QED
      BY <2>4, <3>1 DEF ListWorkers, SplitWorkers, db, worker
  <2>5. ASSUME NEW w \in Workers, DeleteWorker(c, w) PROVE FreshInv'
    BY <2>5 DEF DeleteWorker, IsFirst
  <2>6. CASE ListShards(c)
    BY <2>6 DEF ListShards, db, worker
  <2>7. ASSUME NEW s \in Shards, KeepShard(c, s) \/ UnassignShard(c, s) PROVE FreshInv'
    BY <2>7 DEF KeepShard, UnassignShard, Visit, worker
  <2>8. ASSUME NEW s \in Shards, NEW w \in Workers, AssignShard(c, s, w)
        PROVE  FreshInv'
    BY <2>8 DEF AssignShard, Visit, IsTarget, worker
  <2>9. CASE EndRebalance(c)
    BY <2>9 DEF EndRebalance, Forget, db, worker
  <2> QED
    BY <1>1, <2>1, <2>2, <2>3, <2>4, <2>5, <2>6, <2>7, <2>8, <2>9 DEF LeaderStep
<1>2. ASSUME NEW c \in Coordinators, CoordinatorFault(c) PROVE FreshInv'
  <2>1. CASE EnsureFails(c)
    BY <2>1 DEF EnsureFails, db, worker
  <2>2. CASE RebalanceFails(c)
    BY <2>2 DEF RebalanceFails, Forget, db, worker
  <2>3. CASE StopCoordinator(c)
    BY <2>3 DEF StopCoordinator, worker
  <2>4. CASE CrashCoordinator(c)
    BY <2>4 DEF CrashCoordinator, Forget, db, worker
  <2> QED
    BY <1>2, <2>1, <2>2, <2>3, <2>4 DEF CoordinatorFault
<1>3. ASSUME NEW c \in Coordinators, StartCoordinator(c) PROVE FreshInv'
  BY <1>3 DEF StartCoordinator, db, worker
<1>4. ASSUME NEW w \in Workers, StartWorker(w) PROVE FreshInv'
  BY <1>4, ConstantsAssumption DEF StartWorker, db, local
<1>5. ASSUME NEW w \in Workers, Heartbeat(w) PROVE FreshInv'
  BY <1>5, ConstantsAssumption DEF Heartbeat, local
<1>6. CASE Tick
  <2>1. \A w \in Workers : Older(age[w]) <= age[w] + 1
    BY ConstantsAssumption DEF Older, MaxAge
  <2>2. \A w \in Workers : age[w] \in Int /\ Older(age[w]) \in Int /\ beat[w] \in Int
    BY OlderInRange, ConstantsAssumption DEF MaxAge
  <2>3. \A w \in up : beat'[w] = beat[w] + 1 /\ beat'[w] <= HeartbeatInterval
    BY <1>6, <2>2, ConstantsAssumption DEF Tick
  <2>4. \A w \in workers : age'[w] <= beat'[w]
    <3> SUFFICES ASSUME NEW w \in workers PROVE age'[w] <= beat'[w]
      OBVIOUS
    <3>1. age'[w] = Older(age[w]) /\ beat'[w] = beat[w] + 1
      BY <1>6, <2>3 DEF Tick
    <3> QED
      BY <3>1, <2>1, <2>2
  <2> QED
    BY <1>6, <2>3, <2>4 DEF Tick
<1>7. CASE UNCHANGED <<db, local, up, beat>>
  BY <1>7 DEF db, local
<1>8. CASE ExpireSession \/ DropSession
  BY <1>8 DEF ExpireSession, DropSession, local, worker
<1> QED
  BY <1>1, <1>2, <1>3, <1>4, <1>5, <1>6, <1>7, <1>8
  DEF Next, Healthy, StopWorker, HeartbeatFails, BeginPass, EndPass, Fault, vars, worker

\* Nothing but the deletion of a stale worker takes a shard from its owner.
LEMMA UndisturbedStep ==
    TypeOK /\ FreshInv /\ RebalanceInv /\ [Next]_vars => Undisturbed
<1> SUFFICES ASSUME TypeOK, FreshInv, RebalanceInv, [Next]_vars PROVE Undisturbed
  OBVIOUS
<1> USE DEF TypeOK, Undisturbed
<1>1. ASSUME NEW c \in Coordinators, NEW s \in Shards, EnsureShard(c, s)
      PROVE  Undisturbed
  BY <1>1, IdsAssumption DEF EnsureShard
<1>2. ASSUME NEW c \in Coordinators, NEW w \in Workers, DeleteWorker(c, w)
      PROVE  FALSE
  BY <1>2 DEF DeleteWorker, IsFirst, FreshInv
<1>3. ASSUME NEW c \in Coordinators, NEW s \in Shards, UnassignShard(c, s)
      PROVE  FALSE
  BY <1>3 DEF UnassignShard, Visit, IsFirst, RebalanceInv, OwnersAreLive,
              SnapshotIsCurrent, RowsInv
<1>4. ASSUME NEW c \in Coordinators, NEW s \in Shards, NEW w \in Workers,
             AssignShard(c, s, w)
      PROVE  Undisturbed
  <2>1. owner[s] = NoOne
    BY <1>4 DEF AssignShard, Visit, IsFirst, RebalanceInv, OwnersAreLive,
                SnapshotIsCurrent, RowsInv
  <2> QED
    BY <1>4, <2>1, IdsAssumption DEF AssignShard
<1>5. CASE UNCHANGED owner
  BY <1>5
<1> QED
  BY <1>1, <1>2, <1>3, <1>4, <1>5
  DEF Next, LeaderStep, CoordinatorFault, BecomeLeader, StayFollower, ListWorkers, SplitWorkers,
      ListShards, KeepShard, EndRebalance, EnsureFails, RebalanceFails,
      StopCoordinator, CrashCoordinator, StartCoordinator, ExpireSession,
      DropSession, StartWorker, StopWorker, Heartbeat, HeartbeatFails, BeginPass,
      EndPass, Tick, vars, db, local, worker

\* An owner keeps its shards during a pass, so the pass stays within them.
LEMMA ScopeStep ==
    TypeOK /\ ScopeInv /\ Undisturbed /\ [Next]_vars => ScopeInv'
<1> SUFFICES ASSUME TypeOK, ScopeInv, Undisturbed, [Next]_vars PROVE ScopeInv'
  OBVIOUS
<1> USE DEF TypeOK, ScopeInv, Undisturbed
<1>1. ASSUME NEW w \in Workers, BeginPass(w) PROVE ScopeInv'
  BY <1>1 DEF BeginPass, AssignedContracts, db
<1>2. ASSUME NEW w \in Workers, EndPass(w) \/ StopWorker(w) PROVE ScopeInv'
  BY <1>2 DEF EndPass, StopWorker, db
<1>3. CASE UNCHANGED pass
  BY <1>3, ConstantsAssumption
<1> QED
  BY <1>1, <1>2, <1>3
  DEF Next, LeaderStep, CoordinatorFault, BecomeLeader, StayFollower, EnsureShard,
      ListWorkers, SplitWorkers, DeleteWorker, ListShards, KeepShard, UnassignShard, AssignShard,
      Visit, EndRebalance, EnsureFails, RebalanceFails, StopCoordinator,
      CrashCoordinator, StartCoordinator, ExpireSession, DropSession, StartWorker,
      Heartbeat, HeartbeatFails, Tick, vars, db, local, worker

\* Where workers stay healthy, whatever the coordinators do, a shard stays with
\* its owner and no contract is indexed by two workers at once.
THEOREM HealthyWorkers ==
    ASSUME Healthy
    PROVE  Spec => HealthyOwnerUndisturbed /\ []OneIndexerPerContract
<1>1. "session" \notin Faults
  BY DEF Healthy
<1>2. Spec => [](TypeOK /\ LeaderInv)
  BY <1>1, LeaderInit, LeaderStepInv, TypeCorrect, PTL DEF Spec
<1>3. Spec => [](TypeOK /\ FreshInv /\ RebalanceInv)
  BY <1>2, FreshInit, FreshStep, RebalanceInit, RebalanceStepInv, ForeignKey, PTL DEF Spec
<1>4. Spec => []ScopeInv
  BY <1>3, FreshInit, UndisturbedStep, ScopeStep, PTL DEF Spec
<1>5. Undisturbed => [Undisturbed]_owner
  OBVIOUS
<1>6. Spec => HealthyOwnerUndisturbed
  BY <1>3, <1>5, UndisturbedStep, PTL DEF Spec, HealthyOwnerUndisturbed, Undisturbed
<1>7. ScopeInv => OneIndexerPerContract
  BY DEF ScopeInv, OneIndexerPerContract
<1> QED
  BY <1>4, <1>6, <1>7, PTL

\* Where workers stay healthy, two passes never cover the same contract at once,
\* although AssignedContracts is read once per pass.
THEOREM OneIndexer ==
    ASSUME Healthy
    PROVE  Spec => []OneIndexerPerContract
BY HealthyWorkers, PTL

-----------------------------------------------------------------------------
(* Recovery                                                                *)

\* Coordinators keep running and their store calls answer; sessions, workers,
\* heartbeats and EnsureShards may fail.  No step of a coordinator takes time.
OnTime ==
    /\ Punctual
    /\ "coordinator" \notin Faults /\ "store" \notin Faults

\* How old the heartbeat of an owner may be, by where each leader is: no older
\* than StaleAfter when the leader's pass ended, and ageing with its timer since.
Recent(w) ==
    /\ age[w] <= StaleAfter + RebalanceInterval
    /\ \E c \in Coordinators : held[c]
    /\ \A c \in Coordinators :
          /\ pc[c] = "loop" /\ held[c] => age[w] <= StaleAfter + timer[c]
          /\ pc[c] = "evict" => w \in queue[c] \/ age[w] <= StaleAfter
          /\ pc[c] = "assign" => age[w] <= StaleAfter

OwnerAges == \A s \in Shards : owner[s] \in Workers => Recent(owner[s])

\* Passes take no time and hand shards only to workers with a recent heartbeat.
PassInv ==
    \A c \in Coordinators :
        /\ pc[c] # "down" /\ timer[c] <= RebalanceInterval /\ passAge[c] = 0
        /\ pc[c] # "loop" => held[c]
        /\ pc[c] \in {"evict", "assign"} => \A w \in live[c] : age[w] <= StaleAfter

\* Nobody leads, and nothing is owned, at the start.
LEMMA RecoveryInit == Init => PassInv /\ OwnerAges
BY IdsAssumption, ConstantsAssumption DEF Init, PassInv, OwnerAges, NoRows

\* What is known of the constants and the state, as numbers.
LEMMA AgeNumbers ==
    ASSUME TypeOK
    PROVE  /\ StaleAfter \in Nat /\ RebalanceInterval \in Nat
           /\ \A w \in Workers : age[w] \in Nat
           /\ \A c \in Coordinators : timer[c] \in Nat
BY ConstantsAssumption DEF TypeOK, MaxAge

\* Every step keeps the passes as PassInv says.
LEMMA PassStep ==
    ASSUME OnTime
    PROVE  TypeOK /\ PassInv /\ [Next]_vars => PassInv'
<1> SUFFICES ASSUME TypeOK, PassInv, [Next]_vars PROVE PassInv'
  OBVIOUS
<1> USE DEF TypeOK, PassInv
<1>0. StaleAfter \in Nat /\ RebalanceInterval \in Nat
  BY AgeNumbers
<1>1. ASSUME NEW c \in Coordinators, LeaderStep(c) PROVE PassInv'
  <2>1. CASE BecomeLeader(c)
    BY <2>1 DEF BecomeLeader, worker
  <2>2. CASE StayFollower(c)
    BY <1>0, <2>2 DEF StayFollower, db, worker
  <2>3. ASSUME NEW s \in Shards, EnsureShard(c, s) PROVE PassInv'
    BY <2>3 DEF EnsureShard, worker
  <2>4. CASE ListWorkers(c)
    BY <1>0, <2>4 DEF ListWorkers, SplitWorkers, db, worker
  <2>5. ASSUME NEW w \in Workers, DeleteWorker(c, w) PROVE PassInv'
    BY <1>0, <2>5 DEF DeleteWorker, worker
  <2>6. CASE ListShards(c)
    BY <2>6 DEF ListShards, db, worker
  <2>7. ASSUME NEW s \in Shards, KeepShard(c, s) \/ UnassignShard(c, s) PROVE PassInv'
    BY <2>7 DEF KeepShard, UnassignShard, Visit, worker
  <2>8. ASSUME NEW s \in Shards, NEW w \in Workers, AssignShard(c, s, w) PROVE PassInv'
    BY <1>0, <2>8 DEF AssignShard, Visit, worker
  <2>9. CASE EndRebalance(c)
    BY <2>9 DEF EndRebalance, Forget, db, worker
  <2> QED
    BY <1>1, <2>1, <2>2, <2>3, <2>4, <2>5, <2>6, <2>7, <2>8, <2>9 DEF LeaderStep
<1>2. ASSUME NEW c \in Coordinators, CoordinatorFault(c) PROVE PassInv'
  BY <1>2 DEF CoordinatorFault, EnsureFails, RebalanceFails, StopCoordinator,
              CrashCoordinator, Fault, OnTime, db, worker
<1>3. ASSUME NEW w \in Workers, Heartbeat(w) PROVE PassInv'
  BY <1>0, <1>3 DEF Heartbeat, local
<1>4. CASE Tick
  <2>1. \A c \in Coordinators : pc[c] = "loop" /\ timer[c] < RebalanceInterval
    BY <1>4 DEF Tick, OnTime
  <2>2. \A c \in Coordinators : timer'[c] = timer[c] + 1 /\ passAge'[c] = passAge[c]
    BY <1>4, <2>1 DEF Tick, OnTime
  <2>3. pc' = pc /\ held' = held
    BY <1>4 DEF Tick
  <2> QED
    BY <1>0, <2>1, <2>2, <2>3
<1>5. CASE UNCHANGED <<age, local>>
  BY <1>5 DEF local
<1> QED
  BY <1>1, <1>2, <1>3, <1>4, <1>5
  DEF Next, StartCoordinator, ExpireSession, DropSession, StartWorker, StopWorker,
      HeartbeatFails, BeginPass, EndPass, vars, db

\* Every step keeps the bounds on the ages of owners: no time passes during a
\* pass, and a pass is due whenever some timer is at RebalanceInterval.
LEMMA AgesStep ==
    ASSUME OnTime
    PROVE  TypeOK /\ OwnerHasRow /\ PassInv /\ OwnerAges /\ [Next]_vars => OwnerAges'
<1> SUFFICES ASSUME TypeOK, OwnerHasRow, PassInv, OwnerAges, [Next]_vars
             PROVE  OwnerAges'
  OBVIOUS
<1>0. /\ StaleAfter \in Nat /\ RebalanceInterval \in Nat
      /\ \A w \in Workers : age[w] \in Nat
      /\ \A c \in Coordinators : timer[c] \in Nat
  BY AgeNumbers
<1>1. ASSUME \A s \in Shards : owner'[s] \in Workers => owner'[s] = owner[s],
             \A w \in workers : Recent(w) => Recent(w)'
      PROVE  OwnerAges'
  BY <1>1, IdsAssumption DEF OwnerAges, OwnerHasRow
<1>2. ASSUME NEW c \in Coordinators, LeaderStep(c) PROVE OwnerAges'
  <2>1. CASE BecomeLeader(c)
    BY <1>1, <2>1 DEF BecomeLeader, worker, TypeOK, Recent
  <2>2. CASE StayFollower(c)
    BY <1>1, <2>2 DEF StayFollower, db, worker, TypeOK, Recent
  <2>3. ASSUME NEW s \in Shards, EnsureShard(c, s) PROVE OwnerAges'
    <3>1. \A r \in Shards : owner'[r] \in Workers => owner'[r] = owner[r]
      BY <2>3, IdsAssumption DEF EnsureShard, TypeOK
    <3>2. \A w \in workers : Recent(w) => Recent(w)'
      BY <2>3 DEF EnsureShard, TypeOK, Recent
    <3> QED
      BY <1>1, <3>1, <3>2
  <2>4. CASE ListWorkers(c)
    <3>1. owner' = owner /\ age' = age /\ held' = held /\ held[c]
      BY <2>4 DEF ListWorkers, SplitWorkers, db
    <3>2. \A w \in workers : w \in queue'[c] \/ age[w] <= StaleAfter
      BY <1>0, <2>4 DEF ListWorkers, SplitWorkers, TypeOK
    <3>3. pc' = [pc EXCEPT ![c] = "evict"] /\ timer' = [timer EXCEPT ![c] = 0]
      BY <2>4 DEF ListWorkers, SplitWorkers
    <3>4. \A d \in Coordinators : d # c => queue'[d] = queue[d]
      BY <2>4 DEF ListWorkers, SplitWorkers, TypeOK
    <3>5. \A w \in workers : Recent(w) => Recent(w)'
      BY <3>1, <3>2, <3>3, <3>4 DEF Recent, TypeOK
    <3> QED
      BY <1>1, <3>1, <3>5
  <2>5. ASSUME NEW w \in Workers, DeleteWorker(c, w) PROVE OwnerAges'
    <3>1. \A s \in Shards : owner'[s] \in Workers => owner'[s] = owner[s] /\ owner[s] # w
      BY <2>5, IdsAssumption DEF DeleteWorker
    <3>2. \A v \in Workers \ {w} : Recent(v) => Recent(v)'
      BY <2>5 DEF DeleteWorker, TypeOK, Recent
    <3> QED
      BY <3>1, <3>2 DEF OwnerAges
  <2>6. CASE ListShards(c)
    BY <1>1, <2>6 DEF ListShards, db, worker, TypeOK, Recent
  <2>7. ASSUME NEW s \in Shards, KeepShard(c, s) \/ UnassignShard(c, s) PROVE OwnerAges'
    <3>1. \A r \in Shards : owner'[r] \in Workers => owner'[r] = owner[r]
      BY <2>7, IdsAssumption DEF KeepShard, UnassignShard, TypeOK
    <3>2. \A w \in workers : Recent(w) => Recent(w)'
      BY <2>7 DEF KeepShard, UnassignShard, Visit, TypeOK, Recent
    <3> QED
      BY <1>1, <3>1, <3>2
  <2>8. ASSUME NEW s \in Shards, NEW w \in Workers, AssignShard(c, s, w)
        PROVE  OwnerAges'
    <3>1. pc[c] = "assign" /\ held[c] /\ age[w] <= StaleAfter /\ passAge[c] = 0
      BY <2>8 DEF AssignShard, Visit, IsTarget, PassInv
    <3>2. age'[w] <= StaleAfter /\ \A v \in Workers \ {w} : age'[v] = age[v]
      BY <1>0, <2>8, <3>1 DEF AssignShard, TypeOK
    <3>3. held' = held /\ pc' = pc /\ timer' = timer
      BY <2>8 DEF AssignShard, Visit, worker
    <3>4. age'[w] \in Nat
      BY <1>0, <2>8, <3>1 DEF AssignShard, TypeOK
    <3>5. Recent(w)'
      BY <1>0, <3>1, <3>2, <3>3, <3>4 DEF Recent
    <3>6. \A d \in Coordinators : pc[d] = "evict" => queue'[d] = queue[d]
      BY <2>8, <3>1 DEF AssignShard, Visit, TypeOK
    <3>7. \A v \in Workers \ {w} : Recent(v) => Recent(v)'
      BY <3>2, <3>3, <3>6 DEF Recent
    <3>8. \A r \in Shards : owner'[r] = owner[r] \/ owner'[r] = w
      BY <2>8 DEF AssignShard, TypeOK
    <3> QED
      BY <3>5, <3>7, <3>8 DEF OwnerAges
  <2>9. CASE EndRebalance(c)
    <3>1. owner' = owner /\ age' = age /\ held' = held /\ timer' = timer
      BY <2>9 DEF EndRebalance, db
    <3>2. /\ pc[c] = "assign" /\ pc' = [pc EXCEPT ![c] = "loop"]
          /\ \A d \in Coordinators : d # c => queue'[d] = queue[d]
      BY <2>9 DEF EndRebalance, Forget, TypeOK
    <3>3. \A w \in workers : Recent(w) => Recent(w)'
      BY <1>0, <3>1, <3>2 DEF Recent, TypeOK
    <3> QED
      BY <1>1, <3>1, <3>3
  <2> QED
    BY <1>2, <2>1, <2>2, <2>3, <2>4, <2>5, <2>6, <2>7, <2>8, <2>9 DEF LeaderStep
<1>3. ASSUME NEW c \in Coordinators, EnsureFails(c) PROVE OwnerAges'
  BY <1>1, <1>3 DEF EnsureFails, db, worker, TypeOK, Recent
<1>4. ASSUME NEW w \in Workers, Heartbeat(w) PROVE OwnerAges'
  <2>1. \A v \in Workers : age'[v] <= age[v] /\ age'[v] \in Nat
    BY <1>0, <1>4 DEF Heartbeat, TypeOK
  <2>2. UNCHANGED <<owner, local>>
    BY <1>4 DEF Heartbeat
  <2>3. \A v \in workers : Recent(v) => Recent(v)'
    BY <1>0, <2>1, <2>2 DEF Recent, TypeOK, local
  <2> QED
    BY <1>1, <2>2, <2>3
<1>5. CASE Tick
  <2>1. /\ \A c \in Coordinators : pc[c] = "loop" /\ timer[c] < RebalanceInterval
        /\ \A c \in Coordinators : timer'[c] = timer[c] + 1
        /\ UNCHANGED <<owner, pc, held, queue>>
    BY <1>5 DEF Tick, PassInv, OnTime
  <2>2. \A w \in workers : age'[w] \in Nat /\ age'[w] <= age[w] + 1
    <3>1. \A n \in Nat : n <= MaxAge => Older(n) \in Nat /\ Older(n) <= n + 1
      BY ConstantsAssumption DEF Older, MaxAge
    <3>2. \A w \in workers : w \in Workers /\ age[w] \in Nat /\ age[w] <= MaxAge
      BY <1>0, ConstantsAssumption DEF TypeOK, MaxAge
    <3> QED
      BY <1>5, <3>1, <3>2 DEF Tick
  <2>3. ASSUME NEW w \in workers, Recent(w) PROVE Recent(w)'
    <3>1. PICK c \in Coordinators : held[c]
      BY <2>3 DEF Recent
    <3>2. age[w] <= StaleAfter + timer[c] /\ age[w] \in Nat
      BY <1>0, <2>1, <2>3, <3>1 DEF Recent, TypeOK
    <3>3. age'[w] <= StaleAfter + RebalanceInterval
      BY <1>0, <2>1, <2>2, <3>2
    <3>4. ASSUME NEW d \in Coordinators, held[d] PROVE age'[w] <= StaleAfter + timer'[d]
      <4>1. age[w] <= StaleAfter + timer[d]
        BY <2>1, <2>3, <3>4 DEF Recent
      <4> QED
        BY <1>0, <2>1, <2>2, <3>2, <4>1
    <3> QED
      BY <2>1, <3>1, <3>3, <3>4 DEF Recent
  <2> QED
    BY <1>1, <2>1, <2>3
<1>6. CASE UNCHANGED <<age, owner, local>>
  BY <1>1, <1>6 DEF local, Recent
<1> QED
  BY <1>2, <1>3, <1>4, <1>5, <1>6
  DEF Next, CoordinatorFault, RebalanceFails, StopCoordinator, CrashCoordinator, Fault,
      OnTime, StartCoordinator, PassInv, ExpireSession, DropSession, StartWorker,
      StopWorker, HeartbeatFails, BeginPass, EndPass, vars, db

\* "recovery <= worker-stale-after + rebalance-interval", although leaders may
\* lose the lock unawares and lead side by side, and workers and heartbeats may
\* fail in any order.
THEOREM Recovery ==
    ASSUME OnTime
    PROVE  Spec => []RecoveryBound
<1>1. OwnerAges => RecoveryBound
  BY DEF OwnerAges, Recent, RecoveryBound
<1> QED
  BY <1>1, RecoveryInit, PassStep, AgesStep, TypeCorrect, ForeignKey, PTL DEF Spec
=============================================================================
