-------------------------- MODULE ShardCoordinator --------------------------
(***************************************************************************)
(* Sharded topology of the indexer                                         *)
(* (services/indexer/internal/coordinator, internal/pgstore/coordinator.go)*)
(*                                                                         *)
(* Coordinator processes compete for a Postgres advisory lock.  The one    *)
(* that gets it creates the shard rows and then, on every tick, rebalances:*)
(* it reads the worker table, deletes stale workers one transaction at a   *)
(* time, reads the shard table, and hands orphaned shards out one          *)
(* transaction at a time.  Workers heartbeat from a goroutine of their own *)
(* and index the contracts of the shards they own, pass after pass.        *)
(*                                                                         *)
(* Every store call is a step, so calls of different processes interleave  *)
(* as they do over a shared database.  Time is discrete; only ages of      *)
(* timestamps are kept.  The clocks of the processes agree.                *)
(***************************************************************************)
EXTENDS Integers, FiniteSets

CONSTANTS
    Coordinators,       \* coordinator processes (replicas)
    Workers,            \* worker ids, in the order ids are sorted
    Shards,             \* shard ids, 0 .. ShardCount - 1
    Contracts,          \* tracked contracts
    ShardForContract,   \* fnv1a64(contract id) % ShardCount: any fixed map
    NoOne,              \* NULL worker_id; also: no session holds the lock
    Absent,             \* the shard row does not exist
    StaleAfter,
    HeartbeatInterval,
    RebalanceInterval,
    Faults,             \* kinds of fault that may happen, see FaultKinds
    MaxFaults,          \* how many faults may happen in a behaviour
    Punctual            \* TRUE: no step takes time and no tick is late

FaultKinds ==
    { "coordinator",    \* a coordinator stops or crashes
      "session",        \* the database drops the connection that holds the lock
      "ensure",         \* a store call of EnsureShards fails
      "store",          \* a store call of Rebalance fails
      "worker",         \* a worker stops or crashes
      "heartbeat" }     \* a heartbeat does not reach the database

ASSUME IdsAssumption ==
    /\ Workers \subseteq Nat
    /\ Shards \subseteq Nat
    /\ NoOne \notin Workers \union Coordinators
    /\ Absent \notin Workers \union {NoOne}
ASSUME ConstantsAssumption ==
    /\ ShardForContract \in [Contracts -> Shards]
    /\ {StaleAfter, HeartbeatInterval, RebalanceInterval, MaxFaults} \subseteq Nat
    /\ Faults \subseteq FaultKinds
    /\ Punctual \in BOOLEAN

VARIABLES
    \* Postgres
    lock,       \* coordinator whose session holds the advisory lock, or NoOne
    workers,    \* ids with a row in indexer_workers
    age,        \* age[w]: time since the heartbeat_at of w's row, saturating
    owner,      \* owner[s]: worker_id of the row of s, NoOne or Absent
    \* coordinator processes
    pc,         \* where Run is
    held,       \* held[c]: the local variable "held" of Run
    queue,      \* ids the current loop still has to visit
    live,       \* live[c]: the map "live" of Rebalance
    snap,       \* snap[c]: the slice "shards" of Rebalance
    nxt,        \* nxt[c]: the counter "next" of Rebalance
    passAge,    \* time since Rebalance read its "now", saturating
    timer,      \* time since the last tick (Punctual only)
    \* worker processes
    up,         \* workers whose process runs
    beat,       \* time since the last heartbeat was sent
    pass,       \* pass[w]: contracts the current indexing pass covers
    faults      \* faults so far

db == <<lock, workers, age, owner>>
local == <<pc, held, queue, live, snap, nxt, passAge, timer>>
worker == <<up, beat, pass>>
vars == <<db, local, worker, faults>>

\* Ages beyond this are not told apart.
MaxAge == StaleAfter + RebalanceInterval + 1
Older(a) == IF a < MaxAge THEN a + 1 ELSE MaxAge

Fault(kind) ==
    /\ kind \in Faults
    /\ faults < MaxFaults
    /\ faults' = faults + 1

IsFirst(x, S) == x \in S /\ \A y \in S : x <= y

NoRows == [s \in Shards |-> Absent]

\* The local variables of a pass go out of scope.
Forget(c) ==
    /\ queue' = [queue EXCEPT ![c] = {}]
    /\ live' = [live EXCEPT ![c] = {}]
    /\ snap' = [snap EXCEPT ![c] = NoRows]
    /\ nxt' = [nxt EXCEPT ![c] = 0]
    /\ passAge' = [passAge EXCEPT ![c] = 0]

Init ==
    /\ lock = NoOne
    /\ workers = {}
    /\ age = [w \in Workers |-> 0]
    /\ owner = NoRows
    /\ pc = [c \in Coordinators |-> "loop"]
    /\ held = [c \in Coordinators |-> FALSE]
    /\ queue = [c \in Coordinators |-> {}]
    /\ live = [c \in Coordinators |-> {}]
    /\ snap = [c \in Coordinators |-> NoRows]
    /\ nxt = [c \in Coordinators |-> 0]
    /\ passAge = [c \in Coordinators |-> 0]
    /\ timer = [c \in Coordinators |-> RebalanceInterval]
    /\ up = {}
    /\ beat = [w \in Workers |-> 0]
    /\ pass = [w \in Workers |-> {}]
    /\ faults = 0

-----------------------------------------------------------------------------
(* Leader election: Coordinator.Run and the advisory lock                  *)

\* The top of the loop is reached at start and then once per ticker period.
Due(c) == pc[c] = "loop" /\ (Punctual => timer[c] >= RebalanceInterval)

\* Mutant: a lock that another session holds counts as acquired.
BecomeLeaderUnlocked(c) ==
    /\ Due(c) /\ ~held[c]
    /\ lock' = IF lock = NoOne THEN c ELSE lock
    /\ held' = [held EXCEPT ![c] = TRUE]
    /\ pc' = [pc EXCEPT ![c] = "ensure"]
    /\ queue' = [queue EXCEPT ![c] = {s \in Shards : owner[s] = Absent}]
    /\ UNCHANGED <<workers, age, owner, live, snap, nxt, passAge, timer, worker, faults>>

\* pg_try_advisory_lock succeeds: become leader and list the missing shards.
BecomeLeader(c) ==
    /\ Due(c) /\ ~held[c] /\ lock = NoOne
    /\ lock' = c
    /\ held' = [held EXCEPT ![c] = TRUE]
    /\ pc' = [pc EXCEPT ![c] = "ensure"]
    /\ queue' = [queue EXCEPT ![c] = {s \in Shards : owner[s] = Absent}]
    /\ UNCHANGED <<workers, age, owner, live, snap, nxt, passAge, timer, worker, faults>>

\* Another session holds the lock: wait for the next tick.
StayFollower(c) ==
    /\ Punctual /\ Due(c) /\ ~held[c] /\ lock # NoOne
    /\ timer' = [timer EXCEPT ![c] = 0]
    /\ UNCHANGED <<db, pc, held, queue, live, snap, nxt, passAge, worker, faults>>

\* INSERT ... ON CONFLICT DO NOTHING of the next missing shard.
EnsureShard(c, s) ==
    /\ pc[c] = "ensure" /\ IsFirst(s, queue[c])
    /\ owner' = [owner EXCEPT ![s] = IF @ = Absent THEN NoOne ELSE @]
    /\ queue' = [queue EXCEPT ![c] = @ \ {s}]
    /\ UNCHANGED <<lock, workers, age, pc, held, live, snap, nxt, passAge, timer, worker, faults>>

\* EnsureShards is abandoned: the error is logged and Run goes on to Rebalance.
EnsureFails(c) ==
    /\ pc[c] = "ensure" /\ Fault("ensure")
    /\ queue' = [queue EXCEPT ![c] = {}]
    /\ UNCHANGED <<db, pc, held, live, snap, nxt, passAge, timer, worker>>

\* SIGTERM at the end of an iteration: the lock is released explicitly.
StopCoordinator(c) ==
    /\ pc[c] = "loop" /\ Fault("coordinator")
    /\ pc' = [pc EXCEPT ![c] = "down"]
    /\ held' = [held EXCEPT ![c] = FALSE]
    /\ lock' = IF held[c] /\ lock = c THEN NoOne ELSE lock
    /\ UNCHANGED <<workers, age, owner, queue, live, snap, nxt, passAge, timer, worker>>

\* A crash leaves the session behind until the server notices.
CrashCoordinator(c) ==
    /\ pc[c] # "down" /\ Fault("coordinator")
    /\ pc' = [pc EXCEPT ![c] = "down"]
    /\ held' = [held EXCEPT ![c] = FALSE]
    /\ Forget(c)
    /\ UNCHANGED <<db, timer, worker>>

StartCoordinator(c) ==
    /\ pc[c] = "down"
    /\ pc' = [pc EXCEPT ![c] = "loop"]
    /\ timer' = [timer EXCEPT ![c] = RebalanceInterval]
    /\ UNCHANGED <<db, held, queue, live, snap, nxt, passAge, worker, faults>>

\* The server ends the session of a coordinator that is gone.
ExpireSession ==
    /\ lock # NoOne /\ ~held[lock]
    /\ lock' = NoOne
    /\ UNCHANGED <<workers, age, owner, local, worker, faults>>

\* The pinned connection of a leader drops; Run, which tries the lock only
\* while it does not hold it, never looks at the connection again.
DropSession ==
    /\ lock # NoOne /\ held[lock] /\ Fault("session")
    /\ lock' = NoOne
    /\ UNCHANGED <<workers, age, owner, local, worker>>

-----------------------------------------------------------------------------
(* Coordinator.Rebalance, one store call per step                          *)

\* Workers whose heartbeat is at most limit old are live, the others are stale.
SplitWorkers(c, limit) ==
    /\ held[c]
    /\ Due(c) \/ (pc[c] = "ensure" /\ queue[c] = {})
    /\ pc' = [pc EXCEPT ![c] = "evict"]
    /\ live' = [live EXCEPT ![c] = {w \in workers : age[w] <= limit}]
    /\ queue' = [queue EXCEPT ![c] = {w \in workers : age[w] > limit}]
    /\ passAge' = [passAge EXCEPT ![c] = 0]
    /\ timer' = [timer EXCEPT ![c] = 0]
    /\ UNCHANGED <<db, held, snap, nxt, worker, faults>>

\* Mutants: off by one to either side of stale-after.
ListWorkersEager(c) == SplitWorkers(c, StaleAfter - 1)
ListWorkersLax(c) == SplitWorkers(c, StaleAfter + 1)

\* now := c.cfg.now(), then ListWorkers.
ListWorkers(c) == SplitWorkers(c, StaleAfter)

\* One transaction: the worker's shards return to the pool and its row goes,
\* whatever heartbeat the row carries by now.
DeleteWorker(c, w) ==
    /\ pc[c] = "evict" /\ IsFirst(w, queue[c])
    /\ owner' = [s \in Shards |-> IF owner[s] = w THEN NoOne ELSE owner[s]]
    /\ workers' = workers \ {w}
    /\ age' = [age EXCEPT ![w] = 0]
    /\ queue' = [queue EXCEPT ![c] = @ \ {w}]
    /\ UNCHANGED <<lock, pc, held, live, snap, nxt, passAge, timer, worker, faults>>

\* Mutant: the shards are read before the stale workers are deleted.
ListShardsEarly(c) ==
    /\ pc[c] = "evict"
    /\ pc' = [pc EXCEPT ![c] = "assign"]
    /\ snap' = [snap EXCEPT ![c] = owner]
    /\ queue' = [queue EXCEPT ![c] = {s \in Shards : owner[s] # Absent}]
    /\ nxt' = [nxt EXCEPT ![c] = 0]
    /\ UNCHANGED <<db, held, live, passAge, timer, worker, faults>>

ListShards(c) ==
    /\ pc[c] = "evict" /\ queue[c] = {}
    /\ pc' = [pc EXCEPT ![c] = "assign"]
    /\ snap' = [snap EXCEPT ![c] = owner]
    /\ queue' = [queue EXCEPT ![c] = {s \in Shards : owner[s] # Absent}]
    /\ nxt' = [nxt EXCEPT ![c] = 0]
    /\ UNCHANGED <<db, held, live, passAge, timer, worker, faults>>

Visit(c, s) ==
    /\ pc[c] = "assign" /\ IsFirst(s, queue[c])
    /\ queue' = [queue EXCEPT ![c] = @ \ {s}]
    /\ UNCHANGED <<lock, pc, held, live, snap, passAge, timer, worker, faults>>

\* The owner is live, or there is nobody to own the shard and nobody does.
KeepShard(c, s) ==
    /\ Visit(c, s)
    /\ snap[c][s] \in live[c] \/ (live[c] = {} /\ snap[c][s] = NoOne)
    /\ UNCHANGED <<workers, age, owner, nxt>>

\* No worker is live: the shard goes back to the pool.
UnassignShard(c, s) ==
    /\ Visit(c, s)
    /\ live[c] = {} /\ snap[c][s] # NoOne
    /\ owner' = [owner EXCEPT ![s] = NoOne]
    /\ UNCHANGED <<workers, age, nxt>>

\* Mutant: ids[next], without wrapping around.
IsTargetUnwrapped(c, w) ==
    w \in live[c] /\ Cardinality({v \in live[c] : v < w}) = nxt[c]

\* ids[next % len(ids)] of the live workers sorted by id.
IsTarget(c, w) ==
    /\ w \in live[c]
    /\ Cardinality({v \in live[c] : v < w}) = nxt[c] % Cardinality(live[c])

\* Mutant: the shard is given to the worker without making sure of its row.
AssignShardOnly(c, s, w) ==
    /\ Visit(c, s)
    /\ snap[c][s] \notin live[c]
    /\ IsTarget(c, w)
    /\ owner' = [owner EXCEPT ![s] = w]
    /\ nxt' = [nxt EXCEPT ![c] = @ + 1]
    /\ UNCHANGED <<workers, age>>

\* Mutant: the round robin counts down.
AssignShardBackwards(c, s, w) ==
    /\ Visit(c, s)
    /\ snap[c][s] \notin live[c]
    /\ IsTarget(c, w)
    /\ workers' = workers \union {w}
    /\ age' = IF w \in workers THEN age ELSE [age EXCEPT ![w] = passAge[c]]
    /\ owner' = [owner EXCEPT ![s] = w]
    /\ nxt' = [nxt EXCEPT ![c] = @ - 1]

\* One transaction: the row of the worker is created if it is missing, with
\* the leader's "now" as its heartbeat, and the shard is given to the worker.
AssignShard(c, s, w) ==
    /\ Visit(c, s)
    /\ snap[c][s] \notin live[c]
    /\ IsTarget(c, w)
    /\ workers' = workers \union {w}
    /\ age' = IF w \in workers THEN age ELSE [age EXCEPT ![w] = passAge[c]]
    /\ owner' = [owner EXCEPT ![s] = w]
    /\ nxt' = [nxt EXCEPT ![c] = @ + 1]

EndRebalance(c) ==
    /\ pc[c] = "assign" /\ queue[c] = {}
    /\ pc' = [pc EXCEPT ![c] = "loop"]
    /\ Forget(c)
    /\ UNCHANGED <<db, held, timer, worker, faults>>

\* Any store call of Rebalance may fail: what was done stays done, the rest
\* waits for the next tick.  (A failing lock attempt, ListWorkers included,
\* changes nothing.)
RebalanceFails(c) ==
    /\ pc[c] \in {"evict", "assign"} /\ Fault("store")
    /\ pc' = [pc EXCEPT ![c] = "loop"]
    /\ Forget(c)
    /\ UNCHANGED <<db, held, timer, worker>>

-----------------------------------------------------------------------------
(* WorkerRunner.Run: heartbeat goroutine and indexing loop                 *)

\* A worker that starts owes its first heartbeat at once.
StartWorker(w) ==
    /\ w \notin up
    /\ up' = up \union {w}
    /\ beat' = [beat EXCEPT ![w] = HeartbeatInterval]
    /\ UNCHANGED <<db, local, pass, faults>>

\* The row outlives the process, whether it crashes or is told to stop.
StopWorker(w) ==
    /\ w \in up /\ Fault("worker")
    /\ up' = up \ {w}
    /\ pass' = [pass EXCEPT ![w] = {}]
    /\ UNCHANGED <<db, local, beat>>

Heartbeat(w) ==
    /\ w \in up /\ beat[w] >= HeartbeatInterval
    /\ workers' = workers \union {w}
    /\ age' = [age EXCEPT ![w] = 0]
    /\ beat' = [beat EXCEPT ![w] = 0]
    /\ UNCHANGED <<lock, owner, local, up, pass, faults>>

HeartbeatFails(w) ==
    /\ w \in up /\ beat[w] >= HeartbeatInterval /\ Fault("heartbeat")
    /\ beat' = [beat EXCEPT ![w] = 0]
    /\ UNCHANGED <<db, local, up, pass>>

\* ContractsForShards over ShardsForWorker.
AssignedContracts(w) == {k \in Contracts : owner[ShardForContract[k]] = w}

\* onAssigned: the scope is fixed for the whole pass.
BeginPass(w) ==
    /\ w \in up /\ pass[w] = {} /\ AssignedContracts(w) # {}
    /\ pass' = [pass EXCEPT ![w] = AssignedContracts(w)]
    /\ UNCHANGED <<db, local, up, beat, faults>>

EndPass(w) ==
    /\ pass[w] # {}
    /\ pass' = [pass EXCEPT ![w] = {}]
    /\ UNCHANGED <<db, local, up, beat, faults>>

-----------------------------------------------------------------------------
\* Time passes.  A running worker sends a heartbeat every HeartbeatInterval;
\* under Punctual a coordinator also ticks on time and its steps take none.
Tick ==
    /\ \A w \in up : beat[w] < HeartbeatInterval
    /\ Punctual => \A c \in Coordinators :
                      /\ pc[c] \in {"loop", "down"}
                      /\ pc[c] = "loop" => timer[c] < RebalanceInterval
    /\ age' = [w \in Workers |-> IF w \in workers THEN Older(age[w]) ELSE age[w]]
    /\ beat' = [w \in Workers |-> IF w \in up THEN beat[w] + 1 ELSE beat[w]]
    /\ passAge' = [c \in Coordinators |->
                      IF pc[c] \in {"evict", "assign"} THEN Older(passAge[c]) ELSE passAge[c]]
    /\ timer' = IF Punctual
                THEN [c \in Coordinators |-> IF pc[c] = "loop" THEN timer[c] + 1 ELSE timer[c]]
                ELSE timer
    /\ UNCHANGED <<lock, workers, owner, pc, held, queue, live, snap, nxt, up, pass, faults>>

LeaderStep(c) ==
    \/ BecomeLeader(c)
    \/ StayFollower(c)
    \/ \E s \in Shards : EnsureShard(c, s)
    \/ ListWorkers(c)
    \/ \E w \in Workers : DeleteWorker(c, w)
    \/ ListShards(c)
    \/ \E s \in Shards : \/ KeepShard(c, s)
                         \/ UnassignShard(c, s)
                         \/ \E w \in Workers : AssignShard(c, s, w)
    \/ EndRebalance(c)

CoordinatorFault(c) ==
    \/ EnsureFails(c)
    \/ RebalanceFails(c)
    \/ StopCoordinator(c)
    \/ CrashCoordinator(c)

Next ==
    \/ \E c \in Coordinators :
          \/ LeaderStep(c)
          \/ StartCoordinator(c)
          \/ CoordinatorFault(c)
    \/ ExpireSession
    \/ DropSession
    \/ \E w \in Workers :
          \/ StartWorker(w) \/ StopWorker(w)
          \/ Heartbeat(w) \/ HeartbeatFails(w)
          \/ BeginPass(w) \/ EndPass(w)
    \/ Tick

Spec == Init /\ [][Next]_vars

\* Coordinators are restarted by the orchestrator and their loops keep running;
\* the heartbeat and indexing loops of a running worker do too (a pass is cut
\* off by its MaxDuration); a dead session is noticed eventually; time passes.
\* Nothing makes a stopped worker come back.
Fairness ==
    /\ \A c \in Coordinators : WF_vars(LeaderStep(c)) /\ WF_vars(StartCoordinator(c))
    /\ \A w \in Workers :
          WF_vars(Heartbeat(w)) /\ WF_vars(BeginPass(w)) /\ WF_vars(EndPass(w))
    /\ WF_vars(ExpireSession)
    /\ WF_vars(Tick)

FairSpec == Spec /\ Fairness

-----------------------------------------------------------------------------
(* Properties                                                              *)

TypeOK ==
    /\ lock \in Coordinators \union {NoOne}
    /\ workers \subseteq Workers
    /\ age \in [Workers -> 0 .. MaxAge]
    /\ owner \in [Shards -> Workers \union {NoOne, Absent}]
    /\ pc \in [Coordinators -> {"down", "loop", "ensure", "evict", "assign"}]
    /\ held \in [Coordinators -> BOOLEAN]
    /\ queue \in [Coordinators -> SUBSET Nat]
    /\ live \in [Coordinators -> SUBSET Workers]
    /\ snap \in [Coordinators -> [Shards -> Workers \union {NoOne, Absent}]]
    /\ nxt \in [Coordinators -> Nat]
    /\ passAge \in [Coordinators -> 0 .. MaxAge]
    /\ timer \in [Coordinators -> Nat]
    /\ up \subseteq Workers
    /\ beat \in [Workers -> Nat]
    /\ pass \in [Workers -> SUBSET Contracts]
    /\ faults \in Nat

\* indexer_shards.worker_id is a foreign key: whatever leaders and workers do
\* concurrently, an owner always has a row (AssignShard creates it when another
\* leader deleted it meanwhile, DeleteWorker clears the shards first).
OwnerHasRow == \A s \in Shards : owner[s] \in workers \union {NoOne, Absent}

\* At most one coordinator believes it leads.
OneLeader == \A c, d \in Coordinators : held[c] /\ held[d] => c = d

\* While its session lasts, a coordinator that acts as leader holds the lock.
LeaderHoldsLock == \A c \in Coordinators : held[c] => lock = c

\* Rebalance decides from the rows it read at the start of its last loop; no
\* row it has still to visit has changed since, so no decision is out of date.
SnapshotIsCurrent ==
    \A c \in Coordinators : pc[c] = "assign" =>
        \A s \in queue[c] : owner[s] = snap[c][s]

\* Once the stale workers are deleted, every owner is one of the workers the
\* pass counts as live: a shard in the table is never left with a dead owner.
OwnersAreLive ==
    \A c \in Coordinators : pc[c] = "assign" =>
        \A s \in Shards : owner[s] \in live[c] \union {NoOne, Absent}

\* A shard changes hands only through the pool: see ShardOwnership.
Table == INSTANCE ShardOwnership
             WITH owner <- [s \in Shards |-> IF owner[s] = Absent THEN NoOne ELSE owner[s]]
HandoverThroughPool == Table!Spec

\* "A healthy worker is never interrupted": where workers neither stop nor miss
\* heartbeats, a shard that is owned stays with its owner.
HealthyOwnerUndisturbed ==
    [][\A s \in Shards : owner[s] \in Workers => owner'[s] = owner[s]]_owner

\* No contract is indexed by two workers at once.
OneIndexerPerContract ==
    \A v, w \in Workers : v # w => pass[v] \cap pass[w] = {}

\* recovery <= worker-stale-after + rebalance-interval: a worker that stopped,
\* or whose heartbeats are lost, owns shards only that long after the last one.
RecoveryBound ==
    \A s \in Shards : owner[s] \in Workers =>
        age[owner[s]] <= StaleAfter + RebalanceInterval

\* As long as some worker keeps running, every contract is indexed again and
\* again by a running worker, whatever the (finitely many) faults did.
ContractsResume ==
    \A w \in Workers :
        <>[](w \in up) => \A k \in Contracts : []<>(\E v \in up : k \in pass[v])
=============================================================================
