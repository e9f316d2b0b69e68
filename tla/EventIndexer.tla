---------------------------- MODULE EventIndexer ----------------------------
(***************************************************************************)
(* Event indexing: the poller (services/indexer/internal/poller), the      *)
(* getEvents client it reads through (internal/sorobanrpc), the commit of  *)
(* a window (internal/pgstore) and the requeue endpoint of the API that    *)
(* drains the dead-letter queue (apps/api/internal/handler/dlq.go).        *)
(*                                                                         *)
(* A poller process runs passes over all contracts.  For each contract it  *)
(* reads the newest ledger, then the contract's sync state, then the       *)
(* events of the next window of ledgers, and commits the window in one     *)
(* transaction.  Every call is a step, so pollers interleave: the lock     *)
(* they take around a contract is a stub that is always granted            *)
(* (stubRedis in services/indexer/main.go), so nothing keeps two of them   *)
(* off the same contract.  All contracts are active and of one network.    *)
(***************************************************************************)
EXTENDS Integers, FiniteSets

CONSTANTS
    Pollers,        \* indexer processes
    Contracts,      \* tracked contracts
    Txs,            \* transactions
    Events,         \* what the ledgers hold: [contract, ledger, tx]
    Malformed,      \* events the events table rejects at first
    None,           \* no contract; no event
    MaxLedger,      \* the last ledger of a behaviour
    Window,         \* Config.LedgerWindow
    Backfill,       \* newContractBackfillWindow
    PageLimit,      \* eventsPageLimit
    MaxPages,       \* maxEventPages
    Faults,         \* kinds of fault that may happen, see FaultKinds
    MaxFaults       \* how many faults may happen in a behaviour

FaultKinds ==
    { "call",       \* a call of processContract fails, or the commit does
      "tx",         \* getTransaction fails for some transactions
      "cancel",     \* the pass is cancelled (MaxDuration, SIGTERM)
      "crash",      \* a poller process crashes
      "requeue" }   \* a call of RequeueFailedEvent fails

ASSUME EventsAssumption ==
    /\ Events \subseteq [contract : Contracts, ledger : 1 .. MaxLedger, tx : Txs]
    /\ IsFiniteSet(Events)
    /\ Malformed \subseteq Events
    /\ None \notin Contracts \union Events
ASSUME SizesAssumption ==
    /\ {MaxLedger, Window, PageLimit, MaxPages} \subseteq Nat \ {0}
    /\ {Backfill, MaxFaults} \subseteq Nat
    /\ Faults \subseteq FaultKinds

VARIABLES
    head,           \* newest ledger of the network
    \* Postgres
    sync,           \* sync[k]: last_ledger of k in sync_state, 0 without a row
    cursor,         \* ledger of the network in indexer_cursors, 0 without a row
    events,         \* rows of events
    parked,         \* rows of failed_events
    invoked,        \* invoked[t]: contract_id of the row of t in invocations
    rejected,       \* events the events table rejects for now
    \* poller processes
    todo,           \* todo[p]: contracts the pass has not started yet
    pc,             \* pc[p][k]: where processContract is
    latest,         \* latest[p][k]: newest ledger the job was told
    from,           \* from[p][k]: startLedger of the job
    got,            \* got[p][k]: events the job fetched
    txs,            \* txs[p][k]: transactions the job fetched
    fresh,          \* fresh[p][k]: the job found no sync state
    \* API
    requeue,        \* event being requeued, or None
    rpc,            \* the next call of RequeueFailedEvent
    faults,         \* faults so far
    \* history
    floor,          \* floor[k]: where the backfill committed first for k began
    ends,           \* ends[k]: last ledgers of the windows committed for k
    gaps,           \* gaps[k]: ledgers that a late backfill of k jumped over
    missed          \* transactions that could not be fetched at some time

db == <<sync, cursor, events, parked, invoked, rejected>>
jobs == <<todo, pc, latest, from, got, txs, fresh>>
api == <<requeue, rpc>>
history == <<floor, ends, gaps, missed>>
vars == <<head, db, jobs, api, faults, history>>

Fault(kind) ==
    /\ kind \in Faults
    /\ faults < MaxFaults
    /\ faults' = faults + 1

Smaller(a, b) == IF a < b THEN a ELSE b
Larger(a, b) == IF a < b THEN b ELSE a

\* All entries of a job's or a process's row set to x.
Idle == [p \in Pollers |-> [k \in Contracts |-> "idle"]]
AllJobs(x) == [p \in Pollers |-> [k \in Contracts |-> x]]

Init ==
    /\ head = 1
    /\ sync = [k \in Contracts |-> 0]
    /\ cursor = 0
    /\ events = {} /\ parked = {}
    /\ invoked = [t \in Txs |-> None]
    /\ rejected = Malformed
    /\ todo = [p \in Pollers |-> {}]
    /\ pc = Idle
    /\ latest = AllJobs(0) /\ from = AllJobs(0)
    /\ got = AllJobs({}) /\ txs = AllJobs({}) /\ fresh = AllJobs(FALSE)
    /\ requeue = None /\ rpc = "idle"
    /\ faults = 0
    /\ floor = [k \in Contracts |-> 0]
    /\ ends = [k \in Contracts |-> {}] /\ gaps = [k \in Contracts |-> {}]
    /\ missed = {}

-----------------------------------------------------------------------------
(* The network, and the getEvents client                                   *)

CloseLedger ==
    /\ head < MaxLedger
    /\ head' = head + 1
    /\ UNCHANGED <<db, jobs, api, faults, history>>

\* getEvents: the node reads endLedger as exclusive.
EventsIn(k, a, b) ==
    {e \in Events : e.contract = k /\ a <= e.ledger /\ e.ledger < b}

\* Client.GetEvents: when the first page is full the client goes on by cursor
\* alone, without endLedger, until a page is short: up to the head.
WindowEvents(k, a, b) ==
    IF Cardinality(EventsIn(k, a, b)) < PageLimit
    THEN EventsIn(k, a, b)
    ELSE EventsIn(k, a, head + 1)

\* After MaxPages full pages it gives up with an error.
TooManyPages(k, a, b) ==
    /\ Cardinality(EventsIn(k, a, b)) >= PageLimit
    /\ Cardinality(EventsIn(k, a, head + 1)) >= PageLimit * MaxPages

-----------------------------------------------------------------------------
(* Poller.processAll and processContract                                   *)

\* ListContracts; the next pass starts when the last one is over.
BeginPass(p) ==
    /\ todo[p] = {} /\ pc[p] = [k \in Contracts |-> "idle"]
    /\ todo' = [todo EXCEPT ![p] = Contracts]
    /\ UNCHANGED <<head, db, pc, latest, from, got, txs, fresh, api, faults, history>>

\* A queued contract is taken; the lock is granted; GetLatestLedger.
StartJob(p, k) ==
    /\ k \in todo[p] /\ pc[p][k] = "idle"
    /\ todo' = [todo EXCEPT ![p] = @ \ {k}]
    /\ pc' = [pc EXCEPT ![p][k] = "sync"]
    /\ latest' = [latest EXCEPT ![p][k] = head]
    /\ UNCHANGED <<head, db, from, got, txs, fresh, api, faults, history>>

\* The job is over, one way or the other.
EndJob(p, k) ==
    /\ pc' = [pc EXCEPT ![p][k] = "idle"]
    /\ latest' = [latest EXCEPT ![p][k] = 0]
    /\ from' = [from EXCEPT ![p][k] = 0]
    /\ got' = [got EXCEPT ![p][k] = {}]
    /\ txs' = [txs EXCEPT ![p][k] = {}]
    /\ fresh' = [fresh EXCEPT ![p][k] = FALSE]
    /\ UNCHANGED todo

\* Mutant: without the guard against going below the first ledger.
BackfillUnguarded(l) == l - Backfill

\* A contract without sync state starts Backfill ledgers back, or at 1.
BackfillStart(l) == IF l > Backfill THEN l - Backfill ELSE 1

\* Mutants: one ledger too far; a window back, to read late events again.
StartLedgerSkips(l, last) == IF last = 0 THEN BackfillStart(l) ELSE last + 2
StartLedgerOverlaps(l, last) ==
    IF last = 0 THEN BackfillStart(l) ELSE Larger(1, last - Window)

\* Where the next window starts, given the newest ledger and the sync state.
StartLedger(l, last) == IF last = 0 THEN BackfillStart(l) ELSE last + 1

\* GetSyncState, when there are ledgers to read.
ReadSync(p, k) ==
    /\ pc[p][k] = "sync"
    /\ StartLedger(latest[p][k], sync[k]) <= latest[p][k]
    /\ pc' = [pc EXCEPT ![p][k] = "fetch"]
    /\ from' = [from EXCEPT ![p][k] = StartLedger(latest[p][k], sync[k])]
    /\ fresh' = [fresh EXCEPT ![p][k] = (sync[k] = 0)]
    /\ UNCHANGED <<head, db, todo, latest, got, txs, api, faults, history>>

\* GetSyncState, when the contract is up to date.
UpToDate(p, k) ==
    /\ pc[p][k] = "sync"
    /\ StartLedger(latest[p][k], sync[k]) > latest[p][k]
    /\ EndJob(p, k)
    /\ UNCHANGED <<head, db, api, faults, history>>

\* Mutants: not limited by the newest ledger; one ledger behind it.
EndLedgerUnlimited(p, k) == from[p][k] + Window - 1
EndLedgerBehind(p, k) == Smaller(from[p][k] + Window - 1, latest[p][k] - 1)

EndLedger(p, k) == Smaller(from[p][k] + Window - 1, latest[p][k])

\* fetchWindow: the events, then one transaction per hash.  A transaction that
\* cannot be fetched is logged and skipped.
Fetch(p, k) ==
    /\ pc[p][k] = "fetch"
    /\ ~TooManyPages(k, from[p][k], EndLedger(p, k))
    /\ LET window == WindowEvents(k, from[p][k], EndLedger(p, k))
           hashes == {e.tx : e \in window}
       IN  /\ got' = [got EXCEPT ![p][k] = window]
           /\ \E missing \in SUBSET hashes :
                 /\ txs' = [txs EXCEPT ![p][k] = hashes \ missing]
                 /\ missed' = missed \union missing
                 /\ IF missing = {} THEN UNCHANGED faults ELSE Fault("tx")
    /\ pc' = [pc EXCEPT ![p][k] = "commit"]
    /\ UNCHANGED <<head, db, todo, latest, from, fresh, api, floor, ends, gaps>>

\* The contract has more events than GetEvents reads: the pass skips it.
FetchTooLarge(p, k) ==
    /\ pc[p][k] = "fetch"
    /\ TooManyPages(k, from[p][k], EndLedger(p, k))
    /\ EndJob(p, k)
    /\ UNCHANGED <<head, db, api, faults, history>>

\* A backfill that is committed after another poller's sync state does not
\* begin where that one ended.
JumpedOver(p, k) ==
    IF fresh[p][k] /\ sync[k] # 0 THEN sync[k] + 1 .. from[p][k] - 1 ELSE {}

\* One transaction: rows for the stored and the parked events, for the hashes
\* not seen before, the sync state, and the network cursor.
CommitRows(p, k, park, hashes, ledger) ==
    /\ pc[p][k] = "commit"
    /\ events' = events \union (got[p][k] \ rejected)
    /\ parked' = parked \union park
    /\ invoked' = [t \in Txs |-> IF t \in hashes /\ invoked[t] = None THEN k ELSE invoked[t]]
    /\ sync' = [sync EXCEPT ![k] = EndLedger(p, k)]
    /\ cursor' = ledger
    /\ floor' = [floor EXCEPT ![k] = IF sync[k] = 0 THEN from[p][k] ELSE @]
    /\ gaps' = [gaps EXCEPT ![k] = @ \union JumpedOver(p, k)]
    /\ ends' = [ends EXCEPT ![k] = @ \union {EndLedger(p, k)}]
    /\ EndJob(p, k)
    /\ UNCHANGED <<head, rejected, api, faults, missed>>

\* Mutants: rejected events are dropped; the invocations of a parked event are
\* left to its requeue; the cursor is overwritten.
CommitDropsRejected(p, k) ==
    CommitRows(p, k, {}, txs[p][k], Larger(cursor, EndLedger(p, k)))
CommitStoredOnly(p, k) ==
    CommitRows(p, k, got[p][k] \intersect rejected,
               {e.tx : e \in got[p][k] \ rejected} \intersect txs[p][k],
               Larger(cursor, EndLedger(p, k)))
CommitOverwrites(p, k) ==
    CommitRows(p, k, got[p][k] \intersect rejected, txs[p][k], EndLedger(p, k))

\* BatchInsertWithCursor: an event that the table rejects goes to the
\* dead-letter queue, one that exists already is left alone; a transaction hash
\* keeps its first row; the sync state is overwritten; the network cursor is
\* the GREATEST of the old and the new one.
Commit(p, k) ==
    CommitRows(p, k, got[p][k] \intersect rejected, txs[p][k],
               Larger(cursor, EndLedger(p, k)))

\* A call fails; a transaction under way is rolled back.
JobFails(p, k) ==
    /\ pc[p][k] # "idle" /\ Fault("call")
    /\ EndJob(p, k)
    /\ UNCHANGED <<head, db, api, history>>

\* Jobs under way finish, queued contracts do not start.
CancelPass(p) ==
    /\ todo[p] # {} /\ Fault("cancel")
    /\ todo' = [todo EXCEPT ![p] = {}]
    /\ UNCHANGED <<head, db, pc, latest, from, got, txs, fresh, api, history>>

CrashPoller(p) ==
    /\ Fault("crash")
    /\ todo' = [todo EXCEPT ![p] = {}]
    /\ pc' = [pc EXCEPT ![p] = [k \in Contracts |-> "idle"]]
    /\ latest' = [latest EXCEPT ![p] = [k \in Contracts |-> 0]]
    /\ from' = [from EXCEPT ![p] = [k \in Contracts |-> 0]]
    /\ got' = [got EXCEPT ![p] = [k \in Contracts |-> {}]]
    /\ txs' = [txs EXCEPT ![p] = [k \in Contracts |-> {}]]
    /\ fresh' = [fresh EXCEPT ![p] = [k \in Contracts |-> FALSE]]
    /\ UNCHANGED <<head, db, api, history>>

-----------------------------------------------------------------------------
(* RequeueFailedEvent, one store call per step                             *)

\* Mutant: the row is taken out of the queue before the event is stored.
RequeueTake(e) ==
    /\ rpc = "idle" /\ e \in parked
    /\ parked' = parked \ {e}
    /\ requeue' = e
    /\ rpc' = "insert"
    /\ UNCHANGED <<head, sync, cursor, events, invoked, rejected, jobs, faults, history>>

RequeueGet(e) ==
    /\ rpc = "idle" /\ e \in parked
    /\ requeue' = e
    /\ rpc' = "insert"
    /\ UNCHANGED <<head, db, jobs, faults, history>>

\* The handler returns.
EndRequeue == requeue' = None /\ rpc' = "idle"

RequeueInsert ==
    /\ rpc = "insert" /\ requeue \notin rejected
    /\ events' = events \union {requeue}
    /\ rpc' = "delete"
    /\ UNCHANGED <<head, sync, cursor, parked, invoked, rejected, jobs, requeue, faults, history>>

\* The table still rejects the event: the row stays in the queue.
RequeueRejected ==
    /\ rpc = "insert" /\ requeue \in rejected
    /\ EndRequeue
    /\ UNCHANGED <<head, db, jobs, faults, history>>

RequeueDelete ==
    /\ rpc = "delete"
    /\ parked' = parked \ {requeue}
    /\ EndRequeue
    /\ UNCHANGED <<head, sync, cursor, events, invoked, rejected, jobs, faults, history>>

RequeueFails ==
    /\ rpc # "idle" /\ Fault("requeue")
    /\ EndRequeue
    /\ UNCHANGED <<head, db, jobs, history>>

\* What made the table reject events is repaired (a partition is created).
RepairTable ==
    /\ rejected # {}
    /\ rejected' = {}
    /\ UNCHANGED <<head, sync, cursor, events, parked, invoked, jobs, api, faults, history>>

-----------------------------------------------------------------------------
Job(p, k) ==
    \/ StartJob(p, k)
    \/ ReadSync(p, k) \/ UpToDate(p, k)
    \/ Fetch(p, k) \/ FetchTooLarge(p, k)
    \/ Commit(p, k)

Next ==
    \/ CloseLedger
    \/ \E p \in Pollers :
          \/ BeginPass(p)
          \/ CancelPass(p)
          \/ CrashPoller(p)
          \/ \E k \in Contracts : Job(p, k) \/ JobFails(p, k)
    \/ \E e \in Events : RequeueGet(e)
    \/ RequeueInsert \/ RequeueRejected \/ RequeueDelete \/ RequeueFails
    \/ RepairTable

Spec == Init /\ [][Next]_vars

\* Ledgers close, passes follow each other, and a job that has begun is carried
\* through or fails.  Nobody has to requeue anything.
Fairness ==
    /\ WF_vars(CloseLedger)
    /\ \A p \in Pollers :
          /\ WF_vars(BeginPass(p))
          /\ \A k \in Contracts : WF_vars(Job(p, k))

FairSpec == Spec /\ Fairness

-----------------------------------------------------------------------------
(* Properties                                                              *)

TypeOK ==
    /\ head \in 1 .. MaxLedger
    /\ sync \in [Contracts -> 0 .. MaxLedger]
    /\ cursor \in 0 .. MaxLedger
    /\ events \subseteq Events
    /\ parked \subseteq Events
    /\ invoked \in [Txs -> Contracts \union {None}]
    /\ rejected \subseteq Malformed
    /\ todo \in [Pollers -> SUBSET Contracts]
    /\ pc \in [Pollers -> [Contracts -> {"idle", "sync", "fetch", "commit"}]]
    /\ latest \in [Pollers -> [Contracts -> 0 .. MaxLedger]]
    /\ from \in [Pollers -> [Contracts -> 0 .. MaxLedger]]
    /\ got \in [Pollers -> [Contracts -> SUBSET Events]]
    /\ txs \in [Pollers -> [Contracts -> SUBSET Txs]]
    /\ fresh \in [Pollers -> [Contracts -> BOOLEAN]]
    /\ requeue \in Events \union {None}
    /\ rpc \in {"idle", "insert", "delete"}
    /\ faults \in Nat
    /\ floor \in [Contracts -> 0 .. MaxLedger]
    /\ ends \in [Contracts -> SUBSET (1 .. MaxLedger)]
    /\ gaps \in [Contracts -> SUBSET (1 .. MaxLedger)]
    /\ missed \subseteq Txs

Durable == events \union parked

\* The events between the start of the first backfill and the sync state.
Vouched == {e \in Events : floor[e.contract] <= e.ledger /\ e.ledger <= sync[e.contract]}

\* The sync state of a contract vouches for the ledgers up to it, with any
\* number of pollers and wherever their backfills began: every event since the
\* first backfill is stored or parked, except at the ledger that a window ends
\* at (NoLedgerSkipped) and where a late backfill left a gap: the per-contract
\* lock that was to prevent concurrent runs (poller.go:510) always grants.
DurableBelowSync ==
    \A e \in Vouched :
        e.ledger \notin ends[e.contract] \union gaps[e.contract] => e \in Durable

\* "The cursor only moves past a window whose rows are all durable somewhere"
\* (pgstore.go:286-287).
NoLedgerSkipped == \A e \in Vouched : e \in Durable

\* No cursor claims a ledger that has not closed, and the network cursor is
\* nowhere behind the contracts of the network.
CursorsWithinHead ==
    /\ \A k \in Contracts : sync[k] <= cursor
    /\ cursor <= head

\* "SetIndexerCursor advances the network cursor; it never moves backwards",
\* whichever poller commits first.
CursorNeverMovesBack == [][cursor' >= cursor]_cursor

\* With one poller, no ledger is read twice: the sync state only grows.
SyncNeverMovesBack == [][\A k \in Contracts : sync'[k] >= sync[k]]_sync

\* What is stored or parked once is not lost while it is requeued.
StaysDurable == [][Durable \subseteq Durable']_<<events, parked>>

\* "One row per transaction that invoked a tracked contract": an event never
\* refers to a transaction without a row, not even after a requeue, unless the
\* transaction could not be fetched with the window it was in.
InvocationPerTx == \A e \in events : invoked[e.tx] # None \/ e.tx \in missed

\* A contract whose events up to the head fit in the pages that GetEvents reads
\* catches up with the network, whatever failed before: passes follow each
\* other, and one that was cancelled or crashed is made up for by a later one.
\* Windows do not help a contract with more: once a page is full the rest is read
\* without an end ledger (methods.go:169-174).
CatchesUp ==
    \A k \in Contracts :
        Cardinality(EventsIn(k, 1, MaxLedger + 1)) < PageLimit * MaxPages
            => <>(sync[k] = MaxLedger)
=============================================================================
