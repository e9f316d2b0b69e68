------------------------- MODULE EventIndexerProofs -------------------------
(***************************************************************************)
(* Theorems about EventIndexer, for any pollers, contracts, events, window *)
(* and page sizes, and any faults.                                         *)
(***************************************************************************)
EXTENDS EventIndexer, TLAPS

-----------------------------------------------------------------------------
(* Windows                                                                 *)

\* What StartLedger and EndLedger compute: a window of closed ledgers.
LEMMA Starts ==
    ASSUME NEW l \in 1 .. MaxLedger, NEW last \in 0 .. MaxLedger
    PROVE  /\ StartLedger(l, last) \in Nat \ {0}
           /\ last # 0 => StartLedger(l, last) = last + 1
           /\ last = 0 /\ l <= Backfill => StartLedger(l, last) = 1
           /\ last = 0 => StartLedger(l, last) <= l
BY SizesAssumption DEF StartLedger, BackfillStart

\* A window ends within it and within the ledgers the job knows of.
LEMMA Ends ==
    ASSUME NEW f \in 1 .. MaxLedger, NEW l \in 1 .. MaxLedger, f <= l
    PROVE  Smaller(f + Window - 1, l) \in f .. l
BY SizesAssumption DEF Smaller

\* The pagination of GetEvents loses nothing of the window.
LEMMA WindowComplete ==
    ASSUME NEW k \in Contracts, NEW a \in Int, NEW b \in Int,
           head \in Int, b <= head
    PROVE  /\ EventsIn(k, a, b) \subseteq WindowEvents(k, a, b)
           /\ WindowEvents(k, a, b) \subseteq Events
BY EventsAssumption DEF WindowEvents, EventsIn

-----------------------------------------------------------------------------
(* Type correctness                                                        *)

\* A job knows only closed ledgers, and a requeue holds an event.
JobInv ==
    /\ \A p \in Pollers, k \in Contracts :
          /\ pc[p][k] # "idle" => 1 <= latest[p][k] /\ latest[p][k] <= head
          /\ pc[p][k] \in {"fetch", "commit"} =>
                1 <= from[p][k] /\ from[p][k] <= latest[p][k]
    /\ rpc # "idle" => requeue \in Events
    /\ rpc = "delete" => requeue \in events
    /\ \A k \in Contracts : sync[k] <= cursor
    /\ cursor <= head

TypeInv == TypeOK /\ JobInv

\* The initial state has the types.
LEMMA TypeInit == Init => TypeInv
BY EventsAssumption, SizesAssumption DEF Init, TypeInv, TypeOK, JobInv, Idle, AllJobs

\* The part of it that is about jobs.
JobType ==
    /\ todo \in [Pollers -> SUBSET Contracts]
    /\ pc \in [Pollers -> [Contracts -> {"idle", "sync", "fetch", "commit"}]]
    /\ latest \in [Pollers -> [Contracts -> 0 .. MaxLedger]]
    /\ from \in [Pollers -> [Contracts -> 0 .. MaxLedger]]
    /\ got \in [Pollers -> [Contracts -> SUBSET Events]]
    /\ txs \in [Pollers -> [Contracts -> SUBSET Txs]]
    /\ fresh \in [Pollers -> [Contracts -> BOOLEAN]]
    /\ \A p \in Pollers, k \in Contracts :
          /\ pc[p][k] # "idle" => 1 <= latest[p][k] /\ latest[p][k] <= head
          /\ pc[p][k] \in {"fetch", "commit"} =>
                1 <= from[p][k] /\ from[p][k] <= latest[p][k]

\* Ending a job leaves the other jobs as they are.
LEMMA EndJobType ==
    ASSUME TypeInv, NEW p \in Pollers, NEW k \in Contracts, EndJob(p, k), head' = head
    PROVE  JobType'
BY SizesAssumption DEF TypeInv, TypeOK, JobInv, JobType, EndJob

\* A job may end without a change to the database.
LEMMA EndJobUnchanged ==
    ASSUME TypeInv, NEW p \in Pollers, NEW k \in Contracts, EndJob(p, k),
           UNCHANGED <<head, db, api, history>>, faults' \in Nat
    PROVE  TypeInv'
BY EndJobType DEF TypeInv, TypeOK, JobInv, JobType, db, api, history

\* Where a job at work on a window ends it.
LEMMA EndInWindow ==
    ASSUME TypeInv, NEW p \in Pollers, NEW k \in Contracts,
           pc[p][k] \in {"fetch", "commit"}
    PROVE  /\ from[p][k] \in 1 .. MaxLedger
           /\ latest[p][k] \in 1 .. MaxLedger
           /\ EndLedger(p, k) \in from[p][k] .. latest[p][k]
<1>1. /\ from[p][k] \in 1 .. MaxLedger /\ latest[p][k] \in 1 .. MaxLedger
      /\ from[p][k] <= latest[p][k]
  BY DEF TypeInv, TypeOK, JobInv
<1> QED
  BY <1>1, Ends DEF EndLedger

\* Each step keeps the types, and what a job and a requeue know.
LEMMA TypeStep == TypeInv /\ [Next]_vars => TypeInv'
<1> SUFFICES ASSUME TypeInv, [Next]_vars PROVE TypeInv'
  OBVIOUS
<1> USE DEF TypeOK, JobInv
<1>1. CASE CloseLedger
  BY <1>1, SizesAssumption DEF TypeInv, CloseLedger, db, jobs, api, history
<1>2. ASSUME NEW p \in Pollers, BeginPass(p) \/ CancelPass(p) PROVE TypeInv'
  <2>1. /\ todo' \in [Pollers -> SUBSET Contracts] /\ faults' \in Nat
        /\ UNCHANGED <<head, db, pc, latest, from, got, txs, fresh, api, history>>
    <3>1. CASE BeginPass(p)
      BY <3>1 DEF TypeInv, BeginPass
    <3>2. CASE CancelPass(p)
      BY <3>2 DEF TypeInv, CancelPass, Fault
    <3> QED
      BY <1>2, <3>1, <3>2
  <2> QED
    BY <2>1 DEF TypeInv, db, api, history
<1>3. ASSUME NEW p \in Pollers, CrashPoller(p) PROVE TypeInv'
  BY <1>3, SizesAssumption DEF TypeInv, CrashPoller, Fault, db, api, history
<1>4. ASSUME NEW p \in Pollers, NEW k \in Contracts, StartJob(p, k) PROVE TypeInv'
  BY <1>4 DEF TypeInv, StartJob, db, api, history
<1>5. ASSUME NEW p \in Pollers, NEW k \in Contracts, ReadSync(p, k) PROVE TypeInv'
  <2>1. latest[p][k] \in 1 .. MaxLedger /\ sync[k] \in 0 .. MaxLedger
    BY <1>5 DEF TypeInv, ReadSync
  <2>2. /\ StartLedger(latest[p][k], sync[k]) \in 1 .. MaxLedger
        /\ StartLedger(latest[p][k], sync[k]) <= latest[p][k]
    BY <1>5, <2>1, Starts, SizesAssumption DEF ReadSync
  <2> QED
    BY <1>5, <2>2 DEF TypeInv, ReadSync, db, api, history
<1>6. ASSUME NEW p \in Pollers, NEW k \in Contracts,
             UpToDate(p, k) \/ FetchTooLarge(p, k)
      PROVE  TypeInv'
  <2>1. /\ EndJob(p, k) /\ faults' \in Nat
        /\ UNCHANGED <<head, db, api, history>>
    BY <1>6 DEF TypeInv, UpToDate, FetchTooLarge
  <2> QED
    BY <2>1, EndJobUnchanged
<1>7. ASSUME NEW p \in Pollers, NEW k \in Contracts, JobFails(p, k) PROVE TypeInv'
  <2>1. EndJob(p, k) /\ UNCHANGED <<head, db, api, history>> /\ faults' \in Nat
    BY <1>7 DEF TypeInv, JobFails, Fault
  <2> QED
    BY <2>1, EndJobUnchanged
<1>8. ASSUME NEW p \in Pollers, NEW k \in Contracts, Fetch(p, k) PROVE TypeInv'
  <2> DEFINE window == WindowEvents(k, from[p][k], EndLedger(p, k))
  <2>1. EndLedger(p, k) <= head /\ EndLedger(p, k) \in Int /\ from[p][k] \in Int
    <3>1. pc[p][k] = "fetch"
      BY <1>8 DEF Fetch
    <3>2. /\ from[p][k] \in 1 .. MaxLedger /\ latest[p][k] \in 1 .. MaxLedger
          /\ EndLedger(p, k) \in from[p][k] .. latest[p][k]
      BY <3>1, EndInWindow
    <3>3. latest[p][k] <= head /\ head \in Int
      BY <3>1, SizesAssumption DEF TypeInv
    <3> HIDE DEF TypeOK, JobInv
    <3> QED
      BY <3>2, <3>3, SizesAssumption
  <2>2. window \subseteq Events
    <3>1. head \in Int
      BY SizesAssumption DEF TypeInv
    <3> QED
      BY <2>1, <3>1, WindowComplete
  <2>3. {e.tx : e \in window} \subseteq Txs
    BY <2>2, EventsAssumption
  <2>4. /\ faults' \in Nat /\ missed' \subseteq Txs
        /\ \E X \in SUBSET Txs : txs' = [txs EXCEPT ![p][k] = X]
    <3> DEFINE hashes == {e.tx : e \in window}
    <3>1. PICK missing \in SUBSET hashes :
            /\ txs' = [txs EXCEPT ![p][k] = hashes \ missing]
            /\ missed' = missed \union missing
            /\ IF missing = {} THEN UNCHANGED faults ELSE Fault("tx")
      BY <1>8 DEF Fetch
    <3>2. hashes \ missing \in SUBSET Txs /\ missing \subseteq Txs
      BY <2>3
    <3>3. faults' \in Nat /\ missed' \subseteq Txs
      BY <3>1, <3>2 DEF TypeInv, Fault
    <3> QED
      BY <3>1, <3>2, <3>3
  <2> QED
    BY <1>8, <2>2, <2>4 DEF TypeInv, Fetch, db, api, history
<1>9. ASSUME NEW p \in Pollers, NEW k \in Contracts, Commit(p, k) PROVE TypeInv'
  <2>1. EndLedger(p, k) \in 1 .. MaxLedger /\ EndLedger(p, k) <= head
    <3>1. pc[p][k] = "commit"
      BY <1>9 DEF Commit, CommitRows
    <3>2. /\ from[p][k] \in 1 .. MaxLedger /\ latest[p][k] \in 1 .. MaxLedger
          /\ EndLedger(p, k) \in from[p][k] .. latest[p][k]
      BY <3>1, EndInWindow
    <3>3. latest[p][k] <= head /\ head \in 1 .. MaxLedger
      BY <3>1 DEF TypeInv
    <3> HIDE DEF TypeOK, JobInv
    <3> QED
      BY <3>2, <3>3, SizesAssumption
  <2>2. /\ Larger(cursor, EndLedger(p, k)) \in 0 .. MaxLedger
        /\ Larger(cursor, EndLedger(p, k)) <= head
        /\ cursor <= Larger(cursor, EndLedger(p, k))
        /\ EndLedger(p, k) <= Larger(cursor, EndLedger(p, k))
    BY <2>1 DEF TypeInv, Larger
  <2>3. /\ sync' \in [Contracts -> 0 .. MaxLedger]
        /\ cursor' \in 0 .. MaxLedger /\ cursor' <= head'
        /\ \A j \in Contracts : sync'[j] <= cursor'
    BY <1>9, <2>1, <2>2 DEF TypeInv, Commit, CommitRows
  <2>4. /\ events' \subseteq Events /\ parked' \subseteq Events
        /\ invoked' \in [Txs -> Contracts \union {None}]
        /\ floor' \in [Contracts -> 0 .. MaxLedger]
        /\ ends' \in [Contracts -> SUBSET (1 .. MaxLedger)]
        /\ missed' \subseteq Txs
        /\ events \subseteq events'
    <3>1. from[p][k] \in 0 .. MaxLedger
      BY DEF TypeInv
    <3>2. EndLedger(p, k) \in 1 .. MaxLedger
      BY <2>1
    <3> QED
      BY <1>9, <3>1, <3>2 DEF TypeInv, Commit, CommitRows
  <2>7. gaps' \in [Contracts -> SUBSET (1 .. MaxLedger)]
    <3>1. from[p][k] \in 0 .. MaxLedger /\ sync[k] \in 0 .. MaxLedger
      BY DEF TypeInv
    <3>2. JumpedOver(p, k) \subseteq 1 .. MaxLedger
      BY <3>1, SizesAssumption DEF JumpedOver
    <3> QED
      BY <1>9, <3>2 DEF TypeInv, Commit, CommitRows
  <2>5. EndJob(p, k) /\ UNCHANGED <<head, rejected, api, faults>>
    BY <1>9 DEF Commit, CommitRows
  <2>6. JobType'
    BY <2>5, EndJobType
  <2> QED
    BY <2>3, <2>4, <2>5, <2>6, <2>7 DEF TypeInv, JobType, api
<1>10. ASSUME NEW e \in Events, RequeueGet(e) PROVE TypeInv'
  BY <1>10 DEF TypeInv, RequeueGet, db, jobs, history
<1>11. CASE RequeueInsert
  BY <1>11 DEF TypeInv, RequeueInsert, jobs, history
<1>12. CASE RequeueRejected \/ RequeueDelete \/ RequeueFails
  BY <1>12 DEF TypeInv, RequeueRejected, RequeueDelete, RequeueFails, EndRequeue, Fault,
               db, jobs, history
<1>13. CASE RepairTable
  BY <1>13 DEF TypeInv, RepairTable, jobs, api, history
<1>14. CASE UNCHANGED vars
  BY <1>14 DEF TypeInv, vars, db, jobs, api, history
<1> QED
  BY <1>1, <1>2, <1>3, <1>4, <1>5, <1>6, <1>7, <1>8, <1>9, <1>10, <1>11, <1>12,
     <1>13, <1>14
  DEF Next, Job

\* Every variable keeps its type.
THEOREM TypeCorrect == Spec => []TypeOK
<1>1. Spec => []TypeInv
  BY TypeInit, TypeStep, PTL DEF Spec
<1> QED
  BY <1>1, PTL DEF TypeInv

\* Whatever pollers do to each other, no cursor claims a ledger that has not
\* closed, and none is ahead of the network cursor.
THEOREM Cursors == Spec => []CursorsWithinHead
<1>1. Spec => []TypeInv
  BY TypeInit, TypeStep, PTL DEF Spec
<1>2. TypeInv => CursorsWithinHead
  BY DEF TypeInv, JobInv, CursorsWithinHead
<1> QED
  BY <1>1, <1>2, PTL

-----------------------------------------------------------------------------
(* Durability                                                              *)

\* No step loses an event that is stored or parked.
LEMMA DurableStep == TypeInv /\ [Next]_vars => Durable \subseteq Durable'
<1> SUFFICES ASSUME TypeInv, [Next]_vars PROVE Durable \subseteq Durable'
  OBVIOUS
<1> USE DEF Durable
<1>1. ASSUME NEW p \in Pollers, NEW k \in Contracts, Commit(p, k)
      PROVE  Durable \subseteq Durable'
  BY <1>1 DEF Commit, CommitRows
<1>2. CASE RequeueInsert
  BY <1>2 DEF RequeueInsert
<1>3. CASE RequeueDelete
  BY <1>3 DEF RequeueDelete, TypeInv, JobInv
<1>4. CASE UNCHANGED <<events, parked>>
  BY <1>4
<1> QED
  BY <1>1, <1>2, <1>3, <1>4
  DEF Next, Job, CloseLedger, BeginPass, CancelPass, CrashPoller, StartJob, ReadSync,
      UpToDate, Fetch, FetchTooLarge, JobFails, RequeueGet, RequeueRejected,
      RequeueFails, RepairTable, vars, db

\* A requeue that is interrupted anywhere, and a poller that parks the same
\* event meanwhile, lose nothing.
THEOREM NothingLost == Spec => StaysDurable
<1>1. Spec => []TypeInv
  BY TypeInit, TypeStep, PTL DEF Spec
<1>2. (Durable \subseteq Durable') => [Durable \subseteq Durable']_<<events, parked>>
  OBVIOUS
<1> QED
  BY <1>1, <1>2, DurableStep, PTL DEF Spec, StaysDurable

\* Where the sync state vouches for nothing: ends of windows, and gaps.
Excepted(k) == ends[k] \union gaps[k]

\* All events of k from a up to b, but for the exceptions, are durable.
Covered(k, a, b) ==
    \A e \in Events :
        /\ e.contract = k /\ a <= e.ledger /\ e.ledger < b
        /\ e.ledger \notin Excepted(k)
        => e \in Durable

\* A job that goes on from a sync state starts where everything below is durable,
\* and one that commits has all events of its window.
InScan(p, k) ==
    /\ ~fresh[p][k] => sync[k] # 0 /\ Covered(k, floor[k], from[p][k])
    /\ pc[p][k] = "commit" =>
          EventsIn(k, from[p][k], EndLedger(p, k)) \subseteq got[p][k]

ScanInv ==
    \A p \in Pollers, k \in Contracts : pc[p][k] \in {"fetch", "commit"} => InScan(p, k)

SyncInv == \A k \in Contracts : Covered(k, floor[k], sync[k] + 1)

DurableInv == SyncInv /\ ScanInv

\* Nothing is claimed at the start.
LEMMA DurableInit == Init => DurableInv
BY EventsAssumption DEF Init, DurableInv, SyncInv, ScanInv, Covered, Idle

\* What is covered stays covered while the exceptions only grow.
LEMMA CoveredStays ==
    ASSUME NEW k \in Contracts, NEW a, NEW b, Covered(k, a, b),
           Durable \subseteq Durable', Excepted(k) \subseteq Excepted(k)'
    PROVE  Covered(k, a, b)'
BY DEF Covered

\* A job at work stays in its scan while it and its contract's floor stay.
LEMMA ScanStays ==
    ASSUME NEW p \in Pollers, NEW k \in Contracts, InScan(p, k),
           Durable \subseteq Durable', Excepted(k) \subseteq Excepted(k)',
           sync[k] # 0 => sync'[k] # 0 /\ floor'[k] = floor[k],
           pc'[p][k] = pc[p][k], from'[p][k] = from[p][k], latest'[p][k] = latest[p][k],
           got'[p][k] = got[p][k], fresh'[p][k] = fresh[p][k]
    PROVE  InScan(p, k)'
<1>1. EndLedger(p, k)' = EndLedger(p, k)
  BY DEF EndLedger
<1>2. ASSUME ~fresh[p][k] PROVE sync'[k] # 0 /\ Covered(k, floor[k], from[p][k])'
  <2>1. sync[k] # 0 /\ Covered(k, floor[k], from[p][k])
    BY <1>2 DEF InScan
  <2> QED
    BY <2>1 DEF Covered
<1> QED
  BY <1>1, <1>2 DEF InScan

\* A step that commits nothing and leaves the jobs at work on a window alone.
LEMMA QuietStep ==
    ASSUME DurableInv, Durable \subseteq Durable', UNCHANGED <<sync, floor, ends, gaps>>,
           \A p \in Pollers, k \in Contracts : pc'[p][k] \in {"fetch", "commit"} =>
               /\ pc'[p][k] = pc[p][k] /\ from'[p][k] = from[p][k]
               /\ latest'[p][k] = latest[p][k] /\ got'[p][k] = got[p][k]
               /\ fresh'[p][k] = fresh[p][k]
    PROVE  DurableInv'
<1>1. \A k \in Contracts : Excepted(k)' = Excepted(k)
  BY DEF Excepted
<1>2. SyncInv'
  BY <1>1 DEF DurableInv, SyncInv, Covered
<1>3. ASSUME NEW p \in Pollers, NEW k \in Contracts, pc'[p][k] \in {"fetch", "commit"}
      PROVE  InScan(p, k)'
  <2>1. InScan(p, k)
    BY <1>3 DEF DurableInv, ScanInv
  <2> QED
    BY <1>1, <1>3, <2>1, ScanStays
<1> QED
  BY <1>2, <1>3 DEF DurableInv, ScanInv

\* What a commit adds is the window of its job: it meets what was covered, or
\* the ledgers in between become a gap.
LEMMA CommitCovers ==
    ASSUME TypeInv, DurableInv, NEW p \in Pollers, NEW k \in Contracts, Commit(p, k)
    PROVE  DurableInv'
<1> DEFINE last == EndLedger(p, k)
<1>0. Durable \subseteq Durable'
  BY DEF Commit, CommitRows, Durable
<1>1. pc[p][k] = "commit" /\ InScan(p, k)
  BY DEF Commit, CommitRows, DurableInv, ScanInv
<1>2. from[p][k] \in 1 .. MaxLedger /\ last \in 1 .. MaxLedger /\ sync[k] \in 0 .. MaxLedger
  <2>1. from[p][k] \in 1 .. MaxLedger /\ last \in 1 .. MaxLedger
    BY <1>1, EndInWindow, SizesAssumption
  <2> QED
    BY <2>1 DEF TypeInv, TypeOK
<1>3. /\ sync' = [sync EXCEPT ![k] = last]
      /\ floor' = [floor EXCEPT ![k] = IF sync[k] = 0 THEN from[p][k] ELSE @]
      /\ ends' = [ends EXCEPT ![k] = @ \union {last}]
      /\ gaps' = [gaps EXCEPT ![k] = @ \union JumpedOver(p, k)]
      /\ got[p][k] \subseteq Durable'
      /\ EndJob(p, k)
  BY DEF Commit, CommitRows, Durable
<1>4. /\ sync'[k] = last
      /\ floor'[k] = IF sync[k] = 0 THEN from[p][k] ELSE floor[k]
      /\ ends'[k] = ends[k] \union {last}
      /\ gaps'[k] = gaps[k] \union JumpedOver(p, k)
      /\ \A j \in Contracts \ {k} : /\ sync'[j] = sync[j] /\ floor'[j] = floor[j]
                                    /\ ends'[j] = ends[j] /\ gaps'[j] = gaps[j]
  BY <1>3 DEF TypeInv, TypeOK
<1>5. EventsIn(k, from[p][k], last) \subseteq Durable'
  BY <1>1, <1>3 DEF InScan
<1> HIDE DEF last
<1>6. \A j \in Contracts : Excepted(j) \subseteq Excepted(j)'
  BY <1>4 DEF Excepted
<1>7. ASSUME NEW e \in Events, e.contract = k, floor'[k] <= e.ledger,
             e.ledger <= last, e.ledger \notin Excepted(k)'
      PROVE  e \in Durable'
  <2>1. e.ledger \in 1 .. MaxLedger /\ e.ledger < last /\ e.ledger \notin JumpedOver(p, k)
    BY <1>2, <1>4, <1>7, EventsAssumption DEF Excepted
  <2>2. CASE from[p][k] <= e.ledger
    BY <1>5, <1>7, <2>1, <2>2 DEF EventsIn
  <2>3. CASE e.ledger < from[p][k]
    <3>1. sync[k] # 0 /\ floor'[k] = floor[k]
      BY <1>2, <1>4, <1>7, <2>1, <2>3
    <3>2. e.ledger \notin Excepted(k)
      BY <1>6, <1>7
    <3>3. CASE fresh[p][k]
      <4>1. e.ledger < sync[k] + 1
        BY <1>2, <2>1, <2>3, <3>1, <3>3 DEF JumpedOver
      <4> QED
        BY <1>0, <1>7, <3>1, <3>2, <4>1 DEF DurableInv, SyncInv, Covered
    <3>4. CASE ~fresh[p][k]
      BY <1>0, <1>1, <1>7, <2>3, <3>1, <3>2, <3>4 DEF InScan, Covered
    <3> QED
      BY <3>3, <3>4
  <2> QED
    BY <1>2, <2>1, <2>2, <2>3
<1>8. SyncInv'
  <2> SUFFICES ASSUME NEW j \in Contracts, NEW e \in Events, e.contract = j,
                      floor'[j] <= e.ledger, e.ledger < sync'[j] + 1,
                      e.ledger \notin Excepted(j)'
               PROVE  e \in Durable'
    BY DEF SyncInv, Covered
  <2>1. CASE j = k
    BY <1>2, <1>4, <1>7, <2>1, EventsAssumption
  <2>2. CASE j # k
    BY <1>0, <1>4, <1>6, <2>2 DEF DurableInv, SyncInv, Covered
  <2> QED
    BY <2>1, <2>2
<1>9. ASSUME NEW q \in Pollers, NEW j \in Contracts, pc'[q][j] \in {"fetch", "commit"}
      PROVE  InScan(q, j)'
  <2>1. /\ pc'[q][j] = pc[q][j] /\ from'[q][j] = from[q][j]
        /\ latest'[q][j] = latest[q][j] /\ got'[q][j] = got[q][j]
        /\ fresh'[q][j] = fresh[q][j]
    BY <1>3, <1>9 DEF EndJob, TypeInv, TypeOK
  <2>2. InScan(q, j)
    BY <1>9, <2>1 DEF DurableInv, ScanInv
  <2>3. sync[j] # 0 => sync'[j] # 0 /\ floor'[j] = floor[j]
    BY <1>2, <1>4
  <2> QED
    BY <1>0, <1>6, <2>1, <2>2, <2>3, ScanStays
<1> QED
  BY <1>8, <1>9 DEF DurableInv, ScanInv

\* Each step keeps what is covered covered.
LEMMA DurableInvStep == TypeInv /\ DurableInv /\ [Next]_vars => DurableInv'
<1> SUFFICES ASSUME TypeInv, DurableInv, [Next]_vars PROVE DurableInv'
  OBVIOUS
<1>0. Durable \subseteq Durable'
  BY DurableStep
<1>1. ASSUME NEW p \in Pollers, NEW k \in Contracts, Commit(p, k) PROVE DurableInv'
  BY <1>1, CommitCovers
<1>2. ASSUME NEW p \in Pollers, NEW k \in Contracts, ReadSync(p, k) PROVE DurableInv'
  <2>1. /\ pc' = [pc EXCEPT ![p][k] = "fetch"]
        /\ from' = [from EXCEPT ![p][k] = StartLedger(latest[p][k], sync[k])]
        /\ fresh' = [fresh EXCEPT ![p][k] = (sync[k] = 0)]
        /\ UNCHANGED <<latest, got, sync, floor, ends, gaps>>
    BY <1>2 DEF ReadSync, db, history
  <2>2. \A j \in Contracts : Excepted(j)' = Excepted(j)
    BY <2>1 DEF Excepted
  <2>3. SyncInv'
    BY <1>0, <2>1, <2>2 DEF DurableInv, SyncInv, Covered
  <2>4. InScan(p, k)'
    <3>1. /\ pc'[p][k] = "fetch" /\ from'[p][k] = StartLedger(latest[p][k], sync[k])
          /\ fresh'[p][k] = (sync[k] = 0)
      BY <2>1 DEF TypeInv, TypeOK
    <3>2. ASSUME ~fresh'[p][k]
          PROVE  sync'[k] # 0 /\ Covered(k, floor[k], from[p][k])'
      <4>1. sync[k] # 0 /\ from'[p][k] = sync[k] + 1
        BY <3>1, <3>2 DEF StartLedger
      <4>2. Covered(k, floor[k], sync[k] + 1)'
        BY <2>3 DEF SyncInv
      <4> QED
        BY <2>1, <4>1, <4>2 DEF Covered
    <3> QED
      BY <3>1, <3>2 DEF InScan
  <2>5. ASSUME NEW q \in Pollers, NEW j \in Contracts, pc'[q][j] \in {"fetch", "commit"},
               ~(q = p /\ j = k)
        PROVE  InScan(q, j)'
    <3>1. /\ pc'[q][j] = pc[q][j] /\ from'[q][j] = from[q][j]
          /\ fresh'[q][j] = fresh[q][j]
          /\ latest'[q][j] = latest[q][j] /\ got'[q][j] = got[q][j]
      BY <2>1, <2>5 DEF TypeInv, TypeOK
    <3>2. InScan(q, j)
      BY <2>5, <3>1 DEF DurableInv, ScanInv
    <3> QED
      BY <1>0, <2>1, <2>2, <3>1, <3>2, ScanStays
  <2> QED
    BY <2>3, <2>4, <2>5 DEF DurableInv, ScanInv
<1>3. ASSUME NEW p \in Pollers, NEW k \in Contracts, Fetch(p, k) PROVE DurableInv'
  <2>1. /\ pc[p][k] = "fetch" /\ pc' = [pc EXCEPT ![p][k] = "commit"]
        /\ got' = [got EXCEPT ![p][k] = WindowEvents(k, from[p][k], EndLedger(p, k))]
        /\ UNCHANGED <<latest, from, fresh, sync, floor, ends, gaps>>
    BY <1>3 DEF Fetch, db
  <2>2. \A j \in Contracts : Excepted(j)' = Excepted(j)
    BY <2>1 DEF Excepted
  <2>3. SyncInv'
    BY <1>0, <2>1, <2>2 DEF DurableInv, SyncInv, Covered
  <2>4. EventsIn(k, from[p][k], EndLedger(p, k)) \subseteq got'[p][k]
    <3>1. /\ from[p][k] \in 1 .. MaxLedger /\ latest[p][k] \in 1 .. MaxLedger
          /\ EndLedger(p, k) \in from[p][k] .. latest[p][k]
      BY <2>1, EndInWindow
    <3>2. latest[p][k] <= head /\ head \in 1 .. MaxLedger
      BY <2>1 DEF TypeInv, TypeOK, JobInv
    <3>3. from[p][k] \in Int /\ EndLedger(p, k) \in Int /\ head \in Int
          /\ EndLedger(p, k) <= head
      BY <3>1, <3>2, SizesAssumption
    <3> QED
      BY <2>1, <3>3, WindowComplete DEF TypeInv, TypeOK
  <2>5. InScan(p, k)'
    <3>1. EndLedger(p, k)' = EndLedger(p, k)
      BY <2>1 DEF EndLedger
    <3>2. Covered(k, floor[k], from[p][k]) => Covered(k, floor[k], from[p][k])'
      BY <1>0, <2>1, <2>2 DEF Covered
    <3>3. InScan(p, k)
      BY <2>1 DEF DurableInv, ScanInv
    <3> QED
      BY <2>1, <2>4, <3>1, <3>2, <3>3 DEF InScan
  <2>6. ASSUME NEW q \in Pollers, NEW j \in Contracts, pc'[q][j] \in {"fetch", "commit"},
               ~(q = p /\ j = k)
        PROVE  InScan(q, j)'
    <3>1. pc'[q][j] = pc[q][j] /\ got'[q][j] = got[q][j]
      BY <2>1, <2>6 DEF TypeInv, TypeOK
    <3>2. InScan(q, j)
      BY <2>6, <3>1 DEF DurableInv, ScanInv
    <3> QED
      BY <1>0, <2>1, <2>2, <3>1, <3>2, ScanStays
  <2> QED
    BY <2>3, <2>5, <2>6 DEF DurableInv, ScanInv
<1>4. ASSUME NEW p \in Pollers, NEW k \in Contracts, StartJob(p, k) PROVE DurableInv'
  BY <1>0, <1>4, QuietStep DEF StartJob, db, history, TypeInv, TypeOK
<1>5. ASSUME NEW p \in Pollers, NEW k \in Contracts,
             EndJob(p, k), UNCHANGED <<sync, floor, ends, gaps>>
      PROVE  DurableInv'
  BY <1>0, <1>5, QuietStep DEF EndJob, TypeInv, TypeOK
<1>6. ASSUME NEW p \in Pollers, CrashPoller(p) PROVE DurableInv'
  BY <1>0, <1>6, QuietStep DEF CrashPoller, db, history, TypeInv, TypeOK
<1>7. CASE UNCHANGED <<pc, from, latest, got, fresh, sync, floor, ends, gaps>>
  BY <1>0, <1>7, QuietStep
<1> QED
  BY <1>1, <1>2, <1>3, <1>4, <1>5, <1>6, <1>7
  DEF Next, Job, CloseLedger, BeginPass, CancelPass, UpToDate, FetchTooLarge, JobFails,
      RequeueGet, RequeueInsert, RequeueRejected, RequeueDelete, RequeueFails,
      RepairTable, vars, db, jobs, history

\* What the sync state vouches for is stored or parked, with any number of
\* pollers on a contract, wherever their backfills begin and whatever fails; only
\* the ends of windows and the gaps before late backfills may be missing.
THEOREM Durability == Spec => []DurableBelowSync
<1>1. Spec => [](TypeInv /\ DurableInv)
  BY TypeInit, TypeStep, DurableInit, DurableInvStep, PTL DEF Spec
<1>2. TypeInv /\ DurableInv => DurableBelowSync
  <2> SUFFICES ASSUME TypeInv, DurableInv, NEW e \in Vouched,
                      e.ledger \notin ends[e.contract] \union gaps[e.contract]
               PROVE  e \in Durable
    BY DEF DurableBelowSync
  <2>1. e \in Events /\ e.contract \in Contracts /\ e.ledger \in Int
        /\ sync[e.contract] \in Int
        /\ floor[e.contract] <= e.ledger /\ e.ledger <= sync[e.contract]
    BY EventsAssumption, SizesAssumption DEF TypeInv, TypeOK, Vouched
  <2>2. Covered(e.contract, floor[e.contract], sync[e.contract] + 1)
    BY <2>1 DEF DurableInv, SyncInv
  <2> QED
    BY <2>1, <2>2 DEF Covered, Excepted
<1> QED
  BY <1>1, <1>2, PTL

-----------------------------------------------------------------------------
(* Cursors move forward                                                    *)

\* The network cursor is the greatest ledger any poller has committed.
THEOREM CursorForward == Spec => CursorNeverMovesBack
<1>1. Spec => []TypeInv
  BY TypeInit, TypeStep, PTL DEF Spec
<1>2. TypeInv /\ [Next]_vars => [cursor' >= cursor]_cursor
  <2> SUFFICES ASSUME TypeInv, [Next]_vars PROVE cursor' >= cursor \/ cursor' = cursor
    OBVIOUS
  <2>1. ASSUME NEW p \in Pollers, NEW k \in Contracts, Commit(p, k)
        PROVE  cursor' >= cursor
    <3>1. pc[p][k] = "commit" /\ cursor' = Larger(cursor, EndLedger(p, k))
      BY <2>1 DEF Commit, CommitRows
    <3>2. /\ from[p][k] \in 1 .. MaxLedger /\ latest[p][k] \in 1 .. MaxLedger
          /\ EndLedger(p, k) \in from[p][k] .. latest[p][k]
      BY <3>1, EndInWindow
    <3>3. cursor \in Int /\ EndLedger(p, k) \in Int
      BY <3>2, SizesAssumption DEF TypeInv, TypeOK
    <3> QED
      BY <3>1, <3>3 DEF Larger
  <2>2. CASE UNCHANGED cursor
    BY <2>2
  <2> QED
    BY <2>1, <2>2
    DEF Next, Job, CloseLedger, BeginPass, CancelPass, CrashPoller, StartJob, ReadSync,
        UpToDate, Fetch, FetchTooLarge, JobFails, RequeueGet, RequeueInsert,
        RequeueRejected, RequeueDelete, RequeueFails, RepairTable, vars, db
<1> QED
  BY <1>1, <1>2, PTL DEF Spec, CursorNeverMovesBack

\* A job starts beyond the sync state it read.
AheadInv ==
    \A p \in Pollers, k \in Contracts :
        pc[p][k] \in {"fetch", "commit"} => sync[k] < from[p][k]

\* One poller alone commits windows in order: the sync state of a contract
\* never moves back.  (With two it can; the windows are then read again.)
THEOREM SyncForward ==
    ASSUME \A p, q \in Pollers : p = q
    PROVE  Spec => SyncNeverMovesBack
<1>1. Spec => []TypeInv
  BY TypeInit, TypeStep, PTL DEF Spec
<1>2. Init => AheadInv
  BY DEF Init, Idle, AheadInv
<1>3. TypeInv /\ AheadInv /\ [Next]_vars =>
         AheadInv' /\ \A k \in Contracts : sync'[k] >= sync[k]
  <2> SUFFICES ASSUME TypeInv, AheadInv, [Next]_vars
               PROVE  AheadInv' /\ \A k \in Contracts : sync'[k] >= sync[k]
    OBVIOUS
  <2>0. \A k \in Contracts : sync[k] \in Int
    BY SizesAssumption DEF TypeInv, TypeOK
  <2>1. ASSUME NEW p \in Pollers, NEW k \in Contracts, Commit(p, k)
        PROVE  AheadInv' /\ \A j \in Contracts : sync'[j] >= sync[j]
    <3>1. /\ pc[p][k] = "commit" /\ EndJob(p, k)
          /\ sync' = [sync EXCEPT ![k] = EndLedger(p, k)]
      BY <2>1 DEF Commit, CommitRows
    <3>2. /\ from[p][k] \in 1 .. MaxLedger /\ latest[p][k] \in 1 .. MaxLedger
          /\ EndLedger(p, k) \in from[p][k] .. latest[p][k]
      BY <3>1, EndInWindow
    <3>3. sync[k] < from[p][k]
      BY <3>1 DEF AheadInv
    <3>4. EndLedger(p, k) >= sync[k]
      BY <2>0, <3>2, <3>3, SizesAssumption
    <3>5. \A j \in Contracts : sync'[j] >= sync[j]
      BY <2>0, <3>1, <3>4 DEF TypeInv, TypeOK
    <3>6. AheadInv'
      BY <3>1 DEF AheadInv, EndJob, TypeInv, TypeOK
    <3> QED
      BY <3>5, <3>6
  <2>2. ASSUME NEW p \in Pollers, NEW k \in Contracts, ReadSync(p, k)
        PROVE  AheadInv' /\ UNCHANGED sync
    <3>1. latest[p][k] \in 1 .. MaxLedger /\ sync[k] \in 0 .. MaxLedger
      BY <2>2 DEF ReadSync, TypeInv, TypeOK, JobInv
    <3>2. sync[k] < StartLedger(latest[p][k], sync[k])
      BY <3>1, Starts, SizesAssumption
    <3> QED
      BY <2>2, <3>2 DEF ReadSync, db, AheadInv, TypeInv, TypeOK
  <2>3. ASSUME NEW p \in Pollers, NEW k \in Contracts,
               UpToDate(p, k) \/ FetchTooLarge(p, k) \/ JobFails(p, k)
        PROVE  AheadInv' /\ UNCHANGED sync
    <3>1. EndJob(p, k) /\ UNCHANGED sync
      BY <2>3 DEF UpToDate, FetchTooLarge, JobFails, db
    <3> QED
      BY <3>1 DEF EndJob, AheadInv, TypeInv, TypeOK
  <2>4. ASSUME NEW p \in Pollers, NEW k \in Contracts, StartJob(p, k) \/ Fetch(p, k)
        PROVE  AheadInv' /\ UNCHANGED sync
    BY <2>4 DEF StartJob, Fetch, db, AheadInv, TypeInv, TypeOK
  <2>5. ASSUME NEW p \in Pollers, CrashPoller(p) PROVE AheadInv' /\ UNCHANGED sync
    BY <2>5 DEF CrashPoller, db, AheadInv, TypeInv, TypeOK
  <2>6. CASE UNCHANGED <<pc, from, sync>>
    BY <2>0, <2>6 DEF AheadInv
  <2>7. ASSUME NEW p \in Pollers, BeginPass(p) \/ CancelPass(p)
        PROVE  UNCHANGED <<pc, from, sync>>
    BY <2>7 DEF BeginPass, CancelPass, db
  <2>8. ASSUME NEW e \in Events, RequeueGet(e) PROVE UNCHANGED <<pc, from, sync>>
    BY <2>8 DEF RequeueGet, db, jobs
  <2>9. CASE \/ CloseLedger \/ RepairTable \/ UNCHANGED vars
             \/ RequeueInsert \/ RequeueRejected \/ RequeueDelete \/ RequeueFails
    <3>1. UNCHANGED <<pc, from, sync>>
      BY <2>9 DEF CloseLedger, RepairTable, RequeueInsert, RequeueRejected,
                  RequeueDelete, RequeueFails, vars, db, jobs
    <3> QED
      BY <2>0, <2>6, <3>1
  <2>10. UNCHANGED sync => \A k \in Contracts : sync'[k] >= sync[k]
    BY <2>0
  <2> QED
    BY <2>1, <2>2, <2>3, <2>4, <2>5, <2>6, <2>7, <2>8, <2>9, <2>10 DEF Next, Job
<1> QED
  BY <1>1, <1>2, <1>3, PTL DEF Spec, SyncNeverMovesBack

-----------------------------------------------------------------------------
(* Invocations                                                             *)

\* A transaction is accounted for: it has its row, or could not be fetched.
Known(t) == invoked[t] # None \/ t \in missed

\* A job that commits has the transactions of its events, but for those that it
\* missed, and an event on its way out of the dead-letter queue has its row.
TxInv ==
    /\ \A e \in Durable : Known(e.tx)
    /\ rpc # "idle" => Known(requeue.tx)
    /\ \A p \in Pollers, k \in Contracts : pc[p][k] = "commit" =>
          \A e \in got[p][k] : e.tx \in txs[p][k] \union missed

\* Each stored event has the row of its transaction, one that went through the
\* dead-letter queue too, unless the transaction could not be fetched.
THEOREM Invocations == Spec => []InvocationPerTx
<1>1. Spec => []TypeInv
  BY TypeInit, TypeStep, PTL DEF Spec
<1>2. Init => TxInv
  BY DEF Init, Idle, TxInv, Durable, Known
<1>3. TypeInv /\ TxInv /\ [Next]_vars => TxInv'
  <2> SUFFICES ASSUME TypeInv, TxInv, [Next]_vars PROVE TxInv'
    OBVIOUS
  <2>1. ASSUME NEW p \in Pollers, NEW k \in Contracts, Commit(p, k) PROVE TxInv'
    <3>1. /\ pc[p][k] = "commit" /\ EndJob(p, k) /\ UNCHANGED <<requeue, rpc, missed>>
          /\ Durable' \subseteq Durable \union got[p][k]
          /\ invoked' = [t \in Txs |-> IF t \in txs[p][k] /\ invoked[t] = None
                                       THEN k ELSE invoked[t]]
      BY <2>1 DEF Commit, CommitRows, Durable, api
    <3>2. \A t \in Txs : /\ Known(t) => Known(t)'
                         /\ t \in txs[p][k] \union missed => Known(t)'
      BY <3>1, EventsAssumption DEF Known
    <3>3. \A e \in Durable' : Known(e.tx)'
      <4> SUFFICES ASSUME NEW e \in Durable' PROVE Known(e.tx)'
        OBVIOUS
      <4>1. e \in Durable \/ e \in got[p][k]
        BY <3>1
      <4>2. e \in Events /\ e.tx \in Txs
        BY <4>1, EventsAssumption DEF Durable, TypeInv, TypeOK
      <4> QED
        BY <3>1, <3>2, <4>1, <4>2 DEF TxInv
    <3>4. rpc' # "idle" => Known(requeue.tx)'
      BY <3>1, <3>2, EventsAssumption DEF TxInv, TypeInv, JobInv
    <3>5. \A q \in Pollers, j \in Contracts : pc'[q][j] = "commit" =>
             \A e \in got'[q][j] : e.tx \in txs'[q][j] \union missed'
      BY <3>1 DEF EndJob, TxInv, TypeInv, TypeOK
    <3> QED
      BY <3>3, <3>4, <3>5 DEF TxInv
  <2>2. ASSUME NEW p \in Pollers, NEW k \in Contracts, Fetch(p, k) PROVE TxInv'
    <3> DEFINE window == WindowEvents(k, from[p][k], EndLedger(p, k))
    <3>1. PICK missing \in SUBSET {e.tx : e \in window} :
            /\ txs' = [txs EXCEPT ![p][k] = {e.tx : e \in window} \ missing]
            /\ missed' = missed \union missing
      BY <2>2 DEF Fetch
    <3>2. /\ got' = [got EXCEPT ![p][k] = window]
          /\ pc' = [pc EXCEPT ![p][k] = "commit"]
          /\ UNCHANGED <<events, parked, invoked, requeue, rpc>>
      BY <2>2 DEF Fetch, db, api
    <3> HIDE DEF window
    <3>3. \A e \in got'[p][k] : e.tx \in txs'[p][k] \union missed'
      BY <3>1, <3>2 DEF TypeInv, TypeOK
    <3>4. \A q \in Pollers, j \in Contracts : pc'[q][j] = "commit" =>
             \A e \in got'[q][j] : e.tx \in txs'[q][j] \union missed'
      BY <3>1, <3>2, <3>3 DEF TxInv, TypeInv, TypeOK
    <3> QED
      BY <3>1, <3>2, <3>4 DEF TxInv, Durable, Known
  <2>3. ASSUME NEW p \in Pollers, NEW k \in Contracts,
               UpToDate(p, k) \/ FetchTooLarge(p, k) \/ JobFails(p, k)
        PROVE  TxInv'
    <3>1. EndJob(p, k) /\ UNCHANGED <<db, api, missed>>
      BY <2>3 DEF UpToDate, FetchTooLarge, JobFails, history
    <3> QED
      BY <3>1 DEF EndJob, TxInv, Durable, Known, TypeInv, TypeOK, db, api
  <2>4. ASSUME NEW p \in Pollers, NEW k \in Contracts,
               StartJob(p, k) \/ ReadSync(p, k)
        PROVE  TxInv'
    <3>1. UNCHANGED <<events, parked, invoked, requeue, rpc, got, txs, missed>>
      BY <2>4 DEF StartJob, ReadSync, db, api, history
    <3>2. \A q \in Pollers, j \in Contracts :
             pc'[q][j] = "commit" => pc[q][j] = "commit"
      <4>1. PICK x \in {"sync", "fetch"} : pc' = [pc EXCEPT ![p][k] = x]
        BY <2>4 DEF StartJob, ReadSync
      <4>2. pc \in [Pollers -> [Contracts -> {"idle", "sync", "fetch", "commit"}]]
        BY DEF TypeInv, TypeOK
      <4> QED
        BY <4>1, <4>2
    <3> QED
      BY <3>1, <3>2 DEF TxInv, Durable, Known
  <2>5. ASSUME NEW p \in Pollers, CrashPoller(p) PROVE TxInv'
    BY <2>5 DEF CrashPoller, TxInv, Durable, Known, TypeInv, TypeOK, db, api, history
  <2>6. ASSUME NEW e \in Events, RequeueGet(e) PROVE TxInv'
    BY <2>6 DEF RequeueGet, TxInv, Durable, Known, db, jobs, history
  <2>7. CASE RequeueInsert
    BY <2>7 DEF RequeueInsert, TxInv, Durable, Known, jobs, history
  <2>8. CASE RequeueRejected \/ RequeueDelete \/ RequeueFails
    BY <2>8 DEF RequeueRejected, RequeueDelete, RequeueFails, EndRequeue, TxInv,
                Durable, Known, db, jobs, history
  <2>9. CASE UNCHANGED <<events, parked, invoked, requeue, rpc, pc, got, txs, missed>>
    BY <2>9 DEF TxInv, Durable, Known
  <2>10. ASSUME NEW p \in Pollers, BeginPass(p) \/ CancelPass(p) PROVE TxInv'
    BY <2>9, <2>10 DEF BeginPass, CancelPass, db, api, history
  <2>11. CASE CloseLedger \/ RepairTable \/ UNCHANGED vars
    BY <2>9, <2>11 DEF CloseLedger, RepairTable, vars, db, jobs, api, history
  <2> QED
    BY <2>1, <2>2, <2>3, <2>4, <2>5, <2>6, <2>7, <2>8, <2>10, <2>11 DEF Next, Job
<1>4. TxInv => InvocationPerTx
  BY DEF TxInv, InvocationPerTx, Durable, Known
<1> QED
  BY <1>1, <1>2, <1>3, <1>4, PTL DEF Spec
=============================================================================
