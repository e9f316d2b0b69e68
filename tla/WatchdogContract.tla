--------------------------- MODULE WatchdogContract ---------------------------
(***************************************************************************)
(* The on-chain watchdog (contracts/watchdog/src/lib.rs): a registry of    *)
(* monitored contracts, a health record and a bounded alert list for each, *)
(* an emergency stop, and a two-step hand-over of the admin role.          *)
(*                                                                         *)
(* A call is one transaction: it takes effect as a whole or, when the code *)
(* panics, not at all, so a failing call is a disabled action.  The ledger *)
(* number serves as the timestamp too.  Storage entries have a last ledger *)
(* to live in; what an archived entry is part of fails until it is         *)
(* restored.  Names, messages, severities, statuses and stored intervals   *)
(* carry no control and are left out.                                      *)
(***************************************************************************)
EXTENDS Integers, Sequences, FiniteSets, Functions

CONSTANTS
    Accounts,       \* addresses that sign calls
    Ids,            \* addresses of monitored contracts
    None,           \* an address or a record that is absent
    MaxAlerts,      \* MAX_ALERTS_PER_CONTRACT
    MaxBatch,       \* MAX_BATCH_SIZE
    Threshold,      \* TTL_THRESHOLD, about a day
    ExtendTo,       \* TTL_EXTEND_TO, about 30 days
    MinTtl,         \* ledgers the network gives a new entry
    DailyReads,     \* reads of Reads that clients make every Threshold ledgers
    MaxLedger       \* the last ledger of a behaviour

Record == [owner : Accounts, lastCheck : 1 .. MaxLedger]

\* A query reads the record of a contract or its alerts.
Reads == {"status", "alerts"} \X Ids

ASSUME AddressesAssumption == None \notin Accounts \union Ids
ASSUME AbsenceAssumption == None \notin Record
ASSUME SizesAssumption ==
    /\ {MaxAlerts, MaxBatch, MinTtl, MaxLedger} \subseteq Nat \ {0}
    /\ {Threshold, ExtendTo} \subseteq Nat
    /\ DailyReads \subseteq Reads

VARIABLES
    now,            \* current ledger
    admin,          \* DataKey::Admin, None before initialize
    pendingAdmin,   \* DataKey::PendingAdmin or None
    paused,         \* DataKey::Paused
    registry,       \* DataKey::Registry
    health,         \* health[k]: DataKey::Health(k) or None
    alerts,         \* alerts[k]: the timestamps of DataKey::Alerts(k)
    until,          \* until[e]: last ledger entry e lives in, 0 if there is none
    lastRead        \* lastRead[r, k]: when the daily read r of k was last made

roles == <<admin, pendingAdmin, paused>>
records == <<registry, health, alerts>>
vars == <<now, roles, records, until, lastRead>>

Instance == <<"instance", None>>
Health(k) == <<"health", k>>
Alerts(k) == <<"alerts", k>>
Entries == {Instance} \union ({"health", "alerts"} \X Ids)

Registered == {k \in Ids : health[k] # None}

\* The contracts of which clients read both the record and the alerts daily.
ReadDaily == {k \in Ids : {"status", "alerts"} \X {k} \subseteq DailyReads}

Init ==
    /\ now = 1
    /\ admin = None /\ pendingAdmin = None /\ paused = FALSE
    /\ registry = <<>>
    /\ health = [k \in Ids |-> None]
    /\ alerts = [k \in Ids |-> <<>>]
    /\ until = [e \in Entries |-> IF e = Instance THEN MinTtl ELSE 0]
    /\ lastRead = [r \in DailyReads |-> 0]

Smaller(a, b) == IF a < b THEN a ELSE b

\* The elements of list at the positions of S, a finite set, in their order:
\* what a loop that pushes some elements of list to a new one ends with.
Picked(list, S) ==
    [n \in 1 .. Cardinality(S) |->
        list[CHOOSE i \in S : Cardinality({j \in S : j <= i}) = n]]

-----------------------------------------------------------------------------
(* Storage entries and their lifetimes                                     *)

\* The host runs a call only when none of the entries it touches is archived.
Usable(entries) ==
    \A e \in entries \union {Instance} : until[e] = 0 \/ until[e] >= now

\* extend_ttl(TTL_THRESHOLD, TTL_EXTEND_TO); a missing key is skipped.
Extended(u) ==
    IF u # 0 /\ u - now <= Threshold /\ u < now + ExtendTo THEN now + ExtendTo ELSE u

\* The call creates and removes entries, and bumps others; every call bumps
\* the instance.
Bump(created, removed, bumped) ==
    until' = [e \in Entries |->
        LET u == IF e \in created THEN now + MinTtl - 1 ELSE until[e] IN
        IF e \in removed THEN 0
        ELSE IF e \in bumped \union {Instance} THEN Extended(u) ELSE u]

NoteRead(reads) ==
    lastRead' = [r \in DailyReads |-> IF r \in reads THEN now ELSE lastRead[r]]

\* Clients that read daily have done so before the ledger gets any older.
CloseLedger ==
    /\ now < MaxLedger
    /\ \A r \in DailyReads : r[2] \in Registered => now - lastRead[r] < Threshold
    /\ now' = now + 1
    /\ UNCHANGED <<roles, records, until, lastRead>>

\* Anybody may restore an archived entry.
Restore(e) ==
    /\ until[e] # 0 /\ until[e] < now
    /\ until' = [until EXCEPT ![e] = now + MinTtl - 1]
    /\ UNCHANGED <<now, roles, records, lastRead>>

-----------------------------------------------------------------------------
(* Registration                                                            *)

Initialize(a) ==
    /\ admin = None /\ Usable({})
    /\ admin' = a
    /\ registry' = <<>>
    /\ Bump({}, {}, {})
    /\ UNCHANGED <<now, pendingAdmin, paused, health, alerts, lastRead>>

\* Mutant: a new record counts as never checked.
StoreUnchecked(caller, ids) ==
    LET keys == {Health(k) : k \in ids} \union {Alerts(k) : k \in ids} IN
    /\ health' = [k \in Ids |->
           IF k \in ids THEN [owner |-> caller, lastCheck |-> 0] ELSE health[k]]
    /\ alerts' = [k \in Ids |-> IF k \in ids THEN <<>> ELSE alerts[k]]
    /\ Bump({e \in keys : until[e] = 0}, {}, keys)
    /\ NoteRead({"status", "alerts"} \X ids)

\* store_registration, for every id of a set.
StoreRegistrations(caller, ids) ==
    LET keys == {Health(k) : k \in ids} \union {Alerts(k) : k \in ids} IN
    /\ health' = [k \in Ids |->
           IF k \in ids THEN [owner |-> caller, lastCheck |-> now] ELSE health[k]]
    /\ alerts' = [k \in Ids |-> IF k \in ids THEN <<>> ELSE alerts[k]]
    /\ Bump({e \in keys : until[e] = 0}, {}, keys)
    /\ NoteRead({"status", "alerts"} \X ids)

\* ensure_not_paused and require_admin_or: anybody may register.
MayRegister == ~paused /\ admin # None

\* Mutant: a record that exists is overwritten.
RegisterAnyway(caller, k) ==
    /\ MayRegister /\ Usable({Health(k), Alerts(k)})
    /\ StoreRegistrations(caller, {k})
    /\ registry' = Append(registry, k)
    /\ UNCHANGED <<now, roles>>

RegisterContract(caller, k) ==
    /\ MayRegister /\ Usable({Health(k), Alerts(k)})
    /\ k \notin Registered
    /\ StoreRegistrations(caller, {k})
    /\ registry' = Append(registry, k)
    /\ UNCHANGED <<now, roles>>

\* Mutant: two entries of one batch are not compared with each other.
AcceptedAlone(batch) ==
    {i \in DOMAIN batch : batch[i].interval # 0 /\ batch[i].id \notin Registered}

\* The entries of a batch that succeed: those with an interval whose id is not
\* registered yet, before the batch or by an earlier entry of it.
Accepted(batch) ==
    {i \in DOMAIN batch :
        /\ batch[i].interval # 0
        /\ batch[i].id \notin Registered
        /\ \A j \in 1 .. i - 1 : batch[j].interval # 0 => batch[j].id # batch[i].id}

RegisterBatch(caller, batch) ==
    /\ MayRegister /\ Len(batch) <= MaxBatch
    /\ Usable({Health(batch[i].id) : i \in DOMAIN batch})
    /\ Usable({Alerts(batch[i].id) : i \in Accepted(batch)})
    /\ LET chosen == Picked(batch, Accepted(batch))
       IN  /\ registry' = registry \o [n \in DOMAIN chosen |-> chosen[n].id]
           /\ StoreRegistrations(caller, {batch[i].id : i \in Accepted(batch)})
    /\ UNCHANGED <<now, roles>>

-----------------------------------------------------------------------------
(* Calls on a record                                                       *)

\* The caller owns the record or is the admin.
MayChange(caller, k) ==
    k \in Registered /\ (caller = health[k].owner \/ caller = admin)

\* Mutant: deregistration is possible while paused.
DeregisterAnyway(caller, k) ==
    /\ MayChange(caller, k)
    /\ Usable({Health(k), Alerts(k)})
    /\ health' = [health EXCEPT ![k] = None]
    /\ alerts' = [alerts EXCEPT ![k] = <<>>]
    /\ registry' = Picked(registry, {i \in DOMAIN registry : registry[i] # k})
    /\ Bump({}, {Health(k), Alerts(k)}, {})
    /\ UNCHANGED <<now, roles, lastRead>>

DeregisterContract(caller, k) ==
    /\ ~paused
    /\ MayChange(caller, k)
    /\ Usable({Health(k), Alerts(k)})
    /\ health' = [health EXCEPT ![k] = None]
    /\ alerts' = [alerts EXCEPT ![k] = <<>>]
    /\ registry' = Picked(registry, {i \in DOMAIN registry : registry[i] # k})
    /\ Bump({}, {Health(k), Alerts(k)}, {})
    /\ UNCHANGED <<now, roles, lastRead>>

ReportStatus(caller, k) ==
    /\ ~paused
    /\ MayChange(caller, k)
    /\ Usable({Health(k)})
    /\ health' = [health EXCEPT ![k].lastCheck = now]
    /\ Bump({}, {}, {Health(k)})
    /\ UNCHANGED <<now, roles, registry, alerts, lastRead>>

\* Mutants: one alert too many is kept; the newest alert goes to the front.
PushAlertUnbounded(list) ==
    IF Len(list) > MaxAlerts THEN Tail(Append(list, now)) ELSE Append(list, now)
PushAlertFront(list) ==
    IF Len(list) < MaxAlerts THEN <<now>> \o list ELSE <<now>> \o SubSeq(list, 1, Len(list) - 1)

\* push_back, then pop_front while there are too many.
PushAlert(list) ==
    LET longer == Append(list, now) IN
    IF Len(longer) > MaxAlerts THEN Tail(longer) ELSE longer

ReportAlert(caller, k) ==
    /\ ~paused
    /\ MayChange(caller, k)
    /\ Usable({Health(k), Alerts(k)})
    /\ alerts' = [alerts EXCEPT ![k] = PushAlert(@)]
    /\ Bump({}, {}, {Health(k), Alerts(k)})
    /\ UNCHANGED <<now, roles, registry, health, lastRead>>

-----------------------------------------------------------------------------
(* Emergency stop and admin role; none of these looks at the pause         *)

SetPaused(a, flag) ==
    /\ admin # None /\ a = admin /\ Usable({})
    /\ paused' = flag
    /\ Bump({}, {}, {})
    /\ UNCHANGED <<now, admin, pendingAdmin, records, lastRead>>

Pause(a) == SetPaused(a, TRUE)
Unpause(a) == SetPaused(a, FALSE)

ProposeAdmin(a, new) ==
    /\ admin # None /\ a = admin /\ Usable({})
    /\ new # a
    /\ pendingAdmin' = new
    /\ Bump({}, {}, {})
    /\ UNCHANGED <<now, admin, paused, records, lastRead>>

\* Mutant: the nomination is not cleared.
AcceptAdminAgain(new) ==
    /\ pendingAdmin # None /\ new = pendingAdmin /\ Usable({})
    /\ admin' = pendingAdmin
    /\ Bump({}, {}, {})
    /\ UNCHANGED <<now, pendingAdmin, paused, records, lastRead>>

AcceptAdmin(new) ==
    /\ pendingAdmin # None /\ new = pendingAdmin /\ Usable({})
    /\ admin' = pendingAdmin
    /\ pendingAdmin' = None
    /\ Bump({}, {}, {})
    /\ UNCHANGED <<now, paused, records, lastRead>>

CancelAdminProposal(a) ==
    /\ admin # None /\ a = admin /\ Usable({})
    /\ pendingAdmin # None
    /\ pendingAdmin' = None
    /\ Bump({}, {}, {})
    /\ UNCHANGED <<now, admin, paused, records, lastRead>>

-----------------------------------------------------------------------------
(* Queries.  They write lifetimes and nothing else.                        *)

Query(keys, reads) ==
    /\ Usable(keys)
    /\ Bump({}, {}, keys)
    /\ NoteRead(reads)
    /\ UNCHANGED <<now, roles, records>>

\* Mutant: reading a record does not extend its lifetime.
GetStatusOnly(k) ==
    /\ k \in Registered /\ Usable({Health(k)})
    /\ Query({}, {<<"status", k>>})

GetStatus(k) ==
    /\ k \in Registered
    /\ Query({Health(k)}, {<<"status", k>>})

\* The records of registry[start .. start + limit - 1], counted from 0.
GetMonitoredPage(start, limit) ==
    LET page == {registry[i] : i \in start + 1 .. Smaller(start + limit, Len(registry))}
    IN  Query({Health(k) : k \in page}, {"status"} \X page)

GetAllMonitored == GetMonitoredPage(0, Len(registry))

\* get_alerts_since walks back from the newest alert to the first that is not
\* newer than t, and returns what follows it.
AlertsSince(list, t) ==
    LET newer == {n \in 0 .. Len(list) : \A i \in n + 1 .. Len(list) : list[i] > t}
        first == CHOOSE n \in newer : \A m \in newer : n <= m
    IN  SubSeq(list, first + 1, Len(list))

\* get_alerts and get_alerts_since; an unknown contract has no alerts.
GetAlerts(k) == Query({Alerts(k)}, {<<"alerts", k>>})

\* get_monitored_count, is_paused, pending_admin, and admin once there is one.
GetInstance == Query({}, {})

-----------------------------------------------------------------------------
Registration == [id : Ids, interval : 0 .. 1]
Batches == UNION {[1 .. n -> Registration] : n \in 0 .. MaxBatch}

Next ==
    \/ CloseLedger
    \/ \E e \in Entries : Restore(e)
    \/ \E a \in Accounts :
          \/ Initialize(a)
          \/ \E k \in Ids :
                \/ RegisterContract(a, k)
                \/ DeregisterContract(a, k)
                \/ ReportStatus(a, k)
                \/ ReportAlert(a, k)
          \/ \E batch \in Batches : RegisterBatch(a, batch)
          \/ Pause(a) \/ Unpause(a)
          \/ \E new \in Accounts : ProposeAdmin(a, new)
          \/ AcceptAdmin(a)
          \/ CancelAdminProposal(a)
    \/ \E k \in Ids : GetStatus(k) \/ GetAlerts(k)
    \/ \E start, limit \in 0 .. Len(registry) : GetMonitoredPage(start, limit)
    \/ GetAllMonitored
    \/ GetInstance

Spec == Init /\ [][Next]_vars

-----------------------------------------------------------------------------
(* Properties                                                              *)

TypeOK ==
    /\ now \in 1 .. MaxLedger
    /\ admin \in Accounts \union {None}
    /\ pendingAdmin \in Accounts \union {None}
    /\ paused \in BOOLEAN
    /\ registry \in Seq(Ids)
    /\ health \in [Ids -> Record \union {None}]
    /\ alerts \in [Ids -> Seq(1 .. MaxLedger)]
    /\ until \in [Entries -> Nat]
    /\ lastRead \in [DailyReads -> Nat]

\* The registry lists every contract that has a record, once, whatever batches,
\* single registrations and removals came before.
RegistryMatchesRecords ==
    /\ IsInjective(registry)
    /\ Range(registry) = Registered

\* "Nothing is written if there is no live nomination": the admin is never its
\* own nominee, so a hand-over that was accepted cannot be accepted once more.
PendingIsNotAdmin == pendingAdmin # None => pendingAdmin # admin

\* A list holds at most MaxAlerts alerts, the oldest first, none from later.
AlertsInOrder ==
    \A k \in Ids :
        /\ Len(alerts[k]) <= MaxAlerts
        /\ \A i, j \in DOMAIN alerts[k] : i <= j => alerts[k][i] <= alerts[k][j]
        /\ \A i \in DOMAIN alerts[k] : alerts[k][i] <= now

\* "Returns only the alerts whose timestamp is strictly greater": walking back
\* from the newest finds all of them and no other.
SinceIsExact ==
    \A k \in Ids, t \in 0 .. MaxLedger :
        AlertsSince(alerts[k], t) =
            Picked(alerts[k], {i \in DOMAIN alerts[k] : alerts[k][i] > t})

\* "A contract that is read at least once a day never lets its state archive": its
\* record and its alerts last, whatever becomes of contracts that are not read.
NothingArchives ==
    \A k \in Registered \intersect ReadDaily : Usable({Health(k), Alerts(k)})

\* While the contract is paused no record, alert or registry entry changes.
PauseFreezes == [][paused => UNCHANGED records]_vars

\* A record keeps its owner as long as the contract is registered: nobody takes
\* a monitored contract over by registering it again.
OwnerIsPermanent ==
    [][\A k \in Ids : health[k] # None /\ health'[k] # None
                      => health'[k].owner = health[k].owner]_vars
=============================================================================
