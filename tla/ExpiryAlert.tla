----------------------------- MODULE ExpiryAlert -----------------------------
(***************************************************************************)
(* Alerts for storage that is about to expire                              *)
(* (services/indexer/internal/expiryalert, expiry_notify.go and the        *)
(* delivery of services/indexer/internal/watchdog/notifier.go).            *)
(*                                                                         *)
(* At the end of its pass the indexer reads, contract by contract, which   *)
(* entries of the storage run out soon.  The set it reads is the identity  *)
(* of the alert: when it is on record already nothing happens, else it is  *)
(* recorded and then handed to one goroutine per subscription, which posts *)
(* it, and once more if the endpoint answers with a server error.  Nobody  *)
(* waits for these goroutines, and nothing remembers a delivery that a     *)
(* process took with it when it ended: by a crash, or because it ran in    *)
(* once mode and its pass is over.                                         *)
(*                                                                         *)
(* Every call of the store is a step of its own, and so is every post.     *)
(***************************************************************************)
EXTENDS Naturals, FiniteSets

CONSTANTS
    Contracts,      \* contract ids
    Entries,        \* storage entries, numbered in the order of their keys
    Pollers,        \* indexer processes that alert (once and continuous mode)
    Subscriptions,  \* ids of subscriptions
    Filter,         \* Filter[s]: severity_filter of a subscription
    Sendable,       \* subscriptions that FormatNotification has a message for
    None,           \* no contract
    Threshold,      \* ThresholdLedgers
    MaxEntries,     \* entries read of a contract
    Horizon,        \* the last ledger considered
    MaxChanges,     \* how many of the other programs' writes a behaviour has
    Faults,         \* kinds of fault that may happen, see FaultKinds
    MaxFaults       \* how many faults may happen in a behaviour

FaultKinds ==
    { "list",       \* ListContracts fails, which ends the pass
      "call",       \* a call for one contract fails, which ends its check
      "exit" }      \* the process ends in the middle: a crash or a signal

ASSUME EntriesAssumption == Entries \subseteq Nat
ASSUME SubscriptionsAssumption ==
    /\ Filter \in [Subscriptions -> {"Critical", "Warning", "Info"}]
    /\ Sendable \subseteq Subscriptions
ASSUME BoundsAssumption ==
    /\ {Threshold, MaxEntries, Horizon, MaxChanges, MaxFaults} \subseteq Nat
    /\ Faults \subseteq FaultKinds
    /\ None \notin Contracts

VARIABLES
    until,          \* until[c][e] of storage_entries, live_until_ledger of a
                    \* live entry, 0 when it is not live
    synced,         \* synced[c] of sync_state, last_ledger
    tracked,        \* contracts whose status is one that is indexed
    monitored,      \* monitored_contracts
    subscribed,     \* subscribed[c] of alert_subscriptions
    alerts,         \* alerts[c] of contract_alerts, by the key in tx_hash
    once,           \* pollers started in once mode: a process for every pass
    todo,           \* todo[p]: contracts the pass of p has still to check
    check,          \* check[p]: checkContract of p
    flights,        \* goroutines of deliver
    sent,           \* sent[c][k][s]: posts made of alert k of c to s
    changes,        \* writes of other programs so far
    faults          \* faults so far

world == <<until, synced, tracked, monitored, subscribed, changes>>
vars == <<world, once, alerts, todo, check, flights, sent, faults>>

\* The near-expiry set of a contract: the entries with their ledgers, 0 for an
\* entry that is not in it.  DedupKey is a hash over exactly this.
Keys == [Entries -> 0 .. Horizon]
NoEntries == [e \in Entries |-> 0]
Check == [pc : {"idle", "exists", "insert", "notify"},
          contract : Contracts \union {None}, key : Keys]
Idle == [pc |-> "idle", contract |-> None, key |-> NoEntries]
Flight == [poller : Pollers, contract : Contracts, key : Keys,
           sub : Subscriptions, attempt : 1 .. 2]

Init ==
    /\ until \in [Contracts -> Keys]
    /\ synced = [c \in Contracts |-> 0]
    /\ tracked = Contracts
    /\ monitored \in SUBSET Contracts
    /\ subscribed = [c \in Contracts |-> IF c \in monitored THEN Subscriptions ELSE {}]
    /\ alerts = [c \in Contracts |-> {}]
    /\ once \in SUBSET Pollers
    /\ todo = [p \in Pollers |-> {}]
    /\ check = [p \in Pollers |-> Idle]
    /\ flights = {}
    /\ sent = [c \in Contracts |-> [k \in Keys |-> [s \in Subscriptions |-> 0]]]
    /\ changes = 0 /\ faults = 0

-----------------------------------------------------------------------------
(* Outside: the poller's indexing, and other programs                      *)

Change == changes < MaxChanges /\ changes' = changes + 1

\* The poller indexes a ledger of c.
Index(c) ==
    /\ c \in tracked /\ synced[c] < Horizon
    /\ synced' = [synced EXCEPT ![c] = @ + 1]
    /\ UNCHANGED <<until, tracked, monitored, subscribed, changes>>

\* An entry is written, extended, archived or removed.
Touch(c, e) ==
    /\ Change
    /\ c \in tracked
    /\ \E l \in 0 .. Horizon \ {until[c][e]} : until' = [until EXCEPT ![c][e] = l]
    /\ UNCHANGED <<synced, tracked, monitored, subscribed>>

\* DeleteContracts takes the storage and the sync state of c with it, but not
\* its alerts.
Untrack(c) ==
    /\ Change
    /\ c \in tracked
    /\ tracked' = tracked \ {c}
    /\ until' = [until EXCEPT ![c] = NoEntries]
    /\ synced' = [synced EXCEPT ![c] = 0]
    /\ UNCHANGED <<monitored, subscribed>>

\* A contract is registered and made active.
Track(c) ==
    /\ Change
    /\ c \notin tracked
    /\ tracked' = tracked \union {c}
    /\ UNCHANGED <<until, synced, monitored, subscribed>>

\* Somebody writes the row that alerts and subscriptions refer to.
Monitor(c) ==
    /\ Change
    /\ c \notin monitored
    /\ monitored' = monitored \union {c}
    /\ UNCHANGED <<until, synced, tracked, subscribed>>

\* CreateSubscription: only for a contract that is monitored.
Subscribe(c, s) ==
    /\ Change
    /\ c \in monitored
    /\ s \notin subscribed[c]
    /\ subscribed' = [subscribed EXCEPT ![c] = @ \union {s}]
    /\ UNCHANGED <<until, synced, tracked, monitored>>

\* DeleteSubscription.
Unsubscribe(c, s) ==
    /\ Change
    /\ s \in subscribed[c]
    /\ subscribed' = [subscribed EXCEPT ![c] = @ \ {s}]
    /\ UNCHANGED <<until, synced, tracked, monitored>>

World ==
    /\ \E c \in Contracts :
         \/ Index(c) \/ Untrack(c) \/ Track(c) \/ Monitor(c)
         \/ \E e \in Entries : Touch(c, e)
         \/ \E s \in Subscriptions : Subscribe(c, s) \/ Unsubscribe(c, s)
    /\ UNCHANGED <<once, alerts, todo, check, flights, sent, faults>>

-----------------------------------------------------------------------------
(* The pass: Runner.AlertExpiry and checkContract                          *)

FlightsOf(p) == {f \in flights : f.poller = p}

\* ListContracts, all pages.  In once mode it is another process that begins.
BeginPass(p) ==
    /\ check[p] = Idle /\ todo[p] = {}
    /\ p \in once => FlightsOf(p) = {}
    /\ todo' = [todo EXCEPT ![p] = tracked]
    /\ UNCHANGED <<world, once, alerts, check, flights, sent, faults>>

Runs(c, e) == until[c][e] # 0 /\ until[c][e] <= synced[c] + Threshold
Sooner(c, e, f) == until[c][e] < until[c][f] \/ (until[c][e] = until[c][f] /\ e < f)

\* ExpiringStorageEntries: the soonest MaxEntries of the entries that run out.
Expiring(c) ==
    [e \in Entries |->
        IF /\ Runs(c, e)
           /\ Cardinality({f \in Entries : Runs(c, f) /\ Sooner(c, f, e)}) < MaxEntries
        THEN until[c][e] ELSE 0]

Done(p, c) ==
    /\ todo' = [todo EXCEPT ![p] = @ \ {c}]
    /\ check' = [check EXCEPT ![p] = Idle]

Scan(p, c) ==
    /\ check[p] = Idle /\ c \in todo[p]
    /\ IF Expiring(c) = NoEntries
       THEN Done(p, c)
       ELSE /\ check' = [check EXCEPT ![p] =
                           [pc |-> "exists", contract |-> c, key |-> Expiring(c)]]
            /\ UNCHANGED todo
    /\ UNCHANGED <<world, once, alerts, flights, sent, faults>>

\* Mutants: the row is not looked for; any alert of the contract will do.
NeverRecorded(c, k) == FALSE
AnyRecorded(c, k) == alerts[c] # {}

Recorded(c, k) == k \in alerts[c]

\* AlertExists.
LookUp(p) ==
    /\ check[p].pc = "exists"
    /\ IF Recorded(check[p].contract, check[p].key)
       THEN Done(p, check[p].contract)
       ELSE check' = [check EXCEPT ![p].pc = "insert"] /\ UNCHANGED todo
    /\ UNCHANGED <<world, once, alerts, flights, sent, faults>>

\* InsertAlert: the foreign key refuses a contract that is not monitored; a row
\* that exists by now is left alone, and the alert sent all the same.
Insert(p) ==
    /\ check[p].pc = "insert"
    /\ IF check[p].contract \in monitored
       THEN /\ alerts' = [alerts EXCEPT ![check[p].contract] = @ \union {check[p].key}]
            /\ check' = [check EXCEPT ![p].pc = "notify"]
            /\ UNCHANGED todo
       ELSE Done(p, check[p].contract) /\ UNCHANGED alerts
    /\ UNCHANGED <<world, once, flights, sent, faults>>

\* alertSeverity is Critical, and so are the subscriptions that match.
Matches(s) == Filter[s] = "Critical"

DeliveriesTo(p, c, k, subs) ==
    {[poller |-> p, contract |-> c, key |-> k, sub |-> s, attempt |-> 1] : s \in subs}

\* Mutant: the loop returns where it should continue with the next subscription.
ToAllIfMatching(p, c, k) ==
    DeliveriesTo(p, c, k,
        IF \A s \in subscribed[c] : Matches(s) THEN subscribed[c] ELSE {})

ToMatching(p, c, k) == DeliveriesTo(p, c, k, {s \in subscribed[c] : Matches(s)})

\* Notify and DispatchAlerts: one goroutine per subscription of the contract that
\* the severity matches.
Notify(p) ==
    /\ check[p].pc = "notify"
    /\ flights' = flights \union ToMatching(p, check[p].contract, check[p].key)
    /\ Done(p, check[p].contract)
    /\ UNCHANGED <<world, once, alerts, sent, faults>>

\* runOnce returns, main after it: what is not posted by then never is.
ReturnOnce(p) ==
    /\ p \in once
    /\ check[p] = Idle /\ todo[p] = {} /\ FlightsOf(p) # {}
    /\ flights' = flights \ FlightsOf(p)
    /\ UNCHANGED <<world, once, alerts, todo, check, sent, faults>>

-----------------------------------------------------------------------------
(* Delivery: deliver and post                                              *)

Sent(f) == sent' = [sent EXCEPT ![f.contract][f.key][f.sub] = @ + 1]

\* A channel that is not known, or has no URL or key: nothing is posted.
FormatFails(f) ==
    /\ f.sub \notin Sendable
    /\ flights' = flights \ {f}
    /\ UNCHANGED <<world, once, alerts, todo, check, sent, faults>>

\* The endpoint takes it, refuses it or does not answer: that was it.
Delivered(f) ==
    /\ f.sub \in Sendable
    /\ flights' = flights \ {f}
    /\ Sent(f)
    /\ UNCHANGED <<world, once, alerts, todo, check, faults>>

\* The endpoint answers 5xx: once more, but not twice.
ServerError(f) ==
    /\ f.sub \in Sendable
    /\ flights' = (flights \ {f}) \union
                    (IF f.attempt < 2 THEN {[f EXCEPT !.attempt = @ + 1]} ELSE {})
    /\ Sent(f)
    /\ UNCHANGED <<world, once, alerts, todo, check, faults>>

-----------------------------------------------------------------------------
(* Faults                                                                  *)

Fault(kind) ==
    /\ kind \in Faults /\ faults < MaxFaults
    /\ faults' = faults + 1

\* A page of contracts cannot be read: the rest of the pass is left out.
ListFails(p) ==
    /\ Fault("list")
    /\ check[p] = Idle /\ todo[p] # {}
    /\ todo' = [todo EXCEPT ![p] = {}]
    /\ UNCHANGED <<world, once, alerts, check, flights, sent>>

\* A query of the contract being checked fails, or that of the subscriptions.
CheckFails(p, c) ==
    /\ Fault("call")
    /\ c \in todo[p] /\ check[p].contract \in {c, None}
    /\ Done(p, c)
    /\ UNCHANGED <<world, once, alerts, flights, sent>>

\* The process ends, and its deliveries with it.
Exit(p) ==
    /\ Fault("exit")
    /\ todo' = [todo EXCEPT ![p] = {}]
    /\ check' = [check EXCEPT ![p] = Idle]
    /\ flights' = flights \ FlightsOf(p)
    /\ UNCHANGED <<world, once, alerts, sent>>

-----------------------------------------------------------------------------
PassStep(p) ==
    \/ BeginPass(p) \/ (\E c \in Contracts : Scan(p, c))
    \/ LookUp(p) \/ Insert(p) \/ Notify(p)

Next ==
    \/ World
    \/ \E p \in Pollers :
         \/ PassStep(p) \/ ReturnOnce(p) \/ ListFails(p) \/ Exit(p)
         \/ \E c \in Contracts : CheckFails(p, c)
    \/ \E f \in flights : Delivered(f) \/ ServerError(f) \/ FormatFails(f)

Spec == Init /\ [][Next]_vars

\* A pass checks one contract after the other, all that it listed; a goroutine
\* gets its answer, or the timeout of its client, in the end.
FairSpec ==
    /\ Spec
    /\ \A p \in Pollers :
         /\ WF_vars(BeginPass(p))
         /\ WF_vars(\E c \in Contracts : Scan(p, c))
         /\ WF_vars(LookUp(p) \/ Insert(p) \/ Notify(p))
    /\ WF_vars(\E f \in flights : Delivered(f) \/ ServerError(f) \/ FormatFails(f))

-----------------------------------------------------------------------------
(* Properties                                                              *)

TypeOK ==
    /\ until \in [Contracts -> Keys]
    /\ synced \in [Contracts -> 0 .. Horizon]
    /\ tracked \subseteq Contracts /\ monitored \subseteq Contracts
    /\ subscribed \in [Contracts -> SUBSET Subscriptions]
    /\ alerts \in [Contracts -> SUBSET Keys]
    /\ once \subseteq Pollers
    /\ todo \in [Pollers -> SUBSET Contracts]
    /\ check \in [Pollers -> Check]
    /\ flights \subseteq Flight
    /\ sent \in [Contracts -> [Keys -> [Subscriptions -> Nat]]]
    /\ changes \in 0 .. MaxChanges /\ faults \in 0 .. MaxFaults

Outbox == INSTANCE AlertOutbox WITH MaxAttempts <- 2

\* "A crash between the two never re-notifies the same state on the next pass"
\* (expiryalert.go:293-294): a poller sends only what is on record, and what it
\* sent before it ended is never sent again; deliver posts at most twice.
\* True of a single poller: AlertExists and InsertAlert are two calls.
SentOncePerAlert == Outbox!Spec

\* Once nothing changes any more, the state that the scan reads of a monitored
\* contract is on record, however many passes failed before (AlertExpiry begins
\* again, and a contract that fails holds up no other).
StandingExpiryIsRecorded ==
    \A c \in Contracts : \A k \in Keys \ {NoEntries} :
        <>[](c \in tracked \intersect monitored /\ Expiring(c) = k)
            => <>[](k \in alerts[c])

\* "Hands it to the existing watchdog notifier so configured alert subscriptions
\* receive it" (expiryalert.go:5-7): every subscription that the severity matches
\* and that can be sent to is posted an alert that was recorded, unless the process
\* crashes or the query for the subscriptions fails from then on, or it is deleted
\* first.  No one else will send it.  Said of continuous mode only: once mode waits
\* for no delivery.
RecordedIsSent ==
    \A p \in Pollers, c \in Contracts, k \in Keys, n \in 0 .. MaxFaults :
      \A s \in {s \in Sendable : Matches(s)} :
        (/\ check[p] = [pc |-> "notify", contract |-> c, key |-> k] /\ p \notin once
         /\ s \in subscribed[c] /\ faults = n)
            ~> sent[c][k][s] > 0 \/ faults > n \/ s \notin subscribed[c]
=============================================================================
