-------------------------- MODULE ExpiryAlertProofs --------------------------
(***************************************************************************)
(* Theorems about ExpiryAlert, for any contracts, entries, subscriptions,  *)
(* threshold, cap and faults.                                              *)
(***************************************************************************)
EXTENDS ExpiryAlert, TLAPS

-----------------------------------------------------------------------------
(* Type correctness                                                        *)

\* A check that is under way is about a contract.
ChecksContract == \A p \in Pollers : check[p].pc # "idle" => check[p].contract \in Contracts

TypeInv == TypeOK /\ ChecksContract

\* What the scan reads is a key, and so is nothing.
LEMMA KeyTypes ==
    ASSUME TypeOK
    PROVE  NoEntries \in Keys /\ Idle \in Check
           /\ \A c \in Contracts : Expiring(c) \in Keys
BY BoundsAssumption DEF TypeOK, Keys, NoEntries, Idle, Check, Expiring

\* The initial state has the types.
LEMMA TypeInit == Init => TypeInv
<1> SUFFICES ASSUME Init PROVE TypeInv
  OBVIOUS
<1>1. NoEntries \in Keys /\ Idle \in Check
  BY BoundsAssumption DEF Keys, NoEntries, Idle, Check
<1>2. sent \in [Contracts -> [Keys -> [Subscriptions -> Nat]]]
  BY DEF Init
<1>3. subscribed \in [Contracts -> SUBSET Subscriptions]
  BY DEF Init
<1>4. check \in [Pollers -> Check] /\ ChecksContract
  BY <1>1 DEF Init, ChecksContract, Idle
<1> QED
  BY <1>2, <1>3, <1>4, BoundsAssumption DEF Init, TypeInv, TypeOK

\* Ending a check keeps the types of the pass.
LEMMA DoneTypes ==
    ASSUME TypeInv, NEW p \in Pollers, NEW c \in Contracts, Done(p, c)
    PROVE  /\ todo' \in [Pollers -> SUBSET Contracts]
           /\ check' \in [Pollers -> Check]
           /\ ChecksContract'
<1>1. todo' \in [Pollers -> SUBSET Contracts] /\ check' \in [Pollers -> Check]
  BY KeyTypes DEF TypeInv, TypeOK, Done
<1>2. ChecksContract'
  BY DEF TypeInv, TypeOK, Done, ChecksContract, Idle
<1> QED
  BY <1>1, <1>2

\* Going on with a check does too.
LEMMA GoOnTypes ==
    ASSUME TypeInv, NEW p \in Pollers, NEW step \in {"insert", "notify"},
           check' = [check EXCEPT ![p].pc = step], check[p].pc # "idle"
    PROVE  check' \in [Pollers -> Check] /\ ChecksContract'
<1>1. check[p] \in Check /\ check[p].contract \in Contracts
  BY DEF TypeInv, TypeOK, ChecksContract
<1>2. [check[p] EXCEPT !.pc = step] \in Check
  BY <1>1 DEF Check
<1>3. check' \in [Pollers -> Check]
  BY <1>2 DEF TypeInv, TypeOK
<1>4. check'[p].contract = check[p].contract /\ \A q \in Pollers \ {p} : check'[q] = check[q]
  BY <1>1 DEF TypeInv, TypeOK, Check
<1> QED
  BY <1>1, <1>3, <1>4 DEF TypeInv, ChecksContract

\* The world changes within its types.
LEMMA WorldTypes ==
    ASSUME TypeOK, World
    PROVE  /\ until' \in [Contracts -> Keys]
           /\ synced' \in [Contracts -> 0 .. Horizon]
           /\ tracked' \subseteq Contracts /\ monitored' \subseteq Contracts
           /\ subscribed' \in [Contracts -> SUBSET Subscriptions]
           /\ changes' \in 0 .. MaxChanges
<1>1. ASSUME NEW c \in Contracts, Index(c)
      PROVE  synced' \in [Contracts -> 0 .. Horizon] /\ UNCHANGED <<until, tracked, monitored, subscribed, changes>>
  BY <1>1, BoundsAssumption DEF TypeOK, Index
<1>2. ASSUME Change PROVE changes' \in 0 .. MaxChanges
  BY <1>2, BoundsAssumption DEF TypeOK, Change
<1>3. ASSUME NEW c \in Contracts, NEW e \in Entries, Touch(c, e)
      PROVE  until' \in [Contracts -> Keys] /\ UNCHANGED <<synced, tracked, monitored, subscribed>>
  <2>1. PICK l \in 0 .. Horizon : until' = [until EXCEPT ![c][e] = l]
    BY <1>3 DEF Touch
  <2>2. until[c] \in [Entries -> 0 .. Horizon]
    BY DEF TypeOK, Keys
  <2>3. [until[c] EXCEPT ![e] = l] \in Keys
    BY <2>2 DEF Keys
  <2>4. until' = [until EXCEPT ![c] = [until[c] EXCEPT ![e] = l]]
    BY <2>1
  <2>5. until' \in [Contracts -> Keys]
    BY <2>3, <2>4 DEF TypeOK
  <2> QED
    BY <1>3, <2>5 DEF Touch
<1>4. ASSUME NEW c \in Contracts, Untrack(c)
      PROVE  /\ until' \in [Contracts -> Keys] /\ synced' \in [Contracts -> 0 .. Horizon]
             /\ tracked' \subseteq Contracts /\ UNCHANGED <<monitored, subscribed>>
  BY <1>4, KeyTypes, BoundsAssumption DEF TypeOK, Untrack
<1>5. ASSUME NEW c \in Contracts,
             Track(c) \/ Monitor(c)
                \/ \E s \in Subscriptions : Subscribe(c, s) \/ Unsubscribe(c, s)
      PROVE  /\ UNCHANGED <<until, synced>>
             /\ tracked' \subseteq Contracts /\ monitored' \subseteq Contracts
             /\ subscribed' \in [Contracts -> SUBSET Subscriptions]
             /\ Change
  <2>1. CASE Track(c) \/ Monitor(c)
    BY <2>1 DEF TypeOK, Track, Monitor
  <2>2. ASSUME NEW s \in Subscriptions, Subscribe(c, s)
        PROVE  /\ subscribed' \in [Contracts -> SUBSET Subscriptions] /\ Change
               /\ UNCHANGED <<until, synced, tracked, monitored>>
    BY <2>2 DEF TypeOK, Subscribe
  <2>3. ASSUME NEW s \in Subscriptions, Unsubscribe(c, s)
        PROVE  /\ subscribed' \in [Contracts -> SUBSET Subscriptions] /\ Change
               /\ UNCHANGED <<until, synced, tracked, monitored>>
    BY <2>3 DEF TypeOK, Unsubscribe
  <2> QED
    BY <1>5, <2>1, <2>2, <2>3 DEF TypeOK
<1>6. PICK c \in Contracts :
        \/ Index(c) \/ Untrack(c) \/ Track(c) \/ Monitor(c)
        \/ \E e \in Entries : Touch(c, e)
        \/ \E s \in Subscriptions : Subscribe(c, s) \/ Unsubscribe(c, s)
  BY DEF World
<1>7. CASE Index(c)
  BY <1>1, <1>7 DEF TypeOK
<1>8. CASE Untrack(c)
  BY <1>2, <1>4, <1>8 DEF TypeOK, Untrack
<1>9. ASSUME NEW e \in Entries, Touch(c, e)
      PROVE  /\ until' \in [Contracts -> Keys] /\ changes' \in 0 .. MaxChanges
             /\ UNCHANGED <<synced, tracked, monitored, subscribed>>
  BY <1>2, <1>3, <1>9 DEF Touch
<1>10. CASE \/ Track(c) \/ Monitor(c)
            \/ \E s \in Subscriptions : Subscribe(c, s) \/ Unsubscribe(c, s)
  BY <1>2, <1>5, <1>10 DEF TypeOK
<1> QED
  BY <1>6, <1>7, <1>8, <1>9, <1>10 DEF TypeOK

\* A post counts for its alert and its subscription, and for no other.
LEMMA SentTypes ==
    ASSUME TypeOK, NEW f \in Flight, Sent(f)
    PROVE  /\ sent' \in [Contracts -> [Keys -> [Subscriptions -> Nat]]]
           /\ \A c \in Contracts, k \in Keys, s \in Subscriptions :
                sent'[c][k][s] = IF c = f.contract /\ k = f.key /\ s = f.sub
                                 THEN sent[c][k][s] + 1 ELSE sent[c][k][s]
<1>1. f.contract \in Contracts /\ f.key \in Keys /\ f.sub \in Subscriptions
  BY DEF Flight
<1>2. PICK a, k, s : a = f.contract /\ k = f.key /\ s = f.sub
  OBVIOUS
<1>3. sent[a][k] \in [Subscriptions -> Nat] /\ sent[a] \in [Keys -> [Subscriptions -> Nat]]
  BY <1>1, <1>2 DEF TypeOK
<1> DEFINE told == [sent[a][k] EXCEPT ![s] = @ + 1]
<1>4. told \in [Subscriptions -> Nat]
  BY <1>1, <1>2, <1>3
<1> DEFINE row == [sent[a] EXCEPT ![k] = told]
<1>5. row \in [Keys -> [Subscriptions -> Nat]]
  <2> HIDE DEF told
  <2> QED
    BY <1>3, <1>4
<1>6. sent' = [sent EXCEPT ![a] = row]
  BY <1>2 DEF Sent
<1> HIDE DEF row
<1>7. sent' \in [Contracts -> [Keys -> [Subscriptions -> Nat]]]
  BY <1>5, <1>6 DEF TypeOK
<1>8. \A c \in Contracts : sent'[c] = IF c = a THEN row ELSE sent[c]
  BY <1>1, <1>2, <1>6 DEF TypeOK
<1>9. \A l \in Keys : row[l] = IF l = k THEN told ELSE sent[a][l]
  <2> HIDE DEF told
  <2> QED
    BY <1>1, <1>2, <1>3 DEF row
<1>10. \A t \in Subscriptions : told[t] = IF t = s THEN sent[a][k][t] + 1 ELSE sent[a][k][t]
  BY <1>1, <1>2, <1>3
<1> HIDE DEF told
<1> QED
  BY <1>2, <1>7, <1>8, <1>9, <1>10

\* Each step keeps the types.
LEMMA TypeStep == TypeInv /\ [Next]_vars => TypeInv'
<1> SUFFICES ASSUME TypeInv, [Next]_vars PROVE TypeInv'
  OBVIOUS
<1> USE DEF TypeInv
<1>1. CASE World
  <2>1. UNCHANGED <<once, alerts, todo, check, flights, sent, faults>>
    BY <1>1 DEF World
  <2>2. ChecksContract'
    BY <2>1 DEF ChecksContract
  <2> QED
    BY <1>1, <2>1, <2>2, WorldTypes DEF TypeOK
<1>2. ASSUME NEW p \in Pollers, BeginPass(p) \/ ListFails(p) PROVE TypeInv'
  <2>1. todo' \in [Pollers -> SUBSET Contracts]
    BY <1>2 DEF BeginPass, ListFails, TypeOK
  <2>2. UNCHANGED <<world, once, alerts, check, flights, sent>> /\ faults' \in 0 .. MaxFaults
    BY <1>2, BoundsAssumption DEF BeginPass, ListFails, Fault, TypeOK
  <2> QED
    BY <2>1, <2>2 DEF TypeOK, ChecksContract, world
<1>3. ASSUME NEW p \in Pollers, NEW c \in Contracts, Scan(p, c) PROVE TypeInv'
  <2>1. CASE Done(p, c)
    BY <1>3, <2>1, DoneTypes DEF Scan, TypeOK, world
  <2>2. CASE /\ check' = [check EXCEPT ![p] =
                           [pc |-> "exists", contract |-> c, key |-> Expiring(c)]]
             /\ UNCHANGED todo
    <3>1. [pc |-> "exists", contract |-> c, key |-> Expiring(c)] \in Check
      BY KeyTypes DEF Check
    <3>2. check' \in [Pollers -> Check] /\ ChecksContract'
      BY <2>2, <3>1 DEF TypeOK, ChecksContract
    <3> QED
      BY <1>3, <2>2, <3>2 DEF Scan, TypeOK, world
  <2> QED
    BY <1>3, <2>1, <2>2 DEF Scan
<1>4. ASSUME NEW p \in Pollers, LookUp(p) PROVE TypeInv'
  <2>1. check[p].contract \in Contracts
    BY <1>4 DEF LookUp, ChecksContract
  <2>2. check' \in [Pollers -> Check] /\ ChecksContract' /\ todo' \in [Pollers -> SUBSET Contracts]
    BY <1>4, <2>1, DoneTypes, GoOnTypes DEF LookUp, TypeOK
  <2> QED
    BY <1>4, <2>2 DEF LookUp, TypeOK, world
<1>5. ASSUME NEW p \in Pollers, Insert(p) PROVE TypeInv'
  <2>1. check[p].contract \in Contracts /\ check[p].key \in Keys
    BY <1>5 DEF Insert, ChecksContract, TypeOK, Check
  <2>2. check' \in [Pollers -> Check] /\ ChecksContract' /\ todo' \in [Pollers -> SUBSET Contracts]
    BY <1>5, <2>1, DoneTypes, GoOnTypes DEF Insert, TypeOK
  <2>3. alerts' \in [Contracts -> SUBSET Keys]
    <3>1. \/ alerts' = alerts
          \/ alerts' = [alerts EXCEPT ![check[p].contract] = @ \union {check[p].key}]
      BY <1>5 DEF Insert
    <3>2. alerts[check[p].contract] \union {check[p].key} \subseteq Keys
      BY <2>1 DEF TypeOK
    <3> QED
      BY <3>1, <3>2 DEF TypeOK
  <2> QED
    BY <1>5, <2>2, <2>3 DEF Insert, TypeOK, world
<1>6. ASSUME NEW p \in Pollers, Notify(p) PROVE TypeInv'
  <2>1. check[p].contract \in Contracts /\ check[p].key \in Keys
    BY <1>6 DEF Notify, ChecksContract, TypeOK, Check
  <2>2. ToMatching(p, check[p].contract, check[p].key) \subseteq Flight
    BY <2>1 DEF ToMatching, DeliveriesTo, Flight, TypeOK
  <2> QED
    BY <1>6, <2>1, <2>2, DoneTypes DEF Notify, TypeOK, world
<1>7. ASSUME NEW p \in Pollers, NEW c \in Contracts, CheckFails(p, c) PROVE TypeInv'
  BY <1>7, DoneTypes, BoundsAssumption DEF CheckFails, Fault, TypeOK, world
<1>8. ASSUME NEW p \in Pollers, Exit(p) PROVE TypeInv'
  <2>1. check' \in [Pollers -> Check] /\ ChecksContract'
    BY <1>8, KeyTypes DEF Exit, TypeOK, ChecksContract, Idle
  <2> QED
    BY <1>8, <2>1, BoundsAssumption DEF Exit, Fault, TypeOK, world
<1>9. ASSUME NEW f \in flights, Delivered(f) \/ ServerError(f) PROVE TypeInv'
  <2>1. f \in Flight
    BY DEF TypeOK
  <2>2. f.attempt < 2 => [f EXCEPT !.attempt = @ + 1] \in Flight
    BY <2>1 DEF Flight
  <2>3. flights' \subseteq Flight
    BY <1>9, <2>2 DEF Delivered, ServerError, TypeOK
  <2>4. sent' \in [Contracts -> [Keys -> [Subscriptions -> Nat]]]
    <3>1. Sent(f)
      BY <1>9 DEF Delivered, ServerError
    <3> QED
      BY <2>1, <3>1, SentTypes DEF Flight
  <2> QED
    BY <1>9, <2>3, <2>4 DEF Delivered, ServerError, TypeOK, ChecksContract, world
<1>10. ASSUME flights' \subseteq flights,
              UNCHANGED <<world, once, alerts, todo, check, sent, faults>>
       PROVE  TypeInv'
  BY <1>10 DEF world, TypeOK, ChecksContract
<1>11. ASSUME NEW f \in flights, FormatFails(f) PROVE TypeInv'
  BY <1>10, <1>11 DEF FormatFails
<1>12. ASSUME NEW p \in Pollers, ReturnOnce(p) PROVE TypeInv'
  BY <1>10, <1>12 DEF ReturnOnce
<1>13. CASE UNCHANGED vars
  BY <1>10, <1>13 DEF vars
<1> QED
  BY <1>1, <1>2, <1>3, <1>4, <1>5, <1>6, <1>7, <1>8, <1>9, <1>11, <1>12, <1>13 DEF Next, PassStep

\* Every variable of the alerting keeps its type.
THEOREM TypeCorrect == Spec => []TypeOK
<1>1. Spec => []TypeInv
  BY TypeInit, TypeStep, PTL DEF Spec
<1> QED
  BY <1>1, PTL DEF TypeInv

-----------------------------------------------------------------------------
(* A single poller                                                         *)

Same(f, g) == f.contract = g.contract /\ f.key = g.key /\ f.sub = g.sub

\* What is under way for an alert: nothing while it is not on record, then its
\* notification or its deliveries, each of which has made its earlier posts.
CheckInv(p) ==
    /\ check[p].pc = "insert" => check[p].key \notin alerts[check[p].contract]
    /\ check[p].pc = "notify" =>
          /\ check[p].key \in alerts[check[p].contract]
          /\ \A s \in Subscriptions : sent[check[p].contract][check[p].key][s] = 0
          /\ \A f \in flights :
                ~(f.contract = check[p].contract /\ f.key = check[p].key)

FlightInv ==
    /\ \A f \in flights :
          /\ f.key \in alerts[f.contract]
          /\ sent[f.contract][f.key][f.sub] = f.attempt - 1
    /\ \A f, g \in flights : Same(f, g) => f = g

UnrecordedInv ==
    \A c \in Contracts, k \in Keys, s \in Subscriptions :
        k \notin alerts[c] => sent[c][k][s] = 0

SingleInv(p) == TypeInv /\ CheckInv(p) /\ FlightInv /\ UnrecordedInv

\* The invariant holds when nothing has begun.
LEMMA SingleInit ==
    ASSUME NEW p, Pollers = {p}, Init
    PROVE  SingleInv(p)
<1>1. check[p] = Idle /\ flights = {}
  BY DEF Init
<1>2. \A c \in Contracts, k \in Keys, s \in Subscriptions : sent[c][k][s] = 0
  BY DEF Init
<1> QED
  BY <1>1, <1>2, TypeInit DEF SingleInv, CheckInv, FlightInv, UnrecordedInv, Idle

\* A post, and what becomes of the delivery that made it.
LEMMA SingleFlight ==
    ASSUME NEW p, Pollers = {p}, SingleInv(p), [Next]_vars,
           NEW f \in flights, Delivered(f) \/ ServerError(f)
    PROVE  SingleInv(p)'
<1> DEFINE next == [f EXCEPT !.attempt = @ + 1]
<1>1. f \in Flight /\ flights \subseteq Flight /\ Sent(f)
  BY DEF SingleInv, TypeInv, TypeOK, Delivered, ServerError
<1>2. /\ \A c \in Contracts, k \in Keys, s \in Subscriptions :
           sent'[c][k][s] = IF c = f.contract /\ k = f.key /\ s = f.sub
                            THEN sent[c][k][s] + 1 ELSE sent[c][k][s]
      /\ UNCHANGED <<alerts, check>>
  BY <1>1, SentTypes DEF SingleInv, TypeInv, Delivered, ServerError
<1>3. /\ f.contract \in Contracts /\ f.key \in Keys /\ f.sub \in Subscriptions
      /\ f.attempt \in 1 .. 2 /\ f.key \in alerts[f.contract]
  BY <1>1 DEF Flight, SingleInv, FlightInv
<1>4. TypeInv'
  BY TypeStep DEF SingleInv
<1>5. flights' \subseteq (flights \ {f}) \union (IF f.attempt < 2 THEN {next} ELSE {})
  BY DEF Delivered, ServerError
<1>6. next \in Flight => Same(next, f) /\ next.attempt = f.attempt + 1
  BY <1>1 DEF Flight, Same
<1>7. f.attempt < 2 => next \in Flight /\ Same(next, f) /\ next.attempt = f.attempt + 1
  BY <1>1 DEF Flight, Same
<1> HIDE DEF next
<1>8. CheckInv(p)'
  <2>1. check[p] \in Check /\ (check[p].pc # "idle" => check[p].contract \in Contracts)
        /\ check[p].key \in Keys
    BY DEF SingleInv, TypeInv, TypeOK, ChecksContract, Check
  <2>2. check[p].pc = "notify" => ~(f.contract = check[p].contract /\ f.key = check[p].key)
    BY DEF SingleInv, CheckInv
  <2>3. check[p].pc = "notify" => \A g \in flights' :
             ~(g.contract = check[p].contract /\ g.key = check[p].key)
    BY <1>5, <1>7, <2>2 DEF SingleInv, CheckInv, Same
  <2> QED
    BY <1>2, <2>1, <2>2, <2>3 DEF SingleInv, CheckInv
<1>9. ASSUME NEW g \in flights'
      PROVE  g.key \in alerts'[g.contract] /\ sent'[g.contract][g.key][g.sub] = g.attempt - 1
  <2>1. CASE g \in flights /\ g # f
    <3>1. ~Same(f, g) /\ g.contract \in Contracts /\ g.key \in Keys /\ g.sub \in Subscriptions
      BY <1>1, <2>1 DEF SingleInv, FlightInv, Flight
    <3> QED
      BY <1>2, <2>1, <3>1 DEF SingleInv, FlightInv, Same
  <2>2. CASE g = next /\ f.attempt < 2
    <3>1. sent[f.contract][f.key][f.sub] = f.attempt - 1
      BY DEF SingleInv, FlightInv
    <3> QED
      BY <1>2, <1>3, <1>7, <2>2, <3>1 DEF Same
  <2> QED
    BY <1>5, <2>1, <2>2
<1>10. ASSUME NEW g \in flights', NEW h \in flights', Same(g, h) PROVE g = h
  BY <1>5, <1>7, <1>10 DEF SingleInv, FlightInv, Same
<1>11. UnrecordedInv'
  BY <1>2, <1>3 DEF SingleInv, UnrecordedInv
<1> QED
  BY <1>4, <1>8, <1>9, <1>10, <1>11 DEF SingleInv, FlightInv

\* A step of the pass, of the world, or a fault makes no post.
LEMMA SingleStep ==
    ASSUME NEW p, Pollers = {p}, SingleInv(p), [Next]_vars
    PROVE  SingleInv(p)'
<1>t. TypeInv'
  BY TypeStep DEF SingleInv
<1>c. /\ check \in [Pollers -> Check] /\ p \in Pollers /\ check[p] \in Check
      /\ check[p].pc # "idle" => check[p].contract \in Contracts
      /\ check[p].key \in Keys /\ alerts \in [Contracts -> SUBSET Keys]
      /\ flights \subseteq Flight
  BY DEF SingleInv, TypeInv, TypeOK, ChecksContract, Check
<1>1. CASE UNCHANGED <<alerts, check, flights, sent>>
  BY <1>1, <1>t DEF SingleInv, CheckInv, FlightInv, UnrecordedInv
<1>2. ASSUME check'[p] \in {Idle, check[p]}, flights' \subseteq flights,
             UNCHANGED <<alerts, sent>>
      PROVE  SingleInv(p)'
  BY <1>2, <1>t DEF SingleInv, CheckInv, FlightInv, UnrecordedInv, Idle
<1>3. ASSUME NEW c \in Contracts, Done(p, c) PROVE check'[p] = Idle
  BY <1>3, <1>c DEF Done
<1>4. ASSUME NEW c \in Contracts, Scan(p, c) PROVE SingleInv(p)'
  <2>1. CASE Done(p, c)
    BY <1>2, <1>3, <1>4, <2>1 DEF Scan
  <2>2. CASE check' = [check EXCEPT ![p] =
                         [pc |-> "exists", contract |-> c, key |-> Expiring(c)]]
    <3>1. check'[p].pc = "exists"
      BY <1>c, <2>2
    <3> QED
      BY <1>4, <1>t, <3>1 DEF Scan, SingleInv, CheckInv, FlightInv, UnrecordedInv
  <2> QED
    BY <1>4, <2>1, <2>2 DEF Scan
<1>5. CASE LookUp(p)
  <2>1. check[p].contract \in Contracts
    BY <1>5, <1>c DEF LookUp
  <2>2. CASE Done(p, check[p].contract)
    BY <1>2, <1>3, <1>5, <2>1, <2>2 DEF LookUp
  <2>3. CASE /\ ~Recorded(check[p].contract, check[p].key)
             /\ check' = [check EXCEPT ![p].pc = "insert"]
    <3>1. /\ check'[p].pc = "insert" /\ check'[p].contract = check[p].contract
          /\ check'[p].key = check[p].key
      BY <1>c, <2>3 DEF Check
    <3> QED
      BY <1>5, <1>t, <2>3, <3>1
         DEF LookUp, Recorded, SingleInv, CheckInv, FlightInv, UnrecordedInv
  <2> QED
    BY <1>5, <2>2, <2>3 DEF LookUp
<1>6. CASE Insert(p)
  <2> DEFINE c == check[p].contract
             k == check[p].key
  <2>1. c \in Contracts /\ k \in Keys /\ k \notin alerts[c]
    BY <1>6, <1>c DEF Insert, SingleInv, CheckInv
  <2>2. CASE c \notin monitored
    BY <1>2, <1>3, <1>6, <2>1, <2>2 DEF Insert
  <2>3. CASE c \in monitored
    <3>1. /\ check'[p].pc = "notify" /\ check'[p].contract = c /\ check'[p].key = k
          /\ UNCHANGED <<flights, sent>>
      BY <1>6, <1>c, <2>3 DEF Insert, Check
    <3>2. \A d \in Contracts : alerts'[d] = IF d = c THEN alerts[d] \union {k} ELSE alerts[d]
      BY <1>6, <1>c, <2>1, <2>3 DEF Insert
    <3>3. \A s \in Subscriptions : sent[c][k][s] = 0
      BY <2>1 DEF SingleInv, UnrecordedInv
    <3>4. \A f \in flights : ~(f.contract = c /\ f.key = k)
      BY <2>1 DEF SingleInv, FlightInv
    <3>5. CheckInv(p)'
      BY <2>1, <3>1, <3>2, <3>3, <3>4 DEF CheckInv
    <3>6. FlightInv'
      BY <1>c, <3>1, <3>2 DEF SingleInv, FlightInv, Flight, Same
    <3>7. UnrecordedInv'
      BY <3>1, <3>2 DEF SingleInv, UnrecordedInv
    <3> QED
      BY <1>t, <3>5, <3>6, <3>7 DEF SingleInv
  <2> QED
    BY <2>2, <2>3
<1>7. CASE Notify(p)
  <2> DEFINE c == check[p].contract
             k == check[p].key
  <2>1. c \in Contracts /\ check'[p] = Idle /\ UNCHANGED <<alerts, sent>>
    BY <1>3, <1>7, <1>c DEF Notify
  <2>2. /\ k \in alerts[c] /\ \A s \in Subscriptions : sent[c][k][s] = 0
        /\ \A f \in flights : ~(f.contract = c /\ f.key = k)
    BY <1>7 DEF Notify, SingleInv, CheckInv
  <2>3. \A f \in ToMatching(p, c, k) :
          /\ f.contract = c /\ f.key = k /\ f.attempt = 1 /\ f.sub \in Subscriptions
          /\ f = [poller |-> p, contract |-> c, key |-> k, sub |-> f.sub, attempt |-> 1]
    BY <2>1 DEF ToMatching, DeliveriesTo, SingleInv, TypeInv, TypeOK
  <2>4. flights' = flights \union ToMatching(p, c, k)
    BY <1>7 DEF Notify
  <2>5. \A f \in flights' : /\ f.key \in alerts[f.contract]
                           /\ sent[f.contract][f.key][f.sub] = f.attempt - 1
    <3>1. \A f \in ToMatching(p, c, k) : /\ f.key \in alerts[f.contract]
                                  /\ sent[f.contract][f.key][f.sub] = f.attempt - 1
      BY <2>2, <2>3
    <3> QED
      BY <2>4, <3>1 DEF SingleInv, FlightInv
  <2>6. ASSUME NEW f \in flights', NEW g \in flights', Same(f, g) PROVE f = g
    <3>1. CASE f \in flights /\ g \in flights
      BY <2>6, <3>1 DEF SingleInv, FlightInv
    <3>2. CASE f \in ToMatching(p, c, k) /\ g \in ToMatching(p, c, k)
      BY <2>3, <2>6, <3>2 DEF Same
    <3> QED
      BY <2>2, <2>3, <2>4, <2>6, <3>1, <3>2 DEF Same
  <2> QED
    BY <1>t, <2>1, <2>5, <2>6 DEF SingleInv, CheckInv, FlightInv, UnrecordedInv, Idle
<1>8. ASSUME NEW c \in Contracts, CheckFails(p, c) PROVE SingleInv(p)'
  BY <1>2, <1>3, <1>8 DEF CheckFails
<1>9. CASE Exit(p)
  BY <1>2, <1>9, <1>c DEF Exit
<1>10. ASSUME ReturnOnce(p) \/ \E f \in flights : FormatFails(f) PROVE SingleInv(p)'
  BY <1>2, <1>10 DEF ReturnOnce, FormatFails
<1>11. CASE World \/ BeginPass(p) \/ ListFails(p) \/ UNCHANGED vars
  BY <1>1, <1>11 DEF World, BeginPass, ListFails, vars
<1> QED
  BY <1>4, <1>5, <1>6, <1>7, <1>8, <1>9, <1>10, <1>11, SingleFlight DEF Next, PassStep

\* With one poller the alerting implements the outbox: what is sent is on
\* record, and deliver tells a subscription of an alert at most twice, whatever
\* process ends in between (checkContract inserts before it notifies).
THEOREM SentOnce ==
    ASSUME NEW p, Pollers = {p}
    PROVE  Spec => SentOncePerAlert
<1>1. Init => SingleInv(p)
  BY SingleInit
<1>2. SingleInv(p) /\ [Next]_vars => SingleInv(p)'
  BY SingleStep
<1>3. Init => Outbox!Init
  BY DEF Init, Outbox!Init
<1>4. SingleInv(p) /\ [Next]_vars => [Outbox!Next]_<<alerts, sent>>
  <2> SUFFICES ASSUME SingleInv(p), [Next]_vars PROVE [Outbox!Next]_<<alerts, sent>>
    OBVIOUS
  <2>1. CASE Insert(p)
    <3>1. check[p].contract \in Contracts /\ check[p].key \in Keys
      BY <2>1 DEF Insert, SingleInv, TypeInv, TypeOK, ChecksContract, Check
    <3> QED
      BY <2>1, <3>1 DEF Insert, Outbox!Next, Outbox!Record
  <2>2. ASSUME NEW f \in flights, Delivered(f) \/ ServerError(f)
        PROVE  Outbox!Next
    <3>1. /\ f.contract \in Contracts /\ f.key \in Keys /\ f.sub \in Subscriptions
          /\ f.attempt \in 1 .. 2
      BY DEF SingleInv, TypeInv, TypeOK, Flight
    <3>2. f.key \in alerts[f.contract] /\ sent[f.contract][f.key][f.sub] = f.attempt - 1
      BY DEF SingleInv, FlightInv
    <3>3. Outbox!Tell(f.contract, f.key, f.sub)
      BY <2>2, <3>1, <3>2 DEF Delivered, ServerError, Sent, Outbox!Tell
    <3> QED
      BY <3>1, <3>3 DEF Outbox!Next
  <2>3. CASE UNCHANGED <<alerts, sent>>
    BY <2>3
  <2>4. \/ Insert(p) \/ UNCHANGED <<alerts, sent>>
        \/ \E f \in flights : Delivered(f) \/ ServerError(f)
    BY DEF Next, vars, World, PassStep, BeginPass, Scan, LookUp, Notify, ListFails,
           CheckFails, Exit, ReturnOnce, FormatFails
  <2> QED
    BY <2>1, <2>2, <2>3, <2>4
<1> QED
  BY <1>1, <1>2, <1>3, <1>4, PTL DEF Spec, SentOncePerAlert, Outbox!Spec
=============================================================================
