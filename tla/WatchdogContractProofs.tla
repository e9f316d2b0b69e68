------------------------ MODULE WatchdogContractProofs ------------------------
(***************************************************************************)
(* Theorems about the watchdog contract, for every set of accounts and     *)
(* monitored contracts and every value of the limits.                      *)
(***************************************************************************)
EXTENDS WatchdogContract, FiniteSetTheorems, SequenceTheorems,
        WellFoundedInduction, TLAPS

\* A nomination and a pause presuppose an admin; nobody is its own nominee.
RolesInv ==
    /\ pendingAdmin # None => admin # None /\ pendingAdmin # admin
    /\ paused => admin # None

\* The calls that leave roles alone.
LEMMA RolesStep == RolesInv /\ [Next]_vars => RolesInv'
<1> SUFFICES ASSUME RolesInv, [Next]_vars PROVE RolesInv'
  OBVIOUS
<1> USE DEF RolesInv, roles
<1>1. CASE UNCHANGED roles
  BY <1>1
<1>2. ASSUME NEW a \in Accounts, Initialize(a) PROVE RolesInv'
  BY <1>2, AddressesAssumption DEF Initialize
<1>3. ASSUME NEW a \in Accounts, Pause(a) \/ Unpause(a) PROVE RolesInv'
  BY <1>3 DEF Pause, Unpause, SetPaused
<1>4. ASSUME NEW a \in Accounts, NEW new \in Accounts, ProposeAdmin(a, new)
      PROVE  RolesInv'
  BY <1>4 DEF ProposeAdmin
<1>5. ASSUME NEW a \in Accounts, AcceptAdmin(a) PROVE RolesInv'
  BY <1>5 DEF AcceptAdmin
<1>6. ASSUME NEW a \in Accounts, CancelAdminProposal(a) PROVE RolesInv'
  BY <1>6 DEF CancelAdminProposal
<1> QED
  BY <1>1, <1>2, <1>3, <1>4, <1>5, <1>6
     DEF Next, vars, CloseLedger, Restore, RegisterContract, RegisterBatch,
         DeregisterContract, ReportStatus, ReportAlert, GetStatus, GetAlerts,
         GetMonitoredPage, GetAllMonitored, GetInstance, Query

\* Every reachable state satisfies the invariant.
LEMMA RolesAlways == Spec => []RolesInv
<1>1. Init => RolesInv
  BY DEF Init, RolesInv
<1> QED
  BY <1>1, RolesStep, PTL DEF Spec

\* The two-step hand-over: the pending nominee is never the admin, so an
\* accepted nomination is spent.
THEOREM NomineeIsAnother == Spec => []PendingIsNotAdmin
<1>1. RolesInv => PendingIsNotAdmin
  BY DEF RolesInv, PendingIsNotAdmin
<1> QED
  BY <1>1, RolesAlways, PTL

\* While the contract is paused, no call changes a record, an alert list or the
\* registry.  (initialize does, and could not have been paused before.)
THEOREM PausedNothingMoves == Spec => PauseFreezes
<1>1. RolesInv /\ [Next]_vars => [paused => UNCHANGED records]_vars
  <2> SUFFICES ASSUME RolesInv, [Next]_vars, paused PROVE UNCHANGED records
    OBVIOUS
  <2>1. ASSUME NEW a \in Accounts, Initialize(a) PROVE FALSE
    BY <2>1 DEF Initialize, RolesInv
  <2> QED
    BY <2>1
       DEF Next, vars, records, CloseLedger, Restore, RegisterContract, RegisterBatch,
           MayRegister, DeregisterContract, ReportStatus, ReportAlert, Pause, Unpause,
           SetPaused, ProposeAdmin, AcceptAdmin, CancelAdminProposal, GetStatus,
           GetAlerts, GetMonitoredPage, GetAllMonitored, GetInstance, Query
<1> QED
  BY <1>1, RolesAlways, PTL DEF Spec, PauseFreezes

-----------------------------------------------------------------------------
(* Types, but those of the roles and the registry                          *)

Shape ==
    /\ now \in 1 .. MaxLedger
    /\ health \in [Ids -> Record \union {None}]
    /\ alerts \in [Ids -> Seq(1 .. MaxLedger)]
    /\ until \in [Entries -> Nat]
    /\ lastRead \in [DailyReads -> Nat]

\* Lifetimes are ledger numbers.
LEMMA BumpType ==
    ASSUME Shape, NEW C, NEW R, NEW B, Bump(C, R, B)
    PROVE  until' \in [Entries -> Nat]
<1> DEFINE u(e) == IF e \in C THEN now + MinTtl - 1 ELSE until[e]
<1>1. \A e \in Entries : u(e) \in Nat /\ Extended(u(e)) \in Nat
  BY SizesAssumption DEF Shape, Extended
<1> HIDE DEF u
<1>2. until' = [e \in Entries |-> IF e \in R THEN 0
                    ELSE IF e \in B \union {Instance} THEN Extended(u(e)) ELSE u(e)]
  BY DEF Bump, u
<1> QED
  BY <1>1, <1>2

\* So are the times of reads.
LEMMA ReadType ==
    ASSUME Shape, NEW S, NoteRead(S)
    PROVE  lastRead' \in [DailyReads -> Nat]
BY SizesAssumption DEF Shape, NoteRead

\* Registrations store records of the caller, and empty alert lists.
LEMMA StoreType ==
    ASSUME Shape, NEW a \in Accounts, NEW S \in SUBSET Ids,
           StoreRegistrations(a, S)
    PROVE  /\ health' \in [Ids -> Record \union {None}]
           /\ alerts' \in [Ids -> Seq(1 .. MaxLedger)]
           /\ until' \in [Entries -> Nat]
           /\ lastRead' \in [DailyReads -> Nat]
<1>1. health' \in [Ids -> Record \union {None}]
  <2>1. \A k \in S : [owner |-> a, lastCheck |-> now] \in Record
    <3> SUFFICES ASSUME NEW k \in S
                 PROVE  [owner |-> a, lastCheck |-> now] \in Record
      OBVIOUS
    <3>1. now \in 1 .. MaxLedger
      BY DEF Shape
    <3> QED
      BY <3>1 DEF Record
  <2>2. \A k \in Ids : health[k] \in Record \union {None}
    BY DEF Shape
  <2>3. health' = [k \in Ids |->
            IF k \in S THEN [owner |-> a, lastCheck |-> now]
            ELSE health[k]]
    BY DEF StoreRegistrations
  <2>4. \A k \in Ids : health'[k] \in Record \union {None}
    BY <2>1, <2>2, <2>3
  <2> QED
    BY <2>3, <2>4
<1>2. alerts' \in [Ids -> Seq(1 .. MaxLedger)]
  <2>1. <<>> \in Seq(1 .. MaxLedger)
    OBVIOUS
  <2>2. \A k \in Ids : alerts[k] \in Seq(1 .. MaxLedger)
    BY DEF Shape
  <2>3. alerts' = [k \in Ids |-> IF k \in S THEN <<>> ELSE alerts[k]]
    BY DEF StoreRegistrations
  <2> QED
    BY <2>1, <2>2, <2>3
<1>3. until' \in [Entries -> Nat]
  BY BumpType DEF StoreRegistrations
<1>4. lastRead' \in [DailyReads -> Nat]
  BY ReadType DEF StoreRegistrations
<1> QED
  BY <1>1, <1>2, <1>3, <1>4

\* A batch registers contracts.
LEMMA BatchTargets ==
    ASSUME NEW batch \in Batches
    PROVE  {batch[i].id : i \in Accepted(batch)} \in SUBSET Ids
<1>1. PICK n \in 0 .. MaxBatch : batch \in [1 .. n -> Registration]
  BY DEF Batches
<1>2. Accepted(batch) \subseteq 1 .. n
  BY <1>1 DEF Accepted
<1> QED
  BY <1>1, <1>2 DEF Registration

\* What appending to a list and dropping its first element do.
LEMMA Lists ==
    ASSUME NEW S, NEW list \in Seq(S), NEW x \in S
    PROVE  LET longer == Append(list, x) IN
           /\ longer \in Seq(S)
           /\ Len(longer) = Len(list) + 1
           /\ \A i \in 1 .. Len(list) : longer[i] = list[i]
           /\ longer[Len(list) + 1] = x
           /\ Tail(longer) \in Seq(S)
           /\ Len(Tail(longer)) = Len(list)
           /\ \A i \in 1 .. Len(list) : Tail(longer)[i] = longer[i + 1]
<1> DEFINE longer == Append(list, x)
<1>1. /\ longer \in Seq(S)
      /\ Len(longer) = Len(list) + 1
      /\ \A i \in 1 .. Len(list) : longer[i] = list[i]
      /\ longer[Len(list) + 1] = x
  OBVIOUS
<1>2. longer # <<>>
  BY <1>1
<1> HIDE DEF longer
<1>3. /\ Tail(longer) \in Seq(S)
      /\ Len(Tail(longer)) = Len(list)
      /\ \A i \in 1 .. Len(list) : Tail(longer)[i] = longer[i + 1]
  BY <1>1, <1>2
<1> QED
  BY <1>1, <1>3 DEF longer

\* The elements of a list of ledgers are numbers.
LEMMA Elements ==
    ASSUME NEW list \in Seq(1 .. MaxLedger)
    PROVE  \A i \in DOMAIN list : list[i] \in Nat
<1> DEFINE S == 1 .. MaxLedger
<1>1. \A x \in S : x \in Nat
  BY SizesAssumption
<1>2. list \in Seq(S)
  OBVIOUS
<1> HIDE DEF S
<1>3. \A i \in DOMAIN list : list[i] \in S
  BY <1>2
<1> QED
  BY <1>1, <1>3

\* A list that an alert is pushed to stays a list of ledgers.
LEMMA PushType ==
    ASSUME Shape, NEW list \in Seq(1 .. MaxLedger)
    PROVE  PushAlert(list) \in Seq(1 .. MaxLedger)
<1>1. now \in 1 .. MaxLedger
  BY DEF Shape
<1> QED
  BY <1>1, Lists DEF PushAlert

\* Every step keeps the types.
LEMMA ShapeStep == Shape /\ [Next]_vars => Shape'
<1> SUFFICES ASSUME Shape, [Next]_vars PROVE Shape'
  OBVIOUS
<1>1. CASE UNCHANGED vars
  BY <1>1 DEF vars, records, Shape
<1>2. CASE CloseLedger
  BY <1>2, SizesAssumption DEF CloseLedger, records, Shape
<1>3. ASSUME NEW e \in Entries, Restore(e) PROVE Shape'
  BY <1>3, SizesAssumption DEF Restore, records, Shape
<1>4. ASSUME NEW a \in Accounts, Initialize(a) PROVE Shape'
  BY <1>4, BumpType DEF Initialize, Shape
<1>5. ASSUME NEW a \in Accounts, NEW k \in Ids, RegisterContract(a, k)
      PROVE  Shape'
  <2>1. {k} \in SUBSET Ids
    OBVIOUS
  <2> QED
    BY <1>5, <2>1, StoreType DEF RegisterContract, Shape
<1>6. ASSUME NEW a \in Accounts, NEW batch \in Batches, RegisterBatch(a, batch)
      PROVE  Shape'
  BY <1>6, BatchTargets, StoreType DEF RegisterBatch, Shape
<1>7. ASSUME NEW a \in Accounts, NEW k \in Ids, DeregisterContract(a, k) PROVE Shape'
  BY <1>7, BumpType DEF DeregisterContract, Shape
<1>8. ASSUME NEW a \in Accounts, NEW k \in Ids, ReportStatus(a, k) PROVE Shape'
  <2>1. health[k] \in Record
    BY <1>8 DEF ReportStatus, MayChange, Registered, Shape
  <2>2. health' \in [Ids -> Record \union {None}]
    BY <1>8, <2>1 DEF ReportStatus, Record, Shape
  <2> QED
    BY <1>8, <2>2, BumpType DEF ReportStatus, Shape
<1>9. ASSUME NEW a \in Accounts, NEW k \in Ids, ReportAlert(a, k) PROVE Shape'
  <2>1. alerts' \in [Ids -> Seq(1 .. MaxLedger)]
    BY <1>9, PushType DEF ReportAlert, Shape
  <2> QED
    BY <1>9, <2>1, BumpType DEF ReportAlert, Shape
<1>10. ASSUME NEW a \in Accounts,
              Pause(a) \/ Unpause(a) \/ AcceptAdmin(a) \/ CancelAdminProposal(a)
              \/ \E new \in Accounts : ProposeAdmin(a, new)
       PROVE  Shape'
  BY <1>10, BumpType
     DEF Pause, Unpause, SetPaused, AcceptAdmin, CancelAdminProposal, ProposeAdmin,
         records, Shape
<1>11. ASSUME NEW K, NEW S, Query(K, S) PROVE Shape'
  BY <1>11, BumpType, ReadType DEF Query, records, Shape
<1> QED
  BY <1>1, <1>2, <1>3, <1>4, <1>5, <1>6, <1>7, <1>8, <1>9, <1>10, <1>11
     DEF Next, GetStatus, GetAlerts, GetMonitoredPage, GetAllMonitored, GetInstance

\* Every reachable state is well formed.
LEMMA ShapeAlways == Spec => []Shape
<1>1. Init => Shape
  BY SizesAssumption DEF Init, Shape
<1> QED
  BY <1>1, ShapeStep, PTL DEF Spec

-----------------------------------------------------------------------------
(* Picking elements of a list                                              *)

\* The m-th element of P in ascending order.
Nth(P, m) == CHOOSE i \in P : Cardinality({j \in P : j <= i}) = m

\* Counting the elements up to one of them numbers a set of positions from 1
\* without a gap.
LEMMA Ranks ==
    ASSUME NEW n \in Nat, NEW P \in SUBSET (1 .. n)
    PROVE  /\ IsFiniteSet(P) /\ Cardinality(P) \in Nat
           /\ \A i \in P : Cardinality({j \in P : j <= i}) \in 1 .. Cardinality(P)
           /\ \A i, k \in P :
                 Cardinality({j \in P : j <= i}) = Cardinality({j \in P : j <= k}) => i = k
           /\ \A m \in 1 .. Cardinality(P) :
                 \E i \in P : Cardinality({j \in P : j <= i}) = m
<1> DEFINE low(i) == {j \in P : j <= i}
           rank == [i \in P |-> Cardinality(low(i))]
<1>1. IsFiniteSet(P) /\ Cardinality(P) \in Nat
  <2>1. IsFiniteSet(1 .. n)
    BY FS_Interval
  <2> QED
    BY <2>1, FS_Subset, FS_CardinalityType
<1>2. ASSUME NEW i \in P
      PROVE  /\ IsFiniteSet(low(i)) /\ Cardinality(low(i)) \in Nat
             /\ Cardinality(low(i)) <= Cardinality(P)
             /\ Cardinality(low(i)) # 0
  <2>1. low(i) \in SUBSET P /\ i \in low(i)
    OBVIOUS
  <2> HIDE DEF low
  <2>2. IsFiniteSet(low(i)) /\ Cardinality(low(i)) <= Cardinality(P)
    BY <1>1, <2>1, FS_Subset
  <2>3. Cardinality(low(i)) \in Nat
    BY <2>2, FS_CardinalityType
  <2>4. Cardinality(low(i)) # 0
    BY <2>1, <2>2, FS_EmptySet
  <2> QED
    BY <2>2, <2>3, <2>4
<1>3. ASSUME NEW i \in P, NEW k \in P, i < k
      PROVE  Cardinality(low(i)) # Cardinality(low(k))
  <2>1. \A j \in P : j \in Int
    OBVIOUS
  <2>2. \A j \in P : j <= i => j <= k
    BY <1>3, <2>1
  <2>3. k <= k /\ ~(k <= i)
    BY <1>3, <2>1
  <2>4. low(i) \in SUBSET low(k) /\ k \in low(k) /\ k \notin low(i)
    BY <2>2, <2>3
  <2>5. IsFiniteSet(low(k))
    BY <1>2
  <2> HIDE DEF low
  <2> QED
    BY <2>4, <2>5, FS_Subset
<1>4. ASSUME NEW i \in P, NEW k \in P, Cardinality(low(i)) = Cardinality(low(k))
      PROVE  i = k
  BY <1>3, <1>4
<1>5. rank \in Injection(P, 1 .. Cardinality(P))
  <2>1. \A i \in P : rank[i] \in 1 .. Cardinality(P)
    <3> HIDE DEF low
    <3> QED
      BY <1>1, <1>2
  <2>2. \A i, k \in P : rank[i] = rank[k] => i = k
    BY <1>4
  <2>3. rank \in [P -> 1 .. Cardinality(P)]
    BY <2>1
  <2> HIDE DEF rank
  <2> QED
    BY <2>2, <2>3 DEF Injection, IsInjective
<1>6. rank \in Surjection(P, 1 .. Cardinality(P))
  <2>1. /\ IsFiniteSet(1 .. Cardinality(P))
        /\ Cardinality(1 .. Cardinality(P)) = Cardinality(P)
    BY <1>1, FS_Interval
  <2> HIDE DEF rank
  <2> QED
    BY <1>5, <2>1, FS_Injection
<1>7. \A m \in 1 .. Cardinality(P) : \E i \in P : Cardinality(low(i)) = m
  <2>1. \A m \in 1 .. Cardinality(P) : \E i \in P : rank[i] = m
    BY <1>6 DEF Surjection
  <2> HIDE DEF low
  <2> QED
    BY <2>1
<1>8. \A i \in P : Cardinality(low(i)) \in 1 .. Cardinality(P)
  <2> HIDE DEF low
  <2> QED
    BY <1>1, <1>2
<1> QED
  BY <1>1, <1>4, <1>7, <1>8

\* Picking visits every position of P once.
LEMMA NthOnce ==
    ASSUME NEW n \in Nat, NEW P \in SUBSET (1 .. n)
    PROVE  /\ \A m \in 1 .. Cardinality(P) : Nth(P, m) \in P
           /\ \A m, l \in 1 .. Cardinality(P) : Nth(P, m) = Nth(P, l) => m = l
           /\ \A i \in P : \E m \in 1 .. Cardinality(P) : Nth(P, m) = i
<1> DEFINE rank(i) == Cardinality({j \in P : j <= i})
<1>1. /\ \A i \in P : rank(i) \in 1 .. Cardinality(P)
      /\ \A i, k \in P : rank(i) = rank(k) => i = k
      /\ \A m \in 1 .. Cardinality(P) : \E i \in P : rank(i) = m
  BY Ranks
<1>2. \A m : Nth(P, m) = CHOOSE i \in P : rank(i) = m
  BY DEF Nth
<1> HIDE DEF rank
<1>3. \A m \in 1 .. Cardinality(P) : Nth(P, m) \in P /\ rank(Nth(P, m)) = m
  BY <1>1, <1>2
<1>4. ASSUME NEW i \in P PROVE \E m \in 1 .. Cardinality(P) : Nth(P, m) = i
  <2>1. rank(i) \in 1 .. Cardinality(P)
    BY <1>1
  <2>2. Nth(P, rank(i)) \in P /\ rank(Nth(P, rank(i))) = rank(i)
    BY <1>3, <2>1
  <2>3. Nth(P, rank(i)) = i
    BY <1>1, <2>2
  <2> QED
    BY <2>1, <2>3
<1> QED
  BY <1>3, <1>4

\* What Picked returns: the elements at the positions of P, each once.
LEMMA PickedElements ==
    ASSUME NEW S, NEW list \in Seq(S), NEW P \in SUBSET (DOMAIN list)
    PROVE  /\ Cardinality(P) \in Nat
           /\ Picked(list, P) \in Seq(S)
           /\ Len(Picked(list, P)) = Cardinality(P)
           /\ \A m \in 1 .. Cardinality(P) :
                 Nth(P, m) \in P /\ Picked(list, P)[m] = list[Nth(P, m)]
<1>1. DOMAIN list = 1 .. Len(list) /\ Len(list) \in Nat
  OBVIOUS
<1>2. Cardinality(P) \in Nat /\ \A m \in 1 .. Cardinality(P) : Nth(P, m) \in P
  BY <1>1, Ranks, NthOnce
<1>3. Picked(list, P) = [m \in 1 .. Cardinality(P) |-> list[Nth(P, m)]]
  BY DEF Picked, Nth
<1>4. \A m \in 1 .. Cardinality(P) : list[Nth(P, m)] \in S
  BY <1>1, <1>2
<1> QED
  BY <1>2, <1>3, <1>4

\* A loop that drops one id from a list without repetitions leaves a list
\* without repetitions that has all the others.
LEMMA DropOne ==
    ASSUME NEW list \in Seq(Ids), IsInjective(list), NEW k
    PROVE  LET rest == Picked(list, {i \in DOMAIN list : list[i] # k}) IN
           /\ rest \in Seq(Ids)
           /\ IsInjective(rest)
           /\ Range(rest) = Range(list) \ {k}
<1> DEFINE P == {i \in DOMAIN list : list[i] # k}
           rest == Picked(list, P)
<1>1. P \in SUBSET (DOMAIN list) /\ DOMAIN list = 1 .. Len(list) /\ Len(list) \in Nat
  OBVIOUS
<1>2. \A i \in P : list[i] # k
  OBVIOUS
<1>3. \A i \in DOMAIN list : list[i] # k => i \in P
  OBVIOUS
<1> HIDE DEF P
<1>4. /\ rest \in Seq(Ids) /\ Cardinality(P) \in Nat
      /\ Len(rest) = Cardinality(P)
      /\ \A m \in 1 .. Cardinality(P) : Nth(P, m) \in P /\ rest[m] = list[Nth(P, m)]
  BY <1>1, PickedElements
<1>5. /\ \A m, l \in 1 .. Cardinality(P) : Nth(P, m) = Nth(P, l) => m = l
      /\ \A i \in P : \E m \in 1 .. Cardinality(P) : Nth(P, m) = i
  BY <1>1, NthOnce
<1> HIDE DEF rest
<1>6. DOMAIN rest = 1 .. Cardinality(P)
  BY <1>4
<1>7. IsInjective(rest)
  BY <1>1, <1>4, <1>5, <1>6 DEF IsInjective
<1>8. Range(rest) = Range(list) \ {k}
  <2>1. \A x \in Range(rest) : x \in Range(list) \ {k}
    BY <1>1, <1>2, <1>4, <1>6 DEF Range
  <2>2. ASSUME NEW x \in Range(list) \ {k} PROVE x \in Range(rest)
    <3>1. PICK i \in P : list[i] = x
      BY <1>3 DEF Range
    <3>2. PICK m \in 1 .. Cardinality(P) : Nth(P, m) = i
      BY <1>5
    <3> QED
      BY <1>4, <1>6, <3>1, <3>2 DEF Range
  <2> QED
    BY <2>1, <2>2
<1> QED
  BY <1>4, <1>7, <1>8 DEF rest, P

\* A list of ids followed by others, when neither repeats an id.
LEMMA JoinLists ==
    ASSUME NEW s \in Seq(Ids), NEW t \in Seq(Ids), IsInjective(s), IsInjective(t),
           Range(s) \cap Range(t) = {}
    PROVE  /\ s \o t \in Seq(Ids)
           /\ IsInjective(s \o t)
           /\ Range(s \o t) = Range(s) \union Range(t)
<1>1. /\ s \o t \in Seq(Ids)
      /\ Len(s \o t) = Len(s) + Len(t) /\ Len(s) \in Nat /\ Len(t) \in Nat
      /\ DOMAIN s = 1 .. Len(s) /\ DOMAIN t = 1 .. Len(t)
      /\ DOMAIN (s \o t) = 1 .. Len(s) + Len(t)
      /\ \A i \in 1 .. Len(s) + Len(t) :
            (s \o t)[i] = IF i <= Len(s) THEN s[i] ELSE t[i - Len(s)]
  OBVIOUS
<1> DEFINE st == s \o t
<1> HIDE DEF st
<1>2. ASSUME NEW i \in 1 .. Len(s) + Len(t), NEW j \in 1 .. Len(s) + Len(t),
             st[i] = st[j]
      PROVE  i = j
  <2>1. CASE i <= Len(s) /\ j <= Len(s)
    BY <1>1, <1>2, <2>1 DEF IsInjective, st
  <2>2. CASE i > Len(s) /\ j > Len(s)
    <3>1. i - Len(s) \in DOMAIN t /\ j - Len(s) \in DOMAIN t
      BY <1>1, <2>2
    <3>2. t[i - Len(s)] = t[j - Len(s)]
      BY <1>1, <1>2, <2>2 DEF st
    <3>3. i - Len(s) = j - Len(s)
      BY <3>1, <3>2 DEF IsInjective
    <3> QED
      BY <1>1, <3>3
  <2>3. ASSUME NEW m \in 1 .. Len(s), NEW l \in 1 .. Len(t) PROVE s[m] # t[l]
    BY <1>1 DEF Range
  <2> QED
    BY <1>1, <1>2, <2>1, <2>2, <2>3 DEF st
<1>3. Range(st) = Range(s) \union Range(t)
  <2>1. \A x \in Range(st) : x \in Range(s) \union Range(t)
    BY <1>1 DEF Range, st
  <2>2. \A i \in 1 .. Len(s) : s[i] \in Range(st)
    BY <1>1 DEF Range, st
  <2>3. ASSUME NEW i \in 1 .. Len(t) PROVE t[i] \in Range(st)
    <3>1. i + Len(s) \in 1 .. Len(s) + Len(t) /\ st[i + Len(s)] = t[i]
      BY <1>1 DEF st
    <3> QED
      BY <1>1, <3>1 DEF Range, st
  <2> QED
    BY <1>1, <2>1, <2>2, <2>3 DEF Range
<1> QED
  BY <1>1, <1>2, <1>3 DEF IsInjective, st

\* The ids that a batch adds to the registry: those it accepts, each once.
LEMMA BatchIds ==
    ASSUME NEW batch \in Batches
    PROVE  LET chosen == Picked(batch, Accepted(batch))
               added == [n \in DOMAIN chosen |-> chosen[n].id]
               ids == {batch[i].id : i \in Accepted(batch)}
           IN  /\ added \in Seq(Ids)
               /\ IsInjective(added)
               /\ Range(added) = ids
               /\ ids \cap Registered = {}
<1> DEFINE P == Accepted(batch)
           chosen == Picked(batch, P)
           added == [n \in DOMAIN chosen |-> chosen[n].id]
           ids == {batch[i].id : i \in P}
<1>1. PICK n \in Nat : batch \in [1 .. n -> Registration]
  BY SizesAssumption DEF Batches
<1>2. batch \in Seq(Registration) /\ DOMAIN batch = 1 .. n
  BY <1>1
<1>3. P \in SUBSET (1 .. n)
  BY <1>2 DEF Accepted
<1>4. \A i \in P : batch[i].id \in Ids /\ batch[i].id \notin Registered
  BY <1>1, <1>3 DEF Accepted, Registration
<1>5. ASSUME NEW i \in P, NEW j \in P, i < j PROVE batch[i].id # batch[j].id
  BY <1>2, <1>3, <1>5 DEF Accepted
<1>6. \A i, j \in P : batch[i].id = batch[j].id => i = j
  BY <1>3, <1>5
<1> HIDE DEF P
<1>7. /\ chosen \in Seq(Registration) /\ Cardinality(P) \in Nat
      /\ Len(chosen) = Cardinality(P)
      /\ \A m \in 1 .. Cardinality(P) : Nth(P, m) \in P /\ chosen[m] = batch[Nth(P, m)]
  BY <1>2, <1>3, PickedElements
<1>8. /\ \A m, l \in 1 .. Cardinality(P) : Nth(P, m) = Nth(P, l) => m = l
      /\ \A i \in P : \E m \in 1 .. Cardinality(P) : Nth(P, m) = i
  BY <1>3, NthOnce
<1> HIDE DEF chosen
<1>9. DOMAIN chosen = 1 .. Cardinality(P)
  BY <1>7
<1>10. \A m \in 1 .. Cardinality(P) : added[m] = batch[Nth(P, m)].id
  BY <1>7, <1>9
<1>11. DOMAIN added = 1 .. Cardinality(P) /\ added \in Seq(Ids)
  BY <1>4, <1>7, <1>9
<1> HIDE DEF added
<1>12. IsInjective(added)
  BY <1>6, <1>7, <1>8, <1>10, <1>11 DEF IsInjective
<1>13. Range(added) = ids
  <2>1. \A x \in Range(added) : x \in ids
    BY <1>7, <1>10, <1>11 DEF Range
  <2>2. ASSUME NEW i \in P PROVE batch[i].id \in Range(added)
    <3>1. PICK m \in 1 .. Cardinality(P) : Nth(P, m) = i
      BY <1>8
    <3> QED
      BY <1>10, <1>11, <3>1 DEF Range
  <2> QED
    BY <2>1, <2>2
<1> QED
  BY <1>4, <1>11, <1>12, <1>13 DEF added, chosen, P

-----------------------------------------------------------------------------
(* The registry                                                            *)

\* The registry lists the records; before initialize it is empty.
ListInv ==
    /\ registry \in Seq(Ids)
    /\ RegistryMatchesRecords
    /\ admin = None => registry = <<>>

\* Registering ids that have no record gives each of them one.
LEMMA StoreRegisters ==
    ASSUME Shape, NEW a \in Accounts, NEW S \in SUBSET Ids,
           StoreRegistrations(a, S)
    PROVE  Registered' = Registered \union S
<1>1. \A k \in S : [owner |-> a, lastCheck |-> now] # None
  <2> SUFFICES ASSUME NEW k \in S
               PROVE  [owner |-> a, lastCheck |-> now] # None
    OBVIOUS
  <2>1. now \in 1 .. MaxLedger
    BY DEF Shape
  <2>2. [owner |-> a, lastCheck |-> now] \in Record
    BY <2>1 DEF Record
  <2> QED
    BY <2>2, AbsenceAssumption
<1> QED
  BY <1>1 DEF StoreRegistrations, Registered

\* Every step keeps the registry and the records in step.
LEMMA ListStep == Shape /\ RolesInv /\ ListInv /\ [Next]_vars => ListInv'
<1> SUFFICES ASSUME Shape, RolesInv, ListInv, [Next]_vars PROVE ListInv'
  OBVIOUS
<1>1. CASE registry' = registry /\ Registered' = Registered /\ (admin' = None => admin = None)
  BY <1>1 DEF ListInv, RegistryMatchesRecords
<1>2. CASE UNCHANGED <<registry, health, admin>>
  BY <1>1, <1>2 DEF Registered
<1>3. ASSUME NEW a \in Accounts, Initialize(a) PROVE ListInv'
  BY <1>3 DEF Initialize, ListInv, RegistryMatchesRecords, Registered
<1>4. ASSUME NEW added \in Seq(Ids), IsInjective(added),
             Range(added) \cap Registered = {}, registry' = registry \o added,
             Registered' = Registered \union Range(added), admin # None, admin' = admin
      PROVE  ListInv'
  BY <1>4, JoinLists DEF ListInv, RegistryMatchesRecords
<1>5. ASSUME NEW a \in Accounts, NEW k \in Ids, RegisterContract(a, k)
      PROVE  ListInv'
  <2>1. {k} \in SUBSET Ids
    OBVIOUS
  <2>2. Registered' = Registered \union {k}
    BY <1>5, <2>1, StoreRegisters DEF RegisterContract
  <2>3. <<k>> \in Seq(Ids) /\ IsInjective(<<k>>) /\ Range(<<k>>) = {k}
    BY DEF IsInjective, Range
  <2>4. registry' = registry \o <<k>>
    BY <1>5 DEF RegisterContract, ListInv
  <2> QED
    BY <1>4, <1>5, <2>2, <2>3, <2>4 DEF RegisterContract, MayRegister, roles
<1>6. ASSUME NEW a \in Accounts, NEW batch \in Batches, RegisterBatch(a, batch)
      PROVE  ListInv'
  <2> DEFINE chosen == Picked(batch, Accepted(batch))
             added == [n \in DOMAIN chosen |-> chosen[n].id]
             ids == {batch[i].id : i \in Accepted(batch)}
  <2>1. /\ added \in Seq(Ids) /\ IsInjective(added)
        /\ Range(added) = ids /\ ids \cap Registered = {}
    BY BatchIds
  <2>2. Registered' = Registered \union ids
    BY <1>6, BatchTargets, StoreRegisters DEF RegisterBatch
  <2>3. registry' = registry \o added /\ admin # None /\ admin' = admin
    BY <1>6 DEF RegisterBatch, MayRegister, roles
  <2> HIDE DEF added, ids
  <2> QED
    BY <1>4, <2>1, <2>2, <2>3
<1>7. ASSUME NEW a \in Accounts, NEW k \in Ids, DeregisterContract(a, k) PROVE ListInv'
  <2>1. Registered' = Registered \ {k}
    BY <1>7 DEF DeregisterContract, Registered, Shape
  <2>2. /\ registry' \in Seq(Ids) /\ IsInjective(registry')
        /\ Range(registry') = Range(registry) \ {k}
    BY <1>7, DropOne DEF DeregisterContract, ListInv, RegistryMatchesRecords
  <2>3. registry # <<>> /\ admin' = admin
    BY <1>7 DEF DeregisterContract, MayChange, ListInv, RegistryMatchesRecords, Range, roles
  <2> QED
    BY <2>1, <2>2, <2>3 DEF ListInv, RegistryMatchesRecords
<1>8. ASSUME NEW a \in Accounts, NEW k \in Ids, ReportStatus(a, k) PROVE ListInv'
  <2>1. health[k] \in Record /\ k \in Registered
    BY <1>8 DEF ReportStatus, MayChange, Registered, Shape
  <2>2. [health[k] EXCEPT !.lastCheck = now] \in Record
    BY <2>1 DEF Record, Shape
  <2>3. health' = [health EXCEPT ![k] = [health[k] EXCEPT !.lastCheck = now]]
    BY <1>8 DEF ReportStatus
  <2>4. Registered' = Registered
    BY <2>1, <2>2, <2>3, AbsenceAssumption DEF Registered, Shape
  <2> QED
    BY <1>1, <1>8, <2>4 DEF ReportStatus, roles
<1>9. ASSUME NEW a \in Accounts,
             Pause(a) \/ Unpause(a) \/ AcceptAdmin(a) \/ CancelAdminProposal(a)
             \/ \E new \in Accounts : ProposeAdmin(a, new)
      PROVE  ListInv'
  <2>1. UNCHANGED <<registry, health>> /\ (admin' = None => admin = None)
    BY <1>9 DEF Pause, Unpause, SetPaused, AcceptAdmin, CancelAdminProposal, ProposeAdmin,
                records
  <2> QED
    BY <1>1, <2>1 DEF Registered
<1> QED
  BY <1>2, <1>3, <1>5, <1>6, <1>7, <1>8, <1>9
     DEF Next, vars, roles, records, CloseLedger, Restore, ReportAlert, GetStatus,
         GetAlerts, GetMonitoredPage, GetAllMonitored, GetInstance, Query

\* The registry and the records never part.
LEMMA ListAlways == Spec => []ListInv
<1>1. Init => ListInv
  BY DEF Init, ListInv, RegistryMatchesRecords, IsInjective, Range, Registered
<1> QED
  BY <1>1, ListStep, ShapeAlways, RolesAlways, PTL DEF Spec

\* The list that pages are cut from has every monitored contract exactly once,
\* after any sequence of registrations, batches and removals.
THEOREM RegistryIsExact == Spec => []RegistryMatchesRecords
<1>1. ListInv => RegistryMatchesRecords
  BY DEF ListInv
<1> QED
  BY <1>1, ListAlways, PTL

\* The roles are accounts, or there is none.
RolesType ==
    /\ admin \in Accounts \union {None}
    /\ pendingAdmin \in Accounts \union {None}
    /\ paused \in BOOLEAN

\* The types of every variable.
THEOREM TypeCorrect == Spec => []TypeOK
<1>1. Init => RolesType
  BY DEF Init, RolesType
<1>2. RolesType /\ [Next]_vars => RolesType'
  BY DEF RolesType, Next, vars, roles, CloseLedger, Restore, Initialize, RegisterContract,
         RegisterBatch, DeregisterContract, ReportStatus, ReportAlert, Pause, Unpause,
         SetPaused, ProposeAdmin, AcceptAdmin, CancelAdminProposal, GetStatus, GetAlerts,
         GetMonitoredPage, GetAllMonitored, GetInstance, Query
<1>3. Shape /\ RolesType /\ ListInv => TypeOK
  BY DEF Shape, RolesType, ListInv, TypeOK
<1> QED
  BY <1>1, <1>2, <1>3, ShapeAlways, ListAlways, PTL DEF Spec

-----------------------------------------------------------------------------
(* Owners                                                                  *)

\* A record keeps its owner until the contract is deregistered.
THEOREM OwnersStay == Spec => OwnerIsPermanent
<1> DEFINE Kept == \A k \in Ids : health[k] # None /\ health'[k] # None
                                  => health'[k].owner = health[k].owner
<1>1. Shape /\ [Next]_vars => [Kept]_vars
  <2> SUFFICES ASSUME Shape, [Next]_vars PROVE Kept
    OBVIOUS
  <2>1. CASE UNCHANGED health
    BY <2>1
  <2>2. ASSUME NEW a, NEW S, StoreRegistrations(a, S), S \cap Registered = {}
        PROVE  Kept
    BY <2>2 DEF StoreRegistrations, Registered
  <2>3. ASSUME NEW a \in Accounts, NEW k \in Ids, RegisterContract(a, k)
      PROVE  Kept
    BY <2>2, <2>3 DEF RegisterContract
  <2>4. ASSUME NEW a \in Accounts, NEW batch \in Batches, RegisterBatch(a, batch)
        PROVE  Kept
    <3>1. {batch[i].id : i \in Accepted(batch)} \cap Registered = {}
      BY DEF Accepted
    <3> QED
      BY <2>2, <2>4, <3>1 DEF RegisterBatch
  <2>5. ASSUME NEW a \in Accounts, NEW k \in Ids, DeregisterContract(a, k) PROVE Kept
    BY <2>5 DEF DeregisterContract, Shape
  <2>6. ASSUME NEW a \in Accounts, NEW k \in Ids, ReportStatus(a, k) PROVE Kept
    <3>1. health[k] \in Record
      BY <2>6 DEF ReportStatus, MayChange, Registered, Shape
    <3> QED
      BY <2>6, <3>1 DEF ReportStatus, Record, Shape
  <2> QED
    BY <2>1, <2>3, <2>4, <2>5, <2>6
       DEF Next, vars, records, CloseLedger, Restore, Initialize, ReportAlert, Pause,
           Unpause, SetPaused, ProposeAdmin, AcceptAdmin, CancelAdminProposal,
           GetStatus, GetAlerts, GetMonitoredPage, GetAllMonitored, GetInstance, Query
<1> QED
  BY <1>1, ShapeAlways, PTL DEF Spec, OwnerIsPermanent

-----------------------------------------------------------------------------
(* Alerts                                                                  *)

\* A list of alerts as AlertsInOrder wants it, at ledger t.
Orderly(list, t) ==
    /\ Len(list) <= MaxAlerts
    /\ \A i, j \in DOMAIN list : i <= j => list[i] <= list[j]
    /\ \A i \in DOMAIN list : list[i] <= t

\* Pushing an alert keeps its list orderly.
LEMMA PushOrderly ==
    ASSUME Shape, NEW list \in Seq(1 .. MaxLedger), Orderly(list, now)
    PROVE  Orderly(PushAlert(list), now)
<1> DEFINE longer == Append(list, now)
<1>1. /\ longer \in Seq(1 .. MaxLedger)
      /\ Len(longer) = Len(list) + 1
      /\ \A i \in 1 .. Len(list) : longer[i] = list[i]
      /\ longer[Len(list) + 1] = now
      /\ Tail(longer) \in Seq(1 .. MaxLedger)
      /\ Len(Tail(longer)) = Len(list)
      /\ \A i \in 1 .. Len(list) : Tail(longer)[i] = longer[i + 1]
  BY Lists DEF Shape
<1>2. PushAlert(list) = IF Len(longer) > MaxAlerts THEN Tail(longer) ELSE longer
  BY DEF PushAlert
<1>3. /\ DOMAIN list = 1 .. Len(list)
      /\ DOMAIN longer = 1 .. Len(longer)
      /\ DOMAIN Tail(longer) = 1 .. Len(Tail(longer))
      /\ Len(list) \in Nat /\ now \in Nat /\ MaxAlerts \in Nat
      /\ \A i \in 1 .. Len(list) : list[i] \in Nat
  <2>1. now \in Nat /\ MaxAlerts \in Nat
    BY SizesAssumption DEF Shape
  <2>2. DOMAIN list = 1 .. Len(list) /\ Len(list) \in Nat
    OBVIOUS
  <2>3. \A i \in 1 .. Len(list) : list[i] \in Nat
    BY <2>2, Elements
  <2> HIDE DEF longer
  <2>4. DOMAIN longer = 1 .. Len(longer) /\ DOMAIN Tail(longer) = 1 .. Len(Tail(longer))
    BY <1>1
  <2> QED
    BY <2>1, <2>2, <2>3, <2>4
<1> HIDE DEF longer
<1>4. /\ \A i, j \in 1 .. Len(list) + 1 : i <= j => longer[i] <= longer[j]
      /\ \A i \in 1 .. Len(list) + 1 : longer[i] <= now
  <2>1. \A i \in 1 .. Len(list) : longer[i] \in Nat /\ longer[i] <= now
    BY <1>1, <1>3 DEF Orderly
  <2>2. \A i, j \in 1 .. Len(list) : i <= j => longer[i] <= longer[j]
    BY <1>1, <1>3 DEF Orderly
  <2>3. ASSUME NEW i \in 1 .. Len(list) + 1, NEW j \in 1 .. Len(list) + 1, i <= j
        PROVE  longer[i] <= longer[j] /\ longer[i] <= now
    <3>1. CASE j \in 1 .. Len(list)
      BY <1>3, <2>1, <2>2, <2>3, <3>1
    <3>2. CASE i \in 1 .. Len(list) /\ j = Len(list) + 1
      BY <1>1, <1>3, <2>1, <3>2
    <3>3. CASE i = Len(list) + 1 /\ j = Len(list) + 1
      BY <1>1, <1>3, <3>3
    <3> QED
      BY <1>3, <2>3, <3>1, <3>2, <3>3
  <2> QED
    BY <1>3, <2>3
<1>5. CASE Len(longer) > MaxAlerts
  <2>1. PushAlert(list) = Tail(longer)
    BY <1>2, <1>5
  <2>2. Len(Tail(longer)) <= MaxAlerts
    BY <1>1 DEF Orderly
  <2>3. /\ \A i, j \in 1 .. Len(list) : i <= j => Tail(longer)[i] <= Tail(longer)[j]
        /\ \A i \in 1 .. Len(list) : Tail(longer)[i] <= now
    BY <1>1, <1>3, <1>4
  <2> QED
    BY <1>1, <1>3, <2>1, <2>2, <2>3 DEF Orderly
<1>6. CASE ~(Len(longer) > MaxAlerts)
  BY <1>1, <1>2, <1>3, <1>4, <1>6 DEF Orderly
<1> QED
  BY <1>5, <1>6

\* The empty list is orderly.
LEMMA EmptyOrderly == ASSUME NEW t PROVE Orderly(<<>>, t)
<1>1. Len(<<>>) = 0 /\ DOMAIN <<>> = 1 .. 0
  OBVIOUS
<1> QED
  BY <1>1, SizesAssumption DEF Orderly

\* Every step keeps all lists orderly.
LEMMA AlertsStep == Shape /\ AlertsInOrder /\ [Next]_vars => AlertsInOrder'
<1> SUFFICES ASSUME Shape, AlertsInOrder, [Next]_vars PROVE AlertsInOrder'
  OBVIOUS
<1>1. AlertsInOrder <=> \A k \in Ids : Orderly(alerts[k], now)
  BY DEF AlertsInOrder, Orderly
<1>2. AlertsInOrder' <=> \A k \in Ids : Orderly(alerts'[k], now')
  BY DEF AlertsInOrder, Orderly
<1>3. now \in Nat /\ \A k \in Ids : alerts[k] \in Seq(1 .. MaxLedger)
  BY DEF Shape
<1>4. CASE UNCHANGED <<alerts, now>>
  BY <1>1, <1>2, <1>4
<1>5. CASE CloseLedger
  <2>1. ASSUME NEW k \in Ids PROVE Orderly(alerts[k], now + 1)
    <3> DEFINE list == alerts[k]
    <3>1. list \in Seq(1 .. MaxLedger) /\ Orderly(list, now)
      BY <1>1, <1>3
    <3> HIDE DEF list
    <3>2. \A i \in DOMAIN list : list[i] \in Nat
      BY <3>1, Elements
    <3>3. Orderly(list, now + 1)
      BY <1>3, <3>1, <3>2 DEF Orderly
    <3> QED
      BY <3>3 DEF list
  <2> QED
    BY <1>2, <1>5, <2>1 DEF CloseLedger, records
<1>6. ASSUME NEW a, NEW S, StoreRegistrations(a, S), now' = now
      PROVE  AlertsInOrder'
  BY <1>1, <1>2, <1>6, EmptyOrderly DEF StoreRegistrations
<1>7. ASSUME NEW a \in Accounts, NEW k \in Ids, DeregisterContract(a, k)
      PROVE  AlertsInOrder'
  BY <1>1, <1>2, <1>7, EmptyOrderly DEF DeregisterContract, Shape
<1>8. ASSUME NEW a \in Accounts, NEW k \in Ids, ReportAlert(a, k)
      PROVE  AlertsInOrder'
  <2>1. alerts' = [alerts EXCEPT ![k] = PushAlert(alerts[k])] /\ now' = now
    BY <1>8 DEF ReportAlert
  <2>2. Orderly(PushAlert(alerts[k]), now)
    BY <1>1, <1>3, PushOrderly
  <2> QED
    BY <1>1, <1>2, <2>1, <2>2 DEF Shape
<1> QED
  BY <1>4, <1>5, <1>6, <1>7, <1>8
     DEF Next, vars, records, Restore, Initialize, RegisterContract, RegisterBatch,
         ReportStatus, Pause, Unpause, SetPaused, ProposeAdmin, AcceptAdmin,
         CancelAdminProposal, GetStatus, GetAlerts, GetMonitoredPage, GetAllMonitored,
         GetInstance, Query

\* Alert lists stay within their bound and in the order of their timestamps,
\* which is what lets get_alerts_since stop at the first alert that is not new.
THEOREM AlertsOrdered == Spec => []AlertsInOrder
<1>1. Init => AlertsInOrder
  BY EmptyOrderly DEF Init, AlertsInOrder, Orderly
<1> QED
  BY <1>1, AlertsStep, ShapeAlways, PTL DEF Spec

\* In an orderly list the alerts newer than t are its end.
LEMMA NewerIsSuffix ==
    ASSUME NEW list \in Seq(1 .. MaxLedger), NEW t \in Nat,
           \A i, j \in DOMAIN list : i <= j => list[i] <= list[j]
    PROVE  \E n \in 0 .. Len(list) :
              /\ {i \in DOMAIN list : list[i] > t} = n + 1 .. Len(list)
              /\ AlertsSince(list, t) = SubSeq(list, n + 1, Len(list))
<1> DEFINE newer == {m \in 0 .. Len(list) : \A i \in m + 1 .. Len(list) : list[i] > t}
           n == CHOOSE m \in newer : \A l \in newer : m <= l
<1>1. DOMAIN list = 1 .. Len(list) /\ Len(list) \in Nat /\ \A i \in DOMAIN list : list[i] \in Nat
  BY Elements
<1>2. newer \in SUBSET Nat /\ Len(list) \in newer
  BY <1>1
<1>3. \E m \in newer : \A l \in newer : m <= l
  <2> HIDE DEF newer
  <2>1. PICK m \in newer : \A l \in newer : ~ (<<l, m>> \in OpToRel(<, Nat))
    BY <1>2, NatLessThanWellFounded, WFMin
  <2>2. \A l \in newer : ~ (l < m)
    BY <1>2, <2>1 DEF OpToRel
  <2> QED
    BY <1>2, <2>2
<1>4. n \in newer /\ \A l \in newer : n <= l
  <2> HIDE DEF newer
  <2> QED
    BY <1>3
<1>5. n \in 0 .. Len(list) /\ \A i \in n + 1 .. Len(list) : list[i] > t
  BY <1>4
<1>6. AlertsSince(list, t) = SubSeq(list, n + 1, Len(list))
  BY DEF AlertsSince
<1>7. ASSUME NEW i \in DOMAIN list, i <= n PROVE ~(list[i] > t)
  <2> HIDE DEF n
  <2>1. SUFFICES ASSUME list[i] > t PROVE FALSE
    OBVIOUS
  <2>2. n \in Nat /\ i \in Nat /\ i - 1 \in 0 .. Len(list) /\ n <= Len(list)
    BY <1>1, <1>5, <1>7
  <2>3. ASSUME NEW j \in (i - 1) + 1 .. Len(list) PROVE list[j] > t
    <3>1. j \in DOMAIN list /\ i <= j
      BY <1>1, <2>2, <2>3
    <3>2. list[i] <= list[j] /\ list[i] \in Nat /\ list[j] \in Nat
      BY <1>1, <3>1
    <3> QED
      BY <2>1, <3>2
  <2>4. i - 1 \in newer
    BY <2>2, <2>3
  <2> HIDE DEF newer
  <2>5. n <= i - 1
    BY <1>4, <2>4
  <2> QED
    BY <1>7, <2>2, <2>5
<1> HIDE DEF n
<1>8. {i \in DOMAIN list : list[i] > t} = n + 1 .. Len(list)
  <2>1. \A i \in DOMAIN list : list[i] > t <=> i \in n + 1 .. Len(list)
    BY <1>1, <1>5, <1>7
  <2>2. \A i \in n + 1 .. Len(list) : i \in DOMAIN list
    BY <1>1, <1>5
  <2> QED
    BY <2>1, <2>2
<1> QED
  BY <1>5, <1>6, <1>8

\* Picking a run of positions is SubSeq.
LEMMA PickedRun ==
    ASSUME NEW S, NEW list \in Seq(S), NEW n \in 0 .. Len(list)
    PROVE  Picked(list, n + 1 .. Len(list)) = SubSeq(list, n + 1, Len(list))
<1> DEFINE P == n + 1 .. Len(list)
<1>1. DOMAIN list = 1 .. Len(list) /\ Len(list) \in Nat /\ n \in Nat /\ n <= Len(list)
  OBVIOUS
<1>2. P \in SUBSET (1 .. Len(list)) /\ Cardinality(P) = Len(list) - n
  <2>1. \A i \in P : i \in 1 .. Len(list)
    BY <1>1
  <2>2. n + 1 \in Int /\ Len(list) \in Int
    BY <1>1
  <2>3. Cardinality(P) = IF n + 1 > Len(list) THEN 0 ELSE Len(list) - (n + 1) + 1
    BY <2>2, FS_Interval
  <2> QED
    BY <1>1, <2>1, <2>3
<1>3. ASSUME NEW m \in 1 .. Cardinality(P) PROVE Nth(P, m) = n + m
  <2>1. n + m \in P
    BY <1>1, <1>2
  <2>2. {j \in P : j <= n + m} = n + 1 .. n + m
    BY <1>1, <1>2
  <2>3. Cardinality({j \in P : j <= n + m}) = m
    <3>1. n + 1 \in Int /\ n + m \in Int /\ m \in Nat /\ m >= 1
      BY <1>1, <1>2
    <3>2. Cardinality(n + 1 .. n + m) = IF n + 1 > n + m THEN 0 ELSE n + m - (n + 1) + 1
      BY <3>1, FS_Interval
    <3>3. ~(n + 1 > n + m) /\ n + m - (n + 1) + 1 = m
      BY <3>1, <1>1
    <3>4. Cardinality(n + 1 .. n + m) = m
      BY <3>2, <3>3
    <3> QED
      BY <2>2, <3>4
  <2> DEFINE rank(i) == Cardinality({j \in P : j <= i})
  <2>4. \A i, k \in P : rank(i) = rank(k) => i = k
    BY <1>1, <1>2, Ranks
  <2>5. rank(n + m) = m
    BY <2>3
  <2>6. Nth(P, m) = CHOOSE i \in P : rank(i) = m
    BY DEF Nth
  <2> HIDE DEF rank, P
  <2> QED
    BY <2>1, <2>4, <2>5, <2>6
<1> HIDE DEF P
<1>4. /\ Picked(list, P) \in Seq(S)
      /\ Len(Picked(list, P)) = Len(list) - n
      /\ \A m \in 1 .. Len(list) - n : Picked(list, P)[m] = list[n + m]
  <2>1. P \in SUBSET (DOMAIN list)
    BY <1>1, <1>2
  <2>2. /\ Picked(list, P) \in Seq(S)
        /\ Len(Picked(list, P)) = Cardinality(P)
        /\ \A m \in 1 .. Cardinality(P) : Picked(list, P)[m] = list[Nth(P, m)]
    BY <2>1, PickedElements
  <2> QED
    BY <1>2, <1>3, <2>2
<1>5. /\ SubSeq(list, n + 1, Len(list)) \in Seq(S)
      /\ Len(SubSeq(list, n + 1, Len(list))) = Len(list) - n
      /\ \A m \in 1 .. Len(list) - n : SubSeq(list, n + 1, Len(list))[m] = list[n + m]
  <2> DEFINE a == n + 1
             b == Len(list)
  <2>1. a \in Int /\ b \in Int /\ \A i \in a .. b : list[i] \in S
    BY <1>1
  <2>2. b - a + 1 = Len(list) - n /\ (~(a <= b) => Len(list) - n = 0)
    <3>1. n \in Int /\ Len(list) \in Int /\ n <= Len(list)
      BY <1>1
    <3> QED
      BY <3>1
  <2>3. \A m \in 1 .. b - a + 1 : a + m - 1 = n + m
    BY <1>1
  <2> HIDE DEF a, b
  <2>4. /\ SubSeq(list, a, b) \in Seq(S)
        /\ Len(SubSeq(list, a, b)) = IF a <= b THEN b - a + 1 ELSE 0
        /\ \A m \in 1 .. b - a + 1 : SubSeq(list, a, b)[m] = list[a + m - 1]
    BY <2>1, SubSeqProperties
  <2>5. Len(SubSeq(list, a, b)) = Len(list) - n
    BY <2>1, <2>2, <2>4
  <2>6. \A m \in 1 .. Len(list) - n : SubSeq(list, a, b)[m] = list[n + m]
    BY <2>2, <2>3, <2>4
  <2> QED
    BY <2>4, <2>5, <2>6 DEF a, b
<1> QED
  BY <1>4, <1>5, SeqEqual DEF P

\* Walking back from the newest alert to the first that is not newer than t
\* returns every alert that is newer than t and no other.
THEOREM SinceFindsAll == Spec => []SinceIsExact
<1>1. Shape /\ AlertsInOrder => SinceIsExact
  <2> SUFFICES ASSUME Shape, AlertsInOrder, NEW k \in Ids, NEW t \in 0 .. MaxLedger
               PROVE  AlertsSince(alerts[k], t) =
                         Picked(alerts[k], {i \in DOMAIN alerts[k] : alerts[k][i] > t})
    BY DEF SinceIsExact
  <2> DEFINE list == alerts[k]
  <2>1. list \in Seq(1 .. MaxLedger) /\ t \in Nat
    BY SizesAssumption DEF Shape
  <2>2. \A i, j \in DOMAIN list : i <= j => list[i] <= list[j]
    BY DEF AlertsInOrder
  <2> HIDE DEF list
  <2>3. PICK n \in 0 .. Len(list) :
              /\ {i \in DOMAIN list : list[i] > t} = n + 1 .. Len(list)
              /\ AlertsSince(list, t) = SubSeq(list, n + 1, Len(list))
    BY <2>1, <2>2, NewerIsSuffix
  <2> QED
    BY <2>1, <2>3, PickedRun DEF list
<1> QED
  BY <1>1, ShapeAlways, AlertsOrdered, PTL

-----------------------------------------------------------------------------
(* Lifetimes                                                               *)

\* What a call does to lifetimes: none gets shorter unless its entry is
\* removed, and what is bumped lasts for another Threshold ledgers.
LEMMA BumpLife ==
    ASSUME Shape, Threshold <= ExtendTo, NEW C, NEW R, NEW B, Bump(C, R, B),
           \A e \in C : until[e] = 0
    PROVE  /\ \A e \in Entries \ R : until'[e] >= until[e]
           /\ \A e \in Entries \ R :
                 e \in B \union {Instance} /\ (until[e] # 0 \/ e \in C)
                 => until'[e] >= now + Threshold
<1>1. /\ now \in Nat \ {0} /\ \A e \in Entries : until[e] \in Nat
      /\ Threshold \in Nat /\ ExtendTo \in Nat /\ MinTtl \in Nat \ {0}
  BY SizesAssumption DEF Shape
<1>2. ASSUME NEW u \in Nat
      PROVE  Extended(u) >= u /\ (u # 0 => Extended(u) >= now + Threshold)
  BY <1>1, <1>2 DEF Extended
<1> SUFFICES ASSUME NEW e \in Entries \ R
             PROVE  /\ until'[e] >= until[e]
                    /\ e \in B \union {Instance} /\ (until[e] # 0 \/ e \in C)
                       => until'[e] >= now + Threshold
  OBVIOUS
<1> DEFINE u == IF e \in C THEN now + MinTtl - 1 ELSE until[e]
<1>3. u \in Nat /\ u >= until[e] /\ (until[e] # 0 \/ e \in C => u # 0)
  BY <1>1
<1>4. until'[e] = IF e \in B \union {Instance} THEN Extended(u) ELSE u
  BY DEF Bump
<1> HIDE DEF u
<1>5. Extended(u) \in Int
  BY <1>1, <1>3 DEF Extended
<1> QED
  BY <1>1, <1>2, <1>3, <1>4, <1>5

\* Contracts that have a record and are read daily.
Watched == Registered \intersect ReadDaily

\* A contract that is read on time: its entries last until the next read is due.
Safe(k) ==
    /\ now <= lastRead[<<"status", k>>] + Threshold
    /\ now <= lastRead[<<"alerts", k>>] + Threshold
    /\ until[Health(k)] >= lastRead[<<"status", k>>] + Threshold
    /\ until[Alerts(k)] >= lastRead[<<"alerts", k>>] + Threshold
    /\ until[Instance] >= lastRead[<<"status", k>>] + Threshold

LifeInv ==
    /\ until[Instance] # 0
    /\ \A k \in Watched : Safe(k)

\* The keys in use.
LEMMA Keys ==
    /\ Instance \in Entries
    /\ \A k \in Ids :
          /\ Health(k) \in Entries /\ Alerts(k) \in Entries
          /\ Health(k) # Instance /\ Alerts(k) # Instance
    /\ \A k, j \in Ids : Health(k) # Alerts(j)
    /\ \A k, j \in Ids : k # j => Health(k) # Health(j) /\ Alerts(k) # Alerts(j)
BY DEF Entries, Instance, Health, Alerts

\* Lifetimes that do not get shorter leave a contract safe.
LEMMA QuietLife ==
    ASSUME Shape, LifeInv, Shape',
           now' = now, lastRead' = lastRead, Registered' \subseteq Registered,
           until'[Instance] >= until[Instance],
           \A k \in Registered' : until'[Health(k)] >= until[Health(k)]
                                  /\ until'[Alerts(k)] >= until[Alerts(k)]
    PROVE  LifeInv'
<1>1. /\ until[Instance] \in Nat /\ until'[Instance] \in Nat
      /\ now \in Nat /\ Threshold \in Nat
  BY Keys, SizesAssumption DEF Shape
<1>2. ASSUME NEW k \in Watched'
      PROVE  /\ now' <= lastRead'[<<"status", k>>] + Threshold
             /\ now' <= lastRead'[<<"alerts", k>>] + Threshold
             /\ until'[Health(k)] >= lastRead'[<<"status", k>>] + Threshold
             /\ until'[Alerts(k)] >= lastRead'[<<"alerts", k>>] + Threshold
             /\ until'[Instance] >= lastRead'[<<"status", k>>] + Threshold
  <2>1. /\ k \in Ids /\ Safe(k) /\ k \in Registered'
        /\ <<"status", k>> \in DailyReads /\ <<"alerts", k>> \in DailyReads
    BY <1>2 DEF LifeInv, Watched, Registered, ReadDaily
  <2>2. /\ lastRead[<<"status", k>>] \in Nat /\ lastRead[<<"alerts", k>>] \in Nat
        /\ until[Health(k)] \in Nat /\ until[Alerts(k)] \in Nat
        /\ until'[Health(k)] \in Nat /\ until'[Alerts(k)] \in Nat
    BY <2>1, Keys DEF Shape
  <2> QED
    BY <1>1, <1>2, <2>1, <2>2 DEF Safe
<1> QED
  BY <1>1, <1>2 DEF LifeInv, Safe

\* A call that bumps what it reads, and creates both entries of the contracts
\* it registers, keeps every contract safe.
LEMMA BumpSafe ==
    ASSUME Shape, LifeInv, Shape', Threshold <= ExtendTo, now' = now,
           NEW C, NEW R, NEW B, NEW S, Bump(C, R, B), NoteRead(S),
           \A e \in C : until[e] = 0,
           \A k \in Watched' :
              /\ Health(k) \notin R /\ Alerts(k) \notin R /\ Instance \notin R
              /\ \/ k \in Registered
                 \/ <<"status", k>> \in S /\ <<"alerts", k>> \in S
              /\ <<"status", k>> \in S =>
                    Health(k) \in B /\ (until[Health(k)] # 0 \/ Health(k) \in C)
              /\ <<"alerts", k>> \in S =>
                    Alerts(k) \in B /\ (until[Alerts(k)] # 0 \/ Alerts(k) \in C),
           Instance \notin R
    PROVE  LifeInv'
<1>1. /\ \A e \in Entries \ R : until'[e] >= until[e]
      /\ \A e \in Entries \ R :
            e \in B \union {Instance} /\ (until[e] # 0 \/ e \in C)
            => until'[e] >= now + Threshold
  BY BumpLife
<1>2. /\ until[Instance] \in Nat \ {0} /\ until'[Instance] \in Nat
      /\ now \in Nat /\ Threshold \in Nat
  BY Keys, SizesAssumption DEF Shape, LifeInv
<1>3. until'[Instance] >= until[Instance] /\ until'[Instance] >= now + Threshold
  BY <1>1, <1>2, Keys
<1>4. ASSUME NEW k \in Watched'
      PROVE  /\ now' <= lastRead'[<<"status", k>>] + Threshold
             /\ now' <= lastRead'[<<"alerts", k>>] + Threshold
             /\ until'[Health(k)] >= lastRead'[<<"status", k>>] + Threshold
             /\ until'[Alerts(k)] >= lastRead'[<<"alerts", k>>] + Threshold
             /\ until'[Instance] >= lastRead'[<<"status", k>>] + Threshold
  <2>1. /\ k \in Ids /\ (k \in Registered => Safe(k))
        /\ <<"status", k>> \in DailyReads /\ <<"alerts", k>> \in DailyReads
    BY DEF LifeInv, Watched, Registered, ReadDaily
  <2>2. /\ lastRead[<<"status", k>>] \in Nat /\ lastRead[<<"alerts", k>>] \in Nat
        /\ until[Health(k)] \in Nat /\ until[Alerts(k)] \in Nat
        /\ until'[Health(k)] \in Nat /\ until'[Alerts(k)] \in Nat
    BY <2>1, Keys DEF Shape
  <2>3. /\ until'[Health(k)] >= until[Health(k)]
        /\ until'[Alerts(k)] >= until[Alerts(k)]
    BY <1>1, <2>1, Keys
  <2>4. \/ <<"status", k>> \notin S /\ Safe(k)
           /\ lastRead'[<<"status", k>>] = lastRead[<<"status", k>>]
        \/ /\ lastRead'[<<"status", k>>] = now
           /\ until'[Health(k)] >= now + Threshold
    BY <1>1, <2>1, Keys DEF NoteRead, LifeInv
  <2>5. \/ <<"alerts", k>> \notin S /\ Safe(k)
           /\ lastRead'[<<"alerts", k>>] = lastRead[<<"alerts", k>>]
        \/ /\ lastRead'[<<"alerts", k>>] = now
           /\ until'[Alerts(k)] >= now + Threshold
    BY <1>1, <2>1, Keys DEF NoteRead, LifeInv
  <2> QED
    BY <1>2, <1>3, <2>2, <2>3, <2>4, <2>5 DEF Safe
<1> QED
  BY <1>2, <1>3, <1>4 DEF LifeInv, Safe

\* Every step keeps all contracts safe.
LEMMA LifeStep ==
    ASSUME Threshold <= ExtendTo
    PROVE  Shape /\ LifeInv /\ [Next]_vars => LifeInv'
<1> SUFFICES ASSUME Shape, LifeInv, [Next]_vars PROVE LifeInv'
  OBVIOUS
<1>1. Shape'
  BY ShapeStep
<1>2. /\ \A e \in Entries : until[e] \in Nat
      /\ now \in Nat \ {0} /\ Threshold \in Nat /\ MinTtl \in Nat \ {0}
      /\ \A r \in DailyReads : lastRead[r] \in Nat
  BY SizesAssumption DEF Shape
<1>3. \A k \in Registered : k \in Ids /\ Health(k) \in Entries /\ Alerts(k) \in Entries
  BY Keys DEF Registered
<1>r. \A k \in Watched : /\ k \in Registered /\ k \in Ids
                          /\ <<"status", k>> \in DailyReads
                          /\ <<"alerts", k>> \in DailyReads
  BY DEF Watched, Registered, ReadDaily
<1>w. Registered' \subseteq Registered => Watched' \subseteq Watched
  BY DEF Watched
<1>4. \A k \in Watched : until[Health(k)] # 0 /\ until[Alerts(k)] # 0
  <2> SUFFICES ASSUME NEW k \in Watched
               PROVE  until[Health(k)] # 0 /\ until[Alerts(k)] # 0
    OBVIOUS
  <2>1. /\ lastRead[<<"status", k>>] \in Nat /\ lastRead[<<"alerts", k>>] \in Nat
        /\ until[Health(k)] \in Nat /\ until[Alerts(k)] \in Nat
    BY <1>2, <1>3, <1>r
  <2> QED
    BY <1>2, <2>1 DEF LifeInv, Safe
<1>5. CASE UNCHANGED vars
  <2>1. Registered' = Registered
    BY <1>5 DEF vars, records, Registered
  <2> QED
    BY <1>1, <1>2, <1>3, <1>5, <2>1, Keys, QuietLife DEF vars
<1>6. CASE CloseLedger
  <2>1. Registered' = Registered /\ until' = until /\ lastRead' = lastRead /\ now' = now + 1
    BY <1>6 DEF CloseLedger, records, Registered
  <2>2. ASSUME NEW k \in Watched
        PROVE  /\ now' <= lastRead[<<"status", k>>] + Threshold
               /\ now' <= lastRead[<<"alerts", k>>] + Threshold
    <3>1. /\ now - lastRead[<<"status", k>>] < Threshold
          /\ now - lastRead[<<"alerts", k>>] < Threshold
          /\ lastRead[<<"status", k>>] \in Nat /\ lastRead[<<"alerts", k>>] \in Nat
      BY <1>2, <1>6, <1>r DEF CloseLedger
    <3> QED
      BY <1>2, <2>1, <3>1
  <2> QED
    BY <1>w, <2>1, <2>2 DEF LifeInv, Safe
<1>7. ASSUME NEW e \in Entries, Restore(e) PROVE LifeInv'
  <2>1. Registered' = Registered /\ now' = now /\ lastRead' = lastRead
    BY <1>7 DEF Restore, records, Registered
  <2>2. \A x \in Entries : until'[x] >= until[x]
    BY <1>2, <1>7 DEF Restore, Shape
  <2> QED
    BY <1>1, <1>3, <2>1, <2>2, Keys, QuietLife
<1>8. ASSUME NEW R, NEW B, Bump({}, R, B), now' = now, lastRead' = lastRead,
             Registered' \subseteq Registered, Instance \notin R,
             \A k \in Registered' : Health(k) \notin R /\ Alerts(k) \notin R
      PROVE  LifeInv'
  <2>1. \A e \in Entries \ R : until'[e] >= until[e]
    BY <1>8, BumpLife
  <2> QED
    BY <1>1, <1>3, <1>8, <2>1, Keys, QuietLife
<1>9. ASSUME NEW a \in Accounts, Initialize(a) PROVE LifeInv'
  <2>1. Registered' = Registered
    BY <1>9 DEF Initialize, Registered
  <2> QED
    BY <1>8, <1>9, <2>1 DEF Initialize
<1>10. ASSUME NEW a, NEW ids \in SUBSET Ids, StoreRegistrations(a, ids), now' = now
       PROVE  LifeInv'
  <2> DEFINE keys == {Health(k) : k \in ids} \union {Alerts(k) : k \in ids}
             C == {e \in keys : until[e] = 0}
             S == {"status", "alerts"} \X ids
  <2>1. Bump(C, {}, keys) /\ NoteRead(S)
    BY <1>10 DEF StoreRegistrations
  <2>2. \A k \in Watched' : k \in Registered \/ k \in ids
    BY <1>10 DEF StoreRegistrations, Registered, Watched
  <2>3. \A k \in Watched' :
           /\ \/ k \in Registered
              \/ <<"status", k>> \in S /\ <<"alerts", k>> \in S
           /\ <<"status", k>> \in S =>
                 Health(k) \in keys /\ (until[Health(k)] # 0 \/ Health(k) \in C)
           /\ <<"alerts", k>> \in S =>
                 Alerts(k) \in keys /\ (until[Alerts(k)] # 0 \/ Alerts(k) \in C)
    BY <2>2
  <2>4. \A e \in C : until[e] = 0
    OBVIOUS
  <2> HIDE DEF keys, C, S
  <2> QED
    BY <1>1, <1>10, <2>1, <2>3, <2>4, BumpSafe
<1>11. ASSUME NEW a \in Accounts, NEW k \in Ids, RegisterContract(a, k)
      PROVE  LifeInv'
  BY <1>10, <1>11 DEF RegisterContract
<1>12. ASSUME NEW a \in Accounts, NEW batch \in Batches, RegisterBatch(a, batch)
       PROVE  LifeInv'
  BY <1>10, <1>12, BatchTargets DEF RegisterBatch
<1>13. ASSUME NEW a \in Accounts, NEW k \in Ids, DeregisterContract(a, k) PROVE LifeInv'
  <2>1. Registered' = Registered \ {k}
    BY <1>13 DEF DeregisterContract, Registered, Shape
  <2>2. /\ Instance \notin {Health(k), Alerts(k)}
        /\ \A j \in Registered' :
              Health(j) \notin {Health(k), Alerts(k)} /\ Alerts(j) \notin {Health(k), Alerts(k)}
    BY <1>3, <2>1, Keys
  <2> QED
    BY <1>8, <1>13, <2>1, <2>2 DEF DeregisterContract
<1>14. ASSUME NEW a \in Accounts, NEW k \in Ids, ReportStatus(a, k) \/ ReportAlert(a, k)
       PROVE  LifeInv'
  <2>1. Registered' \subseteq Registered
    BY <1>14 DEF ReportStatus, ReportAlert, MayChange, Registered, Shape
  <2> QED
    BY <1>8, <1>14, <2>1 DEF ReportStatus, ReportAlert
<1>15. ASSUME NEW a \in Accounts,
              Pause(a) \/ Unpause(a) \/ AcceptAdmin(a) \/ CancelAdminProposal(a)
              \/ \E new \in Accounts : ProposeAdmin(a, new)
       PROVE  LifeInv'
  <2>1. Registered' = Registered /\ now' = now /\ lastRead' = lastRead /\ Bump({}, {}, {})
    BY <1>15
       DEF Pause, Unpause, SetPaused, AcceptAdmin, CancelAdminProposal, ProposeAdmin,
           records, Registered
  <2> QED
    BY <1>8, <2>1
<1>16. ASSUME NEW K, NEW S, Query(K, S),
              \A k \in Ids : /\ <<"status", k>> \in S => Health(k) \in K
                             /\ <<"alerts", k>> \in S => Alerts(k) \in K
       PROVE  LifeInv'
  <2>1. Registered' = Registered /\ now' = now /\ Bump({}, {}, K) /\ NoteRead(S)
    BY <1>16 DEF Query, records, Registered
  <2> QED
    BY <1>1, <1>4, <1>16, <1>r, <2>1, BumpSafe DEF Watched
<1>17. ASSUME NEW k \in Ids, GetStatus(k) PROVE LifeInv'
  BY <1>16, <1>17 DEF GetStatus
<1>18. ASSUME NEW k \in Ids, GetAlerts(k) PROVE LifeInv'
  BY <1>16, <1>18 DEF GetAlerts
<1>19. ASSUME NEW start, NEW limit, GetMonitoredPage(start, limit) PROVE LifeInv'
  BY <1>16, <1>19 DEF GetMonitoredPage
<1>20. CASE GetAllMonitored
  BY <1>19, <1>20 DEF GetAllMonitored
<1>21. CASE GetInstance
  BY <1>16, <1>21 DEF GetInstance
<1> QED
  BY <1>5, <1>6, <1>7, <1>9, <1>11, <1>12, <1>13, <1>14, <1>15, <1>17, <1>18, <1>19,
     <1>20, <1>21
     DEF Next

\* No entry of a monitored contract that is read in both ways at least every
\* Threshold ledgers, nor the instance beside it, is ever archived.
THEOREM ReadDailyLivesOn ==
    ASSUME Threshold <= ExtendTo
    PROVE  Spec => []NothingArchives
<1>1. Init => LifeInv
  BY Keys, SizesAssumption DEF Init, LifeInv, Registered, Watched
<1>2. Shape /\ LifeInv => NothingArchives
  <2> SUFFICES ASSUME Shape, LifeInv, NEW k \in Watched
               PROVE  Usable({Health(k), Alerts(k)})
    BY DEF NothingArchives, Watched
  <2>1. /\ k \in Ids /\ Safe(k)
        /\ <<"status", k>> \in DailyReads /\ <<"alerts", k>> \in DailyReads
    BY DEF LifeInv, Registered, Watched, ReadDaily
  <2>2. /\ lastRead[<<"status", k>>] \in Nat /\ lastRead[<<"alerts", k>>] \in Nat
        /\ until[Health(k)] \in Nat /\ until[Alerts(k)] \in Nat
        /\ until[Instance] \in Nat /\ now \in Nat /\ Threshold \in Nat
    BY <2>1, Keys, SizesAssumption DEF Shape
  <2> QED
    BY <2>1, <2>2 DEF Safe, Usable
<1> QED
  BY <1>1, <1>2, LifeStep, ShapeAlways, PTL DEF Spec
=============================================================================
