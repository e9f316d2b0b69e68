--------------------------- MODULE ColdTierProofs ---------------------------
(***************************************************************************)
(* Theorems about ColdTier, for any events, months, queries, batch and     *)
(* bounds.  Types are correct for any archivers; the other two theorems    *)
(* are about one archiver, and are false of two.                           *)
(***************************************************************************)
EXTENDS ColdTier, FiniteSetTheorems, TLAPS

-----------------------------------------------------------------------------
(* Type correctness                                                        *)

\* The initial state has the types.
LEMMA TypeInit == Init => TypeOK
<1> SUFFICES ASSUME Init PROVE TypeOK
  OBVIOUS
<1>1. (CHOOSE m \in Months : TRUE) \in Months
  BY EventsAssumption
<1>2. job \in [Archivers -> Job]
  BY <1>1 DEF Init, Job
<1>3. NoQuery \in Query
  BY DEF NoQuery, Query
<1> QED
  BY <1>2, <1>3, BoundsAssumption DEF Init, TypeOK

\* Each step keeps the types.
LEMMA TypeStep == TypeOK /\ [Next]_vars => TypeOK'
<1> SUFFICES ASSUME TypeOK, [Next]_vars PROVE TypeOK'
  OBVIOUS
<1>1. CASE Age
  BY <1>1, EventsAssumption DEF TypeOK, Age
<1>2. ASSUME NEW e \in Events, Commit(e) PROVE TypeOK'
  BY <1>2, BoundsAssumption DEF TypeOK, Commit
<1>3. ASSUME NEW a \in Archivers, StartRun(a) PROVE TypeOK'
  BY <1>3 DEF TypeOK, StartRun, Job
<1>4. ASSUME NEW a \in Archivers, ReadPage(a) PROVE TypeOK'
  <2> DEFINE page == PageBefore(job[a].before)
  <2>1. page \in SUBSET Events /\ {Month[e] : e \in page} \in SUBSET Months
    BY EventsAssumption DEF PageBefore, TypeOK
  <2> HIDE DEF page
  <2>2. job' = [job EXCEPT ![a].pc = IF page = {} THEN "idle" ELSE "get",
                           ![a].page = page, ![a].todo = {Month[e] : e \in page}]
    BY <1>4 DEF ReadPage, page
  <2>3. job' \in [Archivers -> Job]
    <3> DEFINE months == {Month[e] : e \in page}
    <3>1. months \in SUBSET Months
      BY <2>1
    <3> HIDE DEF months
    <3> DEFINE step == IF page = {} THEN "idle" ELSE "get"
    <3>2. step \in {"idle", "get"}
      OBVIOUS
    <3>3. job' = [job EXCEPT ![a].pc = step, ![a].page = page, ![a].todo = months]
      BY <2>2 DEF months
    <3> HIDE DEF step
    <3>4. job[a] \in Job
      BY DEF TypeOK
    <3>5. [job[a] EXCEPT !.pc = step, !.page = page, !.todo = months] \in Job
      BY <2>1, <3>1, <3>2, <3>4 DEF Job
    <3>6. job' = [job EXCEPT ![a] = [job[a] EXCEPT !.pc = step, !.page = page,
                                                   !.todo = months]]
      BY <3>3 DEF TypeOK
    <3> QED
      BY <3>5, <3>6 DEF TypeOK
  <2> QED
    BY <1>4, <2>3 DEF TypeOK, ReadPage
<1>5. ASSUME NEW a \in Archivers, NEW m \in Months, GetObject(a, m) PROVE TypeOK'
  <2> DEFINE new == MergeEvents(object[m], {e \in job[a].page : Month[e] = m})
  <2>1. job[a] \in Job
    BY DEF TypeOK
  <2>2. new \in SUBSET Events
    BY <2>1 DEF MergeEvents, TypeOK, Job
  <2>3. job' = [job EXCEPT ![a] = [job[a] EXCEPT !.pc = "put", !.month = m,
                                                 !.merged = new]]
    BY <1>5 DEF GetObject, TypeOK
  <2> HIDE DEF new
  <2>4. [job[a] EXCEPT !.pc = "put", !.month = m, !.merged = new] \in Job
    BY <2>1, <2>2 DEF Job
  <2>5. job' \in [Archivers -> Job]
    BY <2>3, <2>4 DEF TypeOK
  <2> QED
    BY <1>5, <2>5 DEF TypeOK, GetObject
<1>6. ASSUME NEW a \in Archivers, PutObject(a) PROVE TypeOK'
  BY <1>6 DEF TypeOK, PutObject, Job
<1>7. ASSUME NEW a \in Archivers, DeleteRows(a) PROVE TypeOK'
  BY <1>7 DEF TypeOK, DeleteRows, Goto, Job
<1>8. ASSUME NEW a \in Archivers, RunFails(a) PROVE TypeOK'
  BY <1>8, BoundsAssumption DEF TypeOK, RunFails, Fault, Goto, Job
<1>9. ASSUME NEW q \in Queries, Ask(q) PROVE TypeOK'
  <2> DEFINE step == IF Attached THEN "list" ELSE "empty"
  <2>1. PICK range \in SUBSET Events :
          query' = [query EXCEPT ![q] =
                      [NoQuery EXCEPT !.pc = step, !.range = range,
                                      !.had = Stored \intersect range]]
    <3>1. \A lo, hi \in Events : {e \in Events : lo <= e /\ e <= hi} \in SUBSET Events
      OBVIOUS
    <3> QED
      BY <1>9, <3>1 DEF Ask
  <2>2. step \in {"list", "empty"}
    OBVIOUS
  <2> HIDE DEF step
  <2>3. [NoQuery EXCEPT !.pc = step, !.range = range, !.had = Stored \intersect range]
        \in Query
    BY <2>2 DEF NoQuery, Query
  <2> QED
    BY <1>9, <2>1, <2>3 DEF TypeOK, Ask
<1>10. ASSUME NEW q \in Queries, ListObjects(q) PROVE TypeOK'
  <2>1. Keys \in SUBSET Months
    BY DEF Keys
  <2> QED
    BY <1>10, <2>1 DEF TypeOK, ListObjects, Query
<1>11. ASSUME NEW q \in Queries, NEW m \in Months, ReadObject(q, m) PROVE TypeOK'
  <2> DEFINE found == query[q].got \union (object[m] \intersect query[q].range)
             step == IF query[q].todo = {m} THEN "cold" ELSE "read"
             rest == query[q].todo \ {m}
  <2>1. query[q] \in Query /\ step \in {"cold", "read"}
    BY DEF TypeOK
  <2>a. PICK got \in IF query[q].todo = {m} THEN Pages(found) ELSE {found} :
          query' = [query EXCEPT ![q].got = got, ![q].todo = rest, ![q].pc = step]
    BY <1>11 DEF ReadObject
  <2>b. found \in SUBSET Events
    BY <2>1 DEF Query
  <2>2. got \in SUBSET Events /\ rest \in SUBSET Months
    BY <2>1, <2>a, <2>b DEF Query, Pages
  <2>3. query' = [query EXCEPT ![q] = [query[q] EXCEPT !.got = got, !.todo = rest,
                                                       !.pc = step]]
    BY <2>a DEF TypeOK
  <2> HIDE DEF step, rest
  <2>4. [query[q] EXCEPT !.got = got, !.todo = rest, !.pc = step] \in Query
    BY <2>1, <2>2 DEF Query
  <2> QED
    BY <1>11, <2>3, <2>4 DEF TypeOK, ReadObject
<1>12. ASSUME NEW q \in Queries, ReadFails(q) PROVE TypeOK'
  <2>1. query[q] \in Query /\ query' = [query EXCEPT
                                          ![q] = [query[q] EXCEPT !.pc = "failed", !.got = {}]]
    BY <1>12 DEF ReadFails, TypeOK
  <2>2. [query[q] EXCEPT !.pc = "failed", !.got = {}] \in Query
    BY <2>1 DEF Query
  <2> QED
    BY <1>12, <2>1, <2>2, BoundsAssumption DEF TypeOK, ReadFails, Fault
<1>13. CASE UNCHANGED vars
  BY <1>13 DEF TypeOK, vars
<1> QED
  BY <1>1, <1>2, <1>3, <1>4, <1>5, <1>6, <1>7, <1>8, <1>9, <1>10, <1>11, <1>12, <1>13
     DEF Next, JobStep

\* Rows, objects, runs and queries keep their types in every behaviour.
THEOREM TypeCorrect == Spec => []TypeOK
<1>1. Init => TypeOK
  BY TypeInit
<1>2. TypeOK /\ [Next]_vars => TypeOK'
  BY TypeStep
<1> QED
  BY <1>1, <1>2, PTL DEF Spec

-----------------------------------------------------------------------------
(* Nothing is lost                                                         *)

\* What the run has put is in its object, what it is about to put holds the
\* object it replaces and its part of the page; rows go when all is put.
RunInStep(a) ==
    LET j == job[a]
    IN  /\ j.pc = "put" =>
             /\ j.month \in j.todo
             /\ object[j.month] \subseteq j.merged
             /\ {e \in j.page : Month[e] = j.month} \subseteq j.merged
             /\ \A e \in j.merged : Month[e] = j.month
        /\ j.pc \in {"get", "put"} =>
             \A e \in j.page : Month[e] \in j.todo \/ e \in object[Month[e]]
        /\ j.pc = "delete" => \A e \in j.page : e \in object[Month[e]]

\* An object holds events of its own month.
OwnMonth == \A m \in Months : \A e \in object[m] : Month[e] = m

JobInv(a) == TypeOK /\ OwnMonth /\ RunInStep(a)

\* With one archiver, no step takes an event out of an object.
LEMMA ObjectsGrow ==
    ASSUME NEW a, Archivers = {a}, JobInv(a), [Next]_vars
    PROVE  \A m \in Months : object[m] \subseteq object'[m]
<1>1. CASE PutObject(a)
  BY <1>1 DEF PutObject, JobInv, RunInStep, TypeOK
<1>2. CASE object' = object
  BY <1>2
<1>3. object' = object \/ PutObject(a)
  BY DEF Next, JobStep, vars, Age, Commit, StartRun, ReadPage, GetObject, DeleteRows,
         RunFails, Ask, ListObjects, ReadObject, ReadFails
<1> QED
  BY <1>1, <1>2, <1>3

\* Each step of a sole archiver keeps the invariant of its run.
LEMMA JobInvStep ==
    ASSUME NEW a, Archivers = {a}, JobInv(a), [Next]_vars
    PROVE  JobInv(a)'
<1>a. TypeOK' /\ TypeOK /\ a \in Archivers
  BY TypeStep DEF JobInv
<1>b. OwnMonth'
  <2>1. CASE PutObject(a)
    BY <2>1, <1>a DEF PutObject, JobInv, OwnMonth, RunInStep, TypeOK
  <2>2. CASE object' = object
    BY <2>2 DEF JobInv, OwnMonth
  <2>3. object' = object \/ PutObject(a)
    BY DEF Next, JobStep, vars, Age, Commit, StartRun, ReadPage, GetObject, DeleteRows,
           RunFails, Ask, ListObjects, ReadObject, ReadFails
  <2> QED
    BY <2>1, <2>2, <2>3
<1>1. ASSUME UNCHANGED <<object, job>> PROVE RunInStep(a)'
  BY <1>1 DEF JobInv, RunInStep
<1>2. ASSUME job'[a].pc \in {"idle", "read"} PROVE RunInStep(a)'
  BY <1>2 DEF RunInStep
<1>3. ASSUME ReadPage(a) PROVE RunInStep(a)'
  <2>0. PICK page : job' = [job EXCEPT ![a].pc = IF page = {} THEN "idle" ELSE "get",
                                       ![a].page = page,
                                       ![a].todo = {Month[e] : e \in page}]
    BY <1>3 DEF ReadPage
  <2>1. /\ job'[a].pc \in {"idle", "get"}
        /\ \A e \in job'[a].page : Month[e] \in job'[a].todo
    <3>1. job'[a] = [job[a] EXCEPT !.pc = IF page = {} THEN "idle" ELSE "get",
                                   !.page = page, !.todo = {Month[e] : e \in page}]
      BY <2>0, <1>a DEF TypeOK
    <3>2. job[a] \in Job
      BY <1>a DEF TypeOK
    <3>3. job'[a].page = page /\ job'[a].todo = {Month[e] : e \in page}
      BY <3>1, <3>2 DEF Job
    <3>4. job'[a].pc = IF page = {} THEN "idle" ELSE "get"
      BY <3>1, <3>2 DEF Job
    <3> QED
      BY <3>3, <3>4
  <2> QED
    BY <2>1 DEF RunInStep
<1>4. ASSUME NEW m \in Months, GetObject(a, m) PROVE RunInStep(a)'
  <2>1. /\ job[a].pc = "get" /\ job'[a].pc = "put" /\ job'[a].month = m
        /\ m \in job[a].todo
        /\ job'[a].todo = job[a].todo /\ job'[a].page = job[a].page
        /\ job'[a].merged = object[m] \union {e \in job[a].page : Month[e] = m}
        /\ object' = object
    BY <1>4, <1>a DEF GetObject, MergeEvents, TypeOK, Job
  <2> QED
    BY <2>1 DEF RunInStep, JobInv, OwnMonth
<1>5. ASSUME PutObject(a) PROVE RunInStep(a)'
  <2>0. /\ job[a] \in Job
        /\ job'[a] = [job[a] EXCEPT !.todo = job[a].todo \ {job[a].month},
                                    !.pc = IF job[a].todo \subseteq {job[a].month}
                                           THEN "delete" ELSE "get"]
    BY <1>5, <1>a DEF PutObject, TypeOK
  <2>1. /\ job[a].pc = "put" /\ job'[a].pc \in {"get", "delete"}
        /\ job'[a].todo = job[a].todo \ {job[a].month}
        /\ job'[a].page = job[a].page /\ job[a].month \in Months
        /\ job'[a].pc = "delete" => job[a].todo \subseteq {job[a].month}
        /\ object' = [object EXCEPT ![job[a].month] = job[a].merged]
    <3>1. /\ job'[a].todo = job[a].todo \ {job[a].month}
          /\ job'[a].pc = IF job[a].todo \subseteq {job[a].month} THEN "delete" ELSE "get"
          /\ job'[a].page = job[a].page /\ job[a].month \in Months
      BY <2>0 DEF Job
    <3>2. /\ job[a].pc = "put"
          /\ object' = [object EXCEPT ![job[a].month] = job[a].merged]
      BY <1>5 DEF PutObject
    <3>3. CASE job[a].todo \subseteq {job[a].month}
      BY <3>1, <3>2, <3>3, Zenon
    <3>4. CASE ~(job[a].todo \subseteq {job[a].month})
      BY <3>1, <3>2, <3>4
    <3> QED
      BY <3>3, <3>4
  <2>2. \A e \in job[a].page : Month[e] \in Months
    BY <1>a, EventsAssumption DEF TypeOK, Job
  <2>3. \A e \in job[a].page : Month[e] \in job'[a].todo \/ e \in object'[Month[e]]
    BY <2>1, <2>2, <1>a DEF JobInv, RunInStep, TypeOK
  <2> QED
    BY <2>1, <2>3 DEF RunInStep
<1>6. UNCHANGED <<object, job>> \/ ReadPage(a) \/ PutObject(a)
      \/ (\E m \in Months : GetObject(a, m)) \/ StartRun(a) \/ DeleteRows(a) \/ RunFails(a)
  BY DEF Next, JobStep, vars, Age, Commit, Ask, ListObjects, ReadObject, ReadFails
<1>7. StartRun(a) \/ DeleteRows(a) \/ RunFails(a) => job'[a].pc \in {"idle", "read"}
  <2>1. job[a] \in Job
    BY <1>a DEF TypeOK
  <2>2. StartRun(a) => job'[a].pc = "read"
    BY <1>a, <2>1 DEF StartRun, TypeOK, Job
  <2>3. DeleteRows(a) => job'[a].pc \in {"idle", "read"}
    BY <1>a, <2>1 DEF DeleteRows, Goto, TypeOK, Job
  <2>4. RunFails(a) => job'[a].pc = "idle"
    BY <1>a, <2>1 DEF RunFails, Goto, TypeOK, Job
  <2> QED
    BY <2>2, <2>3, <2>4
<1> QED
  BY <1>a, <1>b, <1>1, <1>2, <1>3, <1>4, <1>5, <1>6, <1>7 DEF JobInv

\* The invariant holds at the start: there is no object and no run.
LEMMA JobInvInit ==
    ASSUME NEW a, Archivers = {a}, Init
    PROVE  JobInv(a)
<1>1. TypeOK
  BY TypeInit
<1>2. OwnMonth /\ job[a].pc = "idle"
  BY DEF Init, OwnMonth
<1> QED
  BY <1>1, <1>2 DEF JobInv, RunInStep

\* With one archiver, no step loses an event, whatever fails and whatever is
\* committed meanwhile: what DeleteEventsByID deletes is in the objects.
THEOREM Kept ==
    ASSUME NEW a, Archivers = {a}
    PROVE  Spec => NothingLost
<1>1. Init => JobInv(a)
  BY JobInvInit
<1>2. JobInv(a) /\ [Next]_vars => JobInv(a)'
  BY JobInvStep
<1>3. JobInv(a) /\ [Next]_vars => Stored \subseteq Stored'
  <2> SUFFICES ASSUME JobInv(a), [Next]_vars, NEW e, e \in Stored PROVE e \in Stored'
    OBVIOUS
  <2>1. \A m \in Months : object[m] \subseteq object'[m]
    BY ObjectsGrow
  <2>2. CASE e \in Cold
    BY <2>1, <2>2 DEF Stored, Cold
  <2>3. CASE e \in hot /\ DeleteRows(a)
    <3>1. CASE e \in job[a].page
      <4>1. Month[e] \in Months /\ e \in object[Month[e]]
        BY <2>3, <3>1, EventsAssumption DEF DeleteRows, JobInv, RunInStep, TypeOK
      <4> QED
        BY <2>1, <4>1 DEF Stored, Cold
    <3>2. CASE e \notin job[a].page
      BY <2>3, <3>2 DEF DeleteRows, Stored
    <3> QED
      BY <3>1, <3>2
  <2>4. hot \subseteq hot' \/ DeleteRows(a)
    BY DEF Next, JobStep, vars, Age, Commit, StartRun, ReadPage, GetObject, PutObject,
           RunFails, Ask, ListObjects, ReadObject, ReadFails
  <2> QED
    BY <2>2, <2>3, <2>4 DEF Stored
<1> QED
  BY <1>1, <1>2, <1>3, PTL DEF Spec, NothingLost

-----------------------------------------------------------------------------
(* The objects answer with the oldest page                                 *)

\* What a page leaves out is newer than all of it, and then the page is full.
LEMMA PageLeavesNewer ==
    ASSUME NEW found \in SUBSET Events, NEW page \in Pages(found),
           NEW e \in found, e \notin page
    PROVE  Cardinality(page) = Limit /\ \A f \in page : f < e
<1>1. IsFiniteSet(found) /\ page \subseteq found
  BY EventsAssumption, FS_Subset DEF Pages
<1>2. Cardinality(found) # Cardinality(page)
  BY <1>1, FS_Subset
<1> QED
  BY <1>2 DEF Pages

\* The answer has every event that was to be found, or is a full page of older ones.
Answered(q) ==
    \A e \in query[q].had \ query[q].got :
      Cardinality(query[q].got) = Limit /\ \A f \in query[q].got : f < e

\* What the query is to find is in the objects, and later among what it has
\* read or in an object that it has still to open.
QueryInStep(q) ==
    LET r == query[q]
    IN  /\ r.had \subseteq r.range
        /\ r.pc = "list" => r.got = {} /\ \A e \in r.had : e \in object[Month[e]]
        /\ r.pc = "read" =>
             \A e \in r.had : \/ e \in r.got
                              \/ Month[e] \in r.todo /\ e \in object[Month[e]]
        /\ r.pc = "cold" => Answered(q)

QueriesInStep(a) == JobInv(a) /\ \A q \in Queries : QueryInStep(q)

\* A query that does not move stays in step, for objects only grow.
LEMMA QueryWaits ==
    ASSUME NEW a, Archivers = {a}, QueriesInStep(a), [Next]_vars, NEW q \in Queries,
           query'[q] = query[q]
    PROVE  QueryInStep(q)'
<1>1. \A m \in Months : object[m] \subseteq object'[m]
  BY ObjectsGrow DEF QueriesInStep
<1>2. \A e \in query[q].had : Month[e] \in Months
  BY EventsAssumption DEF QueriesInStep, JobInv, TypeOK, Query
<1>3. \A e \in query[q].had : e \in object[Month[e]] => e \in object'[Month[e]]
  BY <1>1, <1>2
<1> QED
  BY <1>3 DEF QueriesInStep, QueryInStep, Answered

\* Each step of the query keeps it in step.
LEMMA QueryMoves ==
    ASSUME NEW a, Archivers = {a}, QueriesInStep(a), NEW q \in Queries,
           \/ Ask(q) \/ ListObjects(q) \/ ReadFails(q)
           \/ \E m \in Months : ReadObject(q, m)
    PROVE  QueryInStep(q)'
<1>a. TypeOK /\ OwnMonth /\ query[q] \in Query /\ QueryInStep(q)
  BY DEF QueriesInStep, JobInv, TypeOK
<1>1. CASE Ask(q)
  <2>1. PICK lo \in Events, hi \in Events :
          LET range == {e \in Events : lo <= e /\ e <= hi}
          IN  /\ hot \intersect range = {}
              /\ query' = [query EXCEPT ![q] =
                             [NoQuery EXCEPT !.pc = IF Attached THEN "list" ELSE "empty",
                                             !.range = range,
                                             !.had = Stored \intersect range]]
    BY <1>1 DEF Ask
  <2> DEFINE range == {e \in Events : lo <= e /\ e <= hi}
  <2>2. hot \intersect range = {}
    BY <2>1
  <2> HIDE DEF range
  <2>3. /\ query'[q].pc \in {"list", "empty"} /\ query'[q].range = range
        /\ query'[q].had = Stored \intersect range /\ query'[q].got = {}
        /\ object' = object
    BY <1>1, <2>1, <1>a DEF Ask, NoQuery, TypeOK, range
  <2>4. \A e \in Stored \intersect range : e \in object[Month[e]]
    BY <2>2, <1>a DEF Stored, Cold, OwnMonth
  <2> QED
    BY <2>3, <2>4 DEF QueryInStep
<1>2. CASE ListObjects(q)
  <2>1. /\ query[q].pc = "list" /\ query'[q].todo = Keys /\ object' = object
        /\ query'[q].pc = IF Keys = {} THEN "cold" ELSE "read"
        /\ query'[q].had = query[q].had /\ query'[q].range = query[q].range
        /\ query'[q].got = query[q].got
    BY <1>2, <1>a DEF ListObjects, TypeOK, Query
  <2>2. \A e \in query[q].had : Month[e] \in Keys /\ e \in object[Month[e]]
    BY <2>1, <1>a, EventsAssumption DEF QueryInStep, Keys, Query
  <2> QED
    BY <2>1, <2>2, <1>a DEF QueryInStep, Answered
<1>3. ASSUME NEW m \in Months, ReadObject(q, m) PROVE QueryInStep(q)'
  <2> DEFINE found == query[q].got \union (object[m] \intersect query[q].range)
  <2>1. PICK got \in IF query[q].todo = {m} THEN Pages(found) ELSE {found} :
          query' = [query EXCEPT ![q].got = got, ![q].todo = @ \ {m},
                      ![q].pc = IF query[q].todo = {m} THEN "cold" ELSE "read"]
    BY <1>3 DEF ReadObject
  <2>2. /\ query[q].pc = "read" /\ object' = object
        /\ query'[q].todo = query[q].todo \ {m} /\ query'[q].got = got
        /\ query'[q].pc = IF query[q].todo = {m} THEN "cold" ELSE "read"
        /\ query'[q].had = query[q].had /\ query'[q].range = query[q].range
    BY <1>3, <1>a, <2>1 DEF ReadObject, TypeOK, Query
  <2>3. \A e \in query[q].had :
          \/ e \in found
          \/ Month[e] \in query'[q].todo /\ e \in object[Month[e]]
    BY <2>2, <1>a DEF QueryInStep
  <2>4. found \in SUBSET Events
    BY <1>a DEF Query
  <2> HIDE DEF found
  <2>5. CASE query[q].todo = {m}
    <3>1. query'[q].pc = "cold" /\ got \in Pages(found) /\ query[q].had \subseteq found
      BY <2>1, <2>2, <2>3, <2>5
    <3>2. Answered(q)'
      BY <2>2, <2>4, <3>1, PageLeavesNewer DEF Answered
    <3> QED
      BY <2>2, <3>1, <3>2, <1>a DEF QueryInStep
  <2>6. CASE query[q].todo # {m}
    <3>1. query'[q].pc = "read" /\ got = found
      BY <2>1, <2>2, <2>6
    <3> QED
      BY <2>2, <2>3, <3>1, <1>a DEF QueryInStep
  <2> QED
    BY <2>5, <2>6
<1>4. CASE ReadFails(q)
  <2>1. /\ query'[q].pc = "failed"
        /\ query'[q].had = query[q].had /\ query'[q].range = query[q].range
    BY <1>4, <1>a DEF ReadFails, TypeOK, Query
  <2> QED
    BY <2>1, <1>a DEF QueryInStep
<1> QED
  BY <1>1, <1>2, <1>3, <1>4

\* With one archiver, who finds nothing in Postgres and is answered from the
\* objects gets the oldest page of what was stored of the range, although the job
\* writes while they are read: what is missing is newer than all of a full page.
THEOREM AnswersPage ==
    ASSUME NEW a, Archivers = {a}
    PROVE  Spec => []ArchiveAnswersPage
<1>1. Init => QueriesInStep(a)
  BY JobInvInit DEF Init, QueriesInStep, QueryInStep, NoQuery
<1>2. QueriesInStep(a) /\ [Next]_vars => QueriesInStep(a)'
  <2> SUFFICES ASSUME QueriesInStep(a), [Next]_vars PROVE QueriesInStep(a)'
    OBVIOUS
  <2>1. JobInv(a)'
    BY JobInvStep DEF QueriesInStep
  <2>2. ASSUME NEW q \in Queries PROVE QueryInStep(q)'
    <3>1. \/ query'[q] = query[q]
          \/ Ask(q) \/ ListObjects(q) \/ ReadFails(q)
          \/ \E m \in Months : ReadObject(q, m)
      <4>1. query' = query \/ \E r \in Queries :
              \/ Ask(r) \/ ListObjects(r) \/ ReadFails(r)
              \/ \E m \in Months : ReadObject(r, m)
        BY DEF Next, JobStep, vars, Age, Commit, StartRun, ReadPage, GetObject,
               PutObject, DeleteRows, RunFails
      <4>2. ASSUME NEW r \in Queries, r # q,
                   \/ Ask(r) \/ ListObjects(r) \/ ReadFails(r)
                   \/ \E m \in Months : ReadObject(r, m)
            PROVE  query'[q] = query[q]
        BY <4>2 DEF Ask, ListObjects, ReadFails, ReadObject, QueriesInStep, JobInv, TypeOK
      <4> QED
        BY <4>1, <4>2
    <3> QED
      BY <3>1, QueryWaits, QueryMoves
  <2> QED
    BY <2>1, <2>2 DEF QueriesInStep
<1>3. QueriesInStep(a) => ArchiveAnswersPage
  BY DEF QueriesInStep, QueryInStep, Answered, ArchiveAnswersPage
<1> QED
  BY <1>1, <1>2, <1>3, PTL DEF Spec
=============================================================================
