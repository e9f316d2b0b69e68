------------------------------ MODULE ColdTier ------------------------------
(***************************************************************************)
(* The cold tier of events: the archive job (apps/api/cmd/coldarchive,     *)
(* internal/coldstorage/archive.go), which copies old rows from Postgres   *)
(* into one object per month and then deletes them, and the handlers that  *)
(* list events (handler/contracts.go, handler/v2.go), which read the       *)
(* objects when Postgres has nothing for the range.                        *)
(*                                                                         *)
(* Rows and objects are in two systems without a transaction over both.    *)
(* While the job runs, the indexer commits events, old ones too: a         *)
(* backfill, or a parked event that is requeued.  The module is about one  *)
(* contract, for contracts share no object.                                *)
(***************************************************************************)
EXTENDS Naturals, FiniteSets

CONSTANTS
    Events,         \* events of the contract, numbered from oldest to newest
    Months,         \* calendar months
    Month,          \* Month[e]: the month in which the ledger of e closed
    Archivers,      \* archive jobs that may run at the same time
    Queries,        \* requests to list events, handled at the same time
    Batch,          \* rows the job reads at a time
    Attached,       \* whether the handlers have a reader (Handler.Cold)
    Limit,          \* events on a page of an answer
    MaxInserts,     \* how often an event is committed in a behaviour
    Faults,         \* kinds of fault that may happen, see FaultKinds
    MaxFaults       \* how many faults may happen in a behaviour

FaultKinds ==
    { "archive",    \* a call of the job fails, which ends the run, or it crashes
      "read" }      \* an object cannot be read for a query

ASSUME EventsAssumption ==
    /\ Events \subseteq Nat /\ IsFiniteSet(Events)
    /\ Months # {} /\ Month \in [Events -> Months]
ASSUME BoundsAssumption ==
    /\ {Batch, Limit} \subseteq Nat \ {0} /\ Attached \in BOOLEAN
    /\ {MaxInserts, MaxFaults} \subseteq Nat /\ Faults \subseteq FaultKinds

VARIABLES
    hot,            \* rows of the table events
    object,         \* object[m]: events in the object of a month; an object
                    \* that does not exist is empty
    age,            \* the events up to this one are older than the threshold
    job,            \* job[a]: a run of the archive job
    query,          \* query[q]: a request to list events
    inserts,        \* commits so far
    faults          \* faults so far

vars == <<hot, object, age, job, query, inserts, faults>>

Cold == UNION {object[m] : m \in Months}
Stored == hot \union Cold

Job == [pc : {"idle", "read", "get", "put", "delete"}, before : Nat,
        page : SUBSET Events, todo : SUBSET Months, merged : SUBSET Events,
        month : Months]
\* range: what is asked for, had: all of it that was stored when Postgres was
\* asked, got: what is read, and then the answer, which comes from the objects
\* ("cold") or is the empty page of Postgres ("empty", "failed").
Query == [pc : {"idle", "list", "read", "cold", "empty", "failed"}, range : SUBSET Events,
          had : SUBSET Events, todo : SUBSET Months, got : SUBSET Events]

NoQuery == [pc |-> "idle", range |-> {}, had |-> {}, todo |-> {}, got |-> {}]

Init ==
    /\ hot \in SUBSET Events
    /\ object = [m \in Months |-> {}]
    /\ age = 0
    /\ job \in [Archivers ->
                  {[pc |-> "idle", before |-> 0, page |-> {}, todo |-> {},
                    merged |-> {}, month |-> m] : m \in {CHOOSE m \in Months : TRUE}}]
    /\ query = [q \in Queries |-> NoQuery]
    /\ inserts = 0 /\ faults = 0

-----------------------------------------------------------------------------
(* Outside                                                                 *)

\* Time passes: one more event is older than the threshold.
Age ==
    /\ \E e \in Events : e > age /\ age' = e
    /\ UNCHANGED <<hot, object, job, query, inserts, faults>>

\* The indexer commits an event, which may be archived already.
Commit(e) ==
    /\ e \notin hot /\ inserts < MaxInserts
    /\ hot' = hot \union {e}
    /\ inserts' = inserts + 1
    /\ UNCHANGED <<object, age, job, query, faults>>

-----------------------------------------------------------------------------
(* Archiver.Run, for the contract                                          *)

Goto(a, step) == job' = [job EXCEPT ![a].pc = step]

\* ContractsWithEventsBefore.
StartRun(a) ==
    /\ job[a].pc = "idle"
    /\ \E e \in hot : e <= age
    /\ job' = [job EXCEPT ![a].pc = "read", ![a].before = age]
    /\ UNCHANGED <<hot, object, age, query, inserts, faults>>

\* Mutant: events that an object has already are passed over.
PageOfNew(n) ==
    {e \in hot \ Cold : e <= n /\ Cardinality({f \in hot \ Cold : f < e}) < Batch}

\* EventsBefore: the oldest Batch rows before the cutoff of the run.
PageBefore(n) ==
    {e \in hot : e <= n /\ Cardinality({f \in hot : f < e}) < Batch}

ReadPage(a) ==
    /\ job[a].pc = "read"
    /\ LET page == PageBefore(job[a].before)
       IN  job' = [job EXCEPT ![a].pc = IF page = {} THEN "idle" ELSE "get",
                              ![a].page = page,
                              ![a].todo = {Month[e] : e \in page}]
    /\ UNCHANGED <<hot, object, age, query, inserts, faults>>

\* Mutant: the object is replaced by what is exported now.
Replace(existing, incoming) == incoming

MergeEvents(existing, incoming) == existing \union incoming

\* exportByMonth: the months in the order of a map, so in any; Get, merge.
GetObject(a, m) ==
    /\ job[a].pc = "get" /\ m \in job[a].todo
    /\ job' = [job EXCEPT ![a].pc = "put", ![a].month = m,
                 ![a].merged = MergeEvents(object[m], {e \in job[a].page : Month[e] = m})]
    /\ UNCHANGED <<hot, object, age, query, inserts, faults>>

\* Put, then the next month, or on to the rows.
PutObject(a) ==
    /\ job[a].pc = "put"
    /\ object' = [object EXCEPT ![job[a].month] = job[a].merged]
    /\ job' = [job EXCEPT ![a].todo = @ \ {job[a].month},
                          ![a].pc = IF job[a].todo \subseteq {job[a].month}
                                    THEN "delete" ELSE "get"]
    /\ UNCHANGED <<hot, age, query, inserts, faults>>

\* DeleteEventsByID; a full page means that there may be another.
DeleteRows(a) ==
    /\ job[a].pc = "delete"
    /\ hot' = hot \ job[a].page
    /\ Goto(a, IF Cardinality(job[a].page) < Batch THEN "idle" ELSE "read")
    /\ UNCHANGED <<object, age, query, inserts, faults>>

Fault(kind) ==
    /\ kind \in Faults /\ faults < MaxFaults
    /\ faults' = faults + 1

\* Any error ends the run; the next one begins anew.
RunFails(a) ==
    /\ Fault("archive")
    /\ job[a].pc # "idle"
    /\ Goto(a, "idle")
    /\ UNCHANGED <<hot, object, age, query, inserts>>

-----------------------------------------------------------------------------
(* ListEvents and V2ListEvents, with a ledger to start from                *)

\* Store.ListEvents: rows that Postgres has are the answer, even when others of
\* the range are archived.  Without any, the reader is asked, if there is one.
Ask(q) ==
    /\ query[q].pc \in {"idle", "cold", "empty", "failed"}
    /\ \E lo, hi \in Events :
         LET range == {e \in Events : lo <= e /\ e <= hi}
         IN  /\ hot \intersect range = {}
             /\ query' = [query EXCEPT ![q] =
                            [NoQuery EXCEPT !.pc = IF Attached THEN "list" ELSE "empty",
                                            !.range = range,
                                            !.had = Stored \intersect range]]
    /\ UNCHANGED <<hot, object, age, job, inserts, faults>>

\* Mutant: the reader opens one object, that of the month of the first event.
FirstKey == LET there == {m \in Months : object[m] # {}}
            IN  IF there = {} THEN {} ELSE {CHOOSE m \in there : TRUE}

Keys == {m \in Months : object[m] # {}}

\* Reader.Events: List.
ListObjects(q) ==
    /\ query[q].pc = "list"
    /\ query' = [query EXCEPT ![q].todo = Keys,
                              ![q].pc = IF Keys = {} THEN "cold" ELSE "read"]
    /\ UNCHANGED <<hot, object, age, job, inserts, faults>>

\* Sorted and cut: the answer is the oldest Limit of the events found, and has
\* no cursor to the others.
Pages(found) ==
    {page \in SUBSET found :
       /\ Cardinality(page) = IF Cardinality(found) <= Limit
                              THEN Cardinality(found) ELSE Limit
       /\ \A e \in page, f \in found \ page : e < f}

\* Get of one object after the other, while the job may write them; the last
\* one makes the answer.
ReadObject(q, m) ==
    LET found == query[q].got \union (object[m] \intersect query[q].range)
        last == query[q].todo = {m}
    IN  /\ query[q].pc = "read" /\ m \in query[q].todo
        /\ \E got \in IF last THEN Pages(found) ELSE {found} :
             query' = [query EXCEPT ![q].got = got,
                                    ![q].todo = @ \ {m},
                                    ![q].pc = IF last THEN "cold" ELSE "read"]
        /\ UNCHANGED <<hot, object, age, job, inserts, faults>>

\* The error is logged, and the empty page of Postgres is the answer.
ReadFails(q) ==
    /\ Fault("read")
    /\ query[q].pc \in {"list", "read"}
    /\ query' = [query EXCEPT ![q].pc = "failed", ![q].got = {}]
    /\ UNCHANGED <<hot, object, age, job, inserts>>

-----------------------------------------------------------------------------
JobStep(a) ==
    \/ ReadPage(a) \/ (\E m \in Months : GetObject(a, m))
    \/ PutObject(a) \/ DeleteRows(a)

Next ==
    \/ Age \/ \E e \in Events : Commit(e)
    \/ \E a \in Archivers : StartRun(a) \/ JobStep(a) \/ RunFails(a)
    \/ \E q \in Queries :
         \/ Ask(q) \/ ListObjects(q) \/ ReadFails(q)
         \/ \E m \in Months : ReadObject(q, m)

Spec == Init /\ [][Next]_vars

\* A schedule starts the job again and again, and a run goes on.
FairSpec ==
    /\ Spec
    /\ \A a \in Archivers : WF_vars(StartRun(a)) /\ WF_vars(JobStep(a))

-----------------------------------------------------------------------------
(* Properties                                                              *)

TypeOK ==
    /\ hot \subseteq Events
    /\ object \in [Months -> SUBSET Events]
    /\ age \in Nat
    /\ job \in [Archivers -> Job]
    /\ query \in [Queries -> Query]
    /\ inserts \in 0 .. MaxInserts /\ faults \in 0 .. MaxFaults

\* No step of a run loses an event, whatever fails and whatever is committed
\* meanwhile: a row goes only after the object has it, and an object is only
\* replaced by one that holds more.  True of a single job: two of them read,
\* merge and write the same object.
NothingLost == [][Stored \subseteq Stored']_vars

\* Who finds nothing in Postgres gets, from the objects, the oldest page of what
\* was stored of the range, although the job writes and deletes while they are
\* read: an event that is missing is newer than all of a full page, so a request
\* that starts after the page finds it.
ArchiveAnswersPage ==
    \A q \in Queries : query[q].pc = "cold" =>
      \A e \in query[q].had \ query[q].got :
        Cardinality(query[q].got) = Limit /\ \A f \in query[q].got : f < e

\* An event older than the threshold leaves Postgres, however runs fail and
\* whatever its page holds: no page is read for ever.
OldEventsLeave == \A e \in Events : (e \in hot /\ e <= age) ~> e \notin hot
=============================================================================
