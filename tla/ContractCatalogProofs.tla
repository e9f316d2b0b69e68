----------------------- MODULE ContractCatalogProofs -----------------------
(***************************************************************************)
(* Theorems about ContractCatalog, for any contracts, hashes, requests and *)
(* bounds, and, but for the last two, any pollers.                         *)
(***************************************************************************)
EXTENDS ContractCatalog, FiniteSetTheorems, TLAPS

-----------------------------------------------------------------------------
(* Type correctness                                                        *)

\* The initial state has the types.
LEMMA TypeInit == Init => TypeOK
<1> SUFFICES ASSUME Init PROVE TypeOK
  OBVIOUS
<1>1. \A h \in Hashes : <<h>> \in Seq(Hashes) /\ <<h>> # <<>>
  OBVIOUS
<1>2. code \in [Contracts -> Seq(Hashes)] /\ \A c \in Contracts : code[c] # <<>>
  BY <1>1 DEF Init
<1>3. <<>> \in Seq(Upgrade)
  OBVIOUS
<1>4. upgrades \in [Contracts -> Seq(Upgrade)]
  BY <1>3 DEF Init
<1>5. NoJob \in Job /\ NoRequest \in Request
  BY DEF Job, Request, NoJob, NoRequest, MaybeHash
<1> QED
  BY <1>2, <1>4, <1>5, BoundsAssumption DEF Init, TypeOK

\* What the code of a contract was stays on record, and it is never empty.
LEMMA CodeGrows ==
    ASSUME TypeOK, [Next]_vars
    PROVE  \A c \in Contracts :
             /\ code'[c] \in Seq(Hashes) /\ code'[c] # <<>>
             /\ \A i \in DOMAIN code[c] : i \in DOMAIN code'[c] /\ code'[c][i] = code[c][i]
<1>1. ASSUME NEW k \in Contracts, ReplaceCode(k), NEW c \in Contracts
      PROVE  /\ code'[c] \in Seq(Hashes) /\ code'[c] # <<>>
             /\ \A i \in DOMAIN code[c] : i \in DOMAIN code'[c] /\ code'[c][i] = code[c][i]
  <2>1. PICK h \in Hashes : code' = [code EXCEPT ![k] = Append(@, h)]
    BY <1>1 DEF ReplaceCode
  <2>2. code[c] \in Seq(Hashes) /\ code[c] # <<>>
    BY DEF TypeOK
  <2>3. CASE c # k
    BY <2>1, <2>2, <2>3 DEF TypeOK
  <2>4. CASE c = k
    <3>1. code'[c] = Append(code[c], h)
      BY <2>1, <2>4 DEF TypeOK
    <3>2. /\ Append(code[c], h) \in Seq(Hashes) /\ Append(code[c], h) # <<>>
          /\ Len(Append(code[c], h)) = Len(code[c]) + 1
          /\ DOMAIN code[c] = 1 .. Len(code[c])
          /\ \A i \in 1 .. Len(code[c]) : Append(code[c], h)[i] = code[c][i]
      BY <2>2
    <3>3. DOMAIN Append(code[c], h) = 1 .. Len(code[c]) + 1 /\ Len(code[c]) \in Nat
      BY <2>2, <3>2
    <3> QED
      BY <3>1, <3>2, <3>3
  <2> QED
    BY <2>3, <2>4
<1>2. CASE code' = code
  BY <1>2 DEF TypeOK
<1>3. code' = code \/ \E k \in Contracts : ReplaceCode(k)
  BY DEF Next, vars, Activate, Register, Untrack, BeginPass, CrashPoller, CheckStep,
         ReadEntry, InsertUpgrade, UpdateHash, UpdateNothing, LookUpCode, FetchCode,
         StoreCode, CheckFails, Build, SaveVerdict, VerifyFails, Submit
<1> QED
  BY <1>1, <1>2, <1>3

\* The hash of a row, and the code a contract runs.
LEMMA HashTypes ==
    ASSUME TypeOK, NEW c \in Contracts
    PROVE  /\ Hash(c) \in MaybeHash
           /\ Current(c) \in Hashes
           /\ Len(code[c]) \in DOMAIN code[c] /\ Len(code[c]) \in Nat
<1>1. code[c] \in Seq(Hashes) /\ code[c] # <<>>
  BY DEF TypeOK
<1>2. Len(code[c]) \in Nat \ {0} /\ DOMAIN code[c] = 1 .. Len(code[c])
  BY <1>1
<1> QED
  BY <1>1, <1>2 DEF TypeOK, Hash, Tracked, Current, Row, MaybeHash

\* A step of checkWasmHash leaves the job in one of its states.
LEMMA JobTypes ==
    ASSUME TypeOK, NEW p \in Pollers, NEW c \in Contracts
    PROVE  /\ job[p][c] \in Job
           /\ NoJob \in Job
           /\ \A step \in {"idle", "entry", "insert", "update", "lookup", "code", "store"} :
                Goto(p, c, step) => job' \in [Pollers -> [Contracts -> Job]]
           /\ EndJob(p, c) => job' \in [Pollers -> [Contracts -> Job]]
<1>1. job[p][c] \in Job /\ NoJob \in Job
  BY DEF TypeOK, NoJob, Job, MaybeHash
<1>2. ASSUME NEW step \in {"idle", "entry", "insert", "update", "lookup", "code", "store"},
             Goto(p, c, step)
      PROVE  job' \in [Pollers -> [Contracts -> Job]]
  <2>1. [job[p][c] EXCEPT !.pc = step] \in Job
    BY <1>1 DEF Job
  <2> QED
    BY <1>2, <2>1 DEF TypeOK, Goto
<1>3. EndJob(p, c) => job' \in [Pollers -> [Contracts -> Job]]
  BY <1>1 DEF TypeOK, EndJob
<1> QED
  BY <1>1, <1>2, <1>3

\* Each step keeps the types.
LEMMA TypeStep == TypeOK /\ [Next]_vars => TypeOK'
<1> SUFFICES ASSUME TypeOK, [Next]_vars PROVE TypeOK'
  OBVIOUS
<1>1. ASSUME NEW c \in Contracts, ReplaceCode(c) PROVE TypeOK'
  <2>1. \A k \in Contracts : code'[k] \in Seq(Hashes) /\ code'[k] # <<>>
    BY CodeGrows
  <2>2. code' \in [Contracts -> Seq(Hashes)]
    BY <1>1, <2>1 DEF TypeOK, ReplaceCode
  <2> QED
    BY <1>1, <2>1, <2>2 DEF TypeOK, ReplaceCode, db
<1>2. ASSUME NEW c \in Contracts, Activate(c) PROVE TypeOK'
  BY <1>2 DEF TypeOK, Activate, Row, Tracked
<1>3. ASSUME NEW c \in Contracts, Register(c) PROVE TypeOK'
  BY <1>3, BoundsAssumption DEF TypeOK, Register, Row, MaybeHash
<1>4. ASSUME NEW c \in Contracts, Untrack(c) PROVE TypeOK'
  BY <1>4, BoundsAssumption DEF TypeOK, Untrack
<1>5. ASSUME NEW p \in Pollers, BeginPass(p) PROVE TypeOK'
  <2>1. \A k \in Contracts : [NoJob EXCEPT !.pc = "entry", !.known = Hash(k)] \in Job
    BY HashTypes DEF NoJob, Job, MaybeHash
  <2>2. job' \in [Pollers -> [Contracts -> Job]]
    BY <1>5, <2>1 DEF TypeOK, BeginPass
  <2> QED
    BY <1>5, <2>2 DEF TypeOK, BeginPass, db
<1>6. ASSUME NEW p \in Pollers, CrashPoller(p) PROVE TypeOK'
  BY <1>6, BoundsAssumption DEF TypeOK, CrashPoller, Fault, Job, NoJob, MaybeHash, db
<1>7. ASSUME NEW p \in Pollers, NEW c \in Contracts, ReadEntry(p, c) PROVE TypeOK'
  <2>1. AfterEntry(job[p][c].known, Current(c)) \in {"update", "lookup", "insert"}
    BY DEF AfterEntry
  <2>2. job[p][c] \in Job /\ Current(c) \in MaybeHash /\ Len(code[c]) \in Nat
    BY HashTypes, JobTypes DEF MaybeHash
  <2>3. [pc |-> AfterEntry(job[p][c].known, Current(c)), known |-> job[p][c].known,
         seen |-> Current(c), at |-> Len(code[c])] \in Job
    BY <2>1, <2>2 DEF Job
  <2> QED
    BY <1>7, <2>3 DEF TypeOK, ReadEntry, db
<1>8. ASSUME NEW p \in Pollers, NEW c \in Contracts, InsertUpgrade(p, c) PROVE TypeOK'
  <2>1. [from |-> job[p][c].known, to |-> job[p][c].seen, at |-> job[p][c].at] \in Upgrade
    BY JobTypes DEF Upgrade, Job
  <2>2. upgrades[c] \in Seq(Upgrade)
    BY DEF TypeOK
  <2>3. upgrades' \in [Contracts -> Seq(Upgrade)]
    BY <1>8, <2>1, <2>2 DEF TypeOK, InsertUpgrade
  <2>4. job' \in [Pollers -> [Contracts -> Job]]
    BY <1>8, JobTypes DEF InsertUpgrade
  <2> QED
    BY <1>8, <2>3, <2>4 DEF TypeOK, InsertUpgrade
<1>9. ASSUME NEW p \in Pollers, NEW c \in Contracts, UpdateHash(p, c) PROVE TypeOK'
  <2>1. job' \in [Pollers -> [Contracts -> Job]]
    BY <1>9, JobTypes DEF UpdateHash
  <2>2. row[c] \in Row /\ job[p][c].seen \in MaybeHash
    BY <1>9, JobTypes DEF TypeOK, UpdateHash, Tracked, Job
  <2>3. [row[c] EXCEPT !.hash = job[p][c].seen] \in Row
    BY <2>2 DEF Row
  <2> QED
    BY <1>9, <2>1, <2>3 DEF TypeOK, UpdateHash
<1>10. ASSUME NEW p \in Pollers, NEW c \in Contracts,
              UpdateNothing(p, c) \/ LookUpCode(p, c) \/ FetchCode(p, c) \/ CheckFails(p, c)
       PROVE  TypeOK'
  <2>1. job' \in [Pollers -> [Contracts -> Job]]
    BY <1>10, JobTypes DEF UpdateNothing, LookUpCode, FetchCode, CheckFails
  <2>2. /\ UNCHANGED <<code, db, request, writes>>
        /\ faults' \in 0 .. MaxFaults
    BY <1>10, BoundsAssumption
       DEF TypeOK, UpdateNothing, LookUpCode, FetchCode, CheckFails, Fault
  <2> QED
    BY <2>1, <2>2 DEF TypeOK, db
<1>11. ASSUME NEW p \in Pollers, NEW c \in Contracts, StoreCode(p, c) PROVE TypeOK'
  <2>1. job' \in [Pollers -> [Contracts -> Job]]
    BY <1>11, JobTypes DEF StoreCode
  <2>2. job[p][c].seen \in MaybeHash
    BY JobTypes DEF Job
  <2> QED
    BY <1>11, <2>1, <2>2 DEF TypeOK, StoreCode
<1>12. ASSUME NEW r \in Requests, NEW c \in Contracts, Submit(r, c) PROVE TypeOK'
  <2>1. [pc |-> IF row[c].hash = NoHash THEN "save" ELSE "build",
         contract |-> c, hash |-> row[c].hash, compiled |-> NoHash] \in Request
    BY <1>12, HashTypes DEF Request, Submit, Hash, Tracked, MaybeHash
  <2> QED
    BY <1>12, <2>1, BoundsAssumption DEF TypeOK, Submit, db
<1>13. ASSUME NEW r \in Requests, Build(r) PROVE TypeOK'
  <2>1. PICK h \in MaybeHash :
           request' = [request EXCEPT ![r].pc = "save", ![r].compiled = h]
    BY <1>13 DEF Build
  <2>2. request[r] \in Request
    BY DEF TypeOK
  <2>3. [request[r] EXCEPT !.pc = "save", !.compiled = h] \in Request
    BY <2>2 DEF Request
  <2>4. request' \in [Requests -> Request]
    BY <2>1, <2>3 DEF TypeOK
  <2> QED
    BY <1>13, <2>4 DEF TypeOK, Build, db
<1>14. ASSUME NEW r \in Requests, SaveVerdict(r) PROVE TypeOK'
  <2>1. VerdictOf(request[r]) \in Verdict
    BY DEF TypeOK, VerdictOf, Verdict, Request
  <2> QED
    BY <1>14, <2>1 DEF TypeOK, SaveVerdict, Request, NoRequest, MaybeHash
<1>15. ASSUME NEW r \in Requests, VerifyFails(r) PROVE TypeOK'
  BY <1>15, BoundsAssumption DEF TypeOK, VerifyFails, Fault, Request, NoRequest, MaybeHash, db
<1>16. CASE UNCHANGED vars
  BY <1>16 DEF TypeOK, vars, db
<1> QED
  BY <1>1, <1>2, <1>3, <1>4, <1>5, <1>6, <1>7, <1>8, <1>9, <1>10, <1>11, <1>12, <1>13,
     <1>14, <1>15, <1>16 DEF Next, CheckStep

\* Every variable keeps its type (database, jobs of checkWasmHash, handlers).
THEOREM TypeCorrect == Spec => []TypeOK
<1> QED
  BY TypeInit, TypeStep, PTL DEF Spec

-----------------------------------------------------------------------------
(* What was read stays true: a hash once observed is in the history of the *)
(* contract, however late it is used.                                      *)

Ran(c, h) == \E i \in DOMAIN code[c] : code[c][i] = h

RowRan == \A c \in Contracts : Hash(c) # NoHash => Ran(c, Hash(c))

\* What a job knows of c, and the entry it read.
GoodJob(c, j) ==
    /\ j.known # NoHash => Ran(c, j.known)
    /\ j.pc \notin {"idle", "entry"} => j.at \in DOMAIN code[c] /\ code[c][j.at] = j.seen
    /\ j.pc = "insert" => j.known # j.seen /\ RanBefore(c, j.known, j.at)

JobsRan == \A p \in Pollers, c \in Contracts : GoodJob(c, job[p][c])

RequestsRan ==
    \A r \in Requests : request[r].pc # "idle" =>
        /\ request[r].contract \in Contracts
        /\ request[r].hash # NoHash => Ran(request[r].contract, request[r].hash)

GoodUpgrade(c, u) ==
    /\ u.at \in DOMAIN code[c] /\ code[c][u.at] = u.to
    /\ u.from # u.to /\ RanBefore(c, u.from, u.at)

HistoryInv ==
    TypeOK /\ RowRan /\ JobsRan /\ RequestsRan /\ UpgradesAreTrue /\ VerifiedDidRun

\* A contract that has run some code has run it for good.
LEMMA HistoryStays ==
    ASSUME TypeOK, [Next]_vars, NEW c \in Contracts
    PROVE  /\ \A h : Ran(c, h) => Ran(c, h)'
           /\ \A j \in Job : GoodJob(c, j) => GoodJob(c, j)'
           /\ \A u \in Upgrade : GoodUpgrade(c, u) => GoodUpgrade(c, u)'
<1>1. /\ code[c] \in Seq(Hashes) /\ code'[c] \in Seq(Hashes)
      /\ \A i \in DOMAIN code[c] : i \in DOMAIN code'[c] /\ code'[c][i] = code[c][i]
  BY CodeGrows DEF TypeOK
<1>2. \A h : Ran(c, h) => Ran(c, h)'
  BY <1>1 DEF Ran
<1>3. ASSUME NEW h, NEW n \in DOMAIN code[c], RanBefore(c, h, n) PROVE RanBefore(c, h, n)'
  BY <1>1, <1>3 DEF RanBefore
<1>4. ASSUME NEW j \in Job, GoodJob(c, j) PROVE GoodJob(c, j)'
  <2>1. j.known # NoHash => Ran(c, j.known)'
    BY <1>2, <1>4 DEF GoodJob
  <2>2. j.pc \notin {"idle", "entry"} => j.at \in DOMAIN code'[c] /\ code'[c][j.at] = j.seen
    BY <1>1, <1>4 DEF GoodJob
  <2>3. j.pc = "insert" => j.known # j.seen /\ RanBefore(c, j.known, j.at)'
    BY <1>3, <1>4 DEF GoodJob
  <2> QED
    BY <2>1, <2>2, <2>3 DEF GoodJob
<1>5. ASSUME NEW u \in Upgrade, GoodUpgrade(c, u) PROVE GoodUpgrade(c, u)'
  BY <1>1, <1>3, <1>5 DEF GoodUpgrade
<1> QED
  BY <1>2, <1>4, <1>5

\* What may become of the hash of a row.
LEMMA RowMoves ==
    ASSUME TypeOK, [Next]_vars, NEW c \in Contracts
    PROVE  \/ Hash(c)' = Hash(c) \/ Hash(c)' = NoHash
           \/ \E p \in Pollers : UpdateHash(p, c)
<1>1. CASE row' = row
  BY <1>1 DEF Hash, Tracked
<1>2. ASSUME NEW k \in Contracts, Register(k) \/ Untrack(k)
      PROVE  Hash(c)' = Hash(c) \/ Hash(c)' = NoHash
  BY <1>2 DEF Register, Untrack, Hash, Tracked, TypeOK
<1>3. ASSUME NEW k \in Contracts, Activate(k)
      PROVE  Hash(c)' = Hash(c) \/ Hash(c)' = NoHash
  BY <1>3 DEF Activate, Hash, Tracked, TypeOK, Row
<1>4. ASSUME NEW p \in Pollers, NEW k \in Contracts, k # c, UpdateHash(p, k)
      PROVE  Hash(c)' = Hash(c)
  BY <1>4 DEF UpdateHash, Hash, Tracked, TypeOK
<1>5. \/ row' = row
      \/ \E k \in Contracts : Register(k) \/ Untrack(k) \/ Activate(k)
      \/ \E p \in Pollers, k \in Contracts : UpdateHash(p, k)
  BY DEF Next, vars, db, ReplaceCode, BeginPass, CrashPoller, CheckStep, ReadEntry,
         InsertUpgrade, UpdateNothing, LookUpCode, FetchCode, StoreCode, CheckFails,
         Build, SaveVerdict, VerifyFails, Submit
<1> QED
  BY <1>1, <1>2, <1>3, <1>4, <1>5

\* The hash of a row changes only to nothing, or to what a job saw.
LEMMA RowStep == HistoryInv /\ [Next]_vars => RowRan'
<1> SUFFICES ASSUME HistoryInv, [Next]_vars, NEW c \in Contracts, Hash(c)' # NoHash
             PROVE  Ran(c, Hash(c))'
  BY DEF RowRan
<1>1. CASE Hash(c)' = Hash(c)
  BY <1>1, HistoryStays DEF HistoryInv, RowRan
<1>2. ASSUME NEW p \in Pollers, UpdateHash(p, c) PROVE Ran(c, Hash(c))'
  <2>1. Hash(c)' = job[p][c].seen
    BY <1>2 DEF HistoryInv, TypeOK, UpdateHash, Hash, Tracked, Row
  <2>2. Ran(c, job[p][c].seen)
    BY <1>2 DEF HistoryInv, JobsRan, GoodJob, UpdateHash, Ran
  <2> QED
    BY <2>1, <2>2, HistoryStays DEF HistoryInv
<1> QED
  BY <1>1, <1>2, RowMoves DEF HistoryInv

\* What may become of a job.
LEMMA JobMoves ==
    ASSUME TypeOK, [Next]_vars, NEW p \in Pollers, NEW c \in Contracts
    PROVE  \/ job'[p][c] = job[p][c] \/ job'[p][c] = NoJob
           \/ BeginPass(p) \/ ReadEntry(p, c) \/ InsertUpgrade(p, c) \/ UpdateHash(p, c)
           \/ \E step \in {"code", "store"} :
                Goto(p, c, step) /\ job[p][c].pc \in {"lookup", "code"}
<1>1. ASSUME NEW q \in Pollers, BeginPass(q) \/ CrashPoller(q), q # p PROVE job'[p][c] = job[p][c]
  BY <1>1 DEF BeginPass, CrashPoller, TypeOK
<1>2. CASE CrashPoller(p)
  BY <1>2 DEF CrashPoller, TypeOK
<1>3. ASSUME NEW q \in Pollers, NEW k \in Contracts, q # p \/ k # c,
             CheckStep(q, k) \/ CheckFails(q, k)
      PROVE  job'[p][c] = job[p][c]
  BY <1>3 DEF CheckStep, CheckFails, ReadEntry, InsertUpgrade, UpdateHash, UpdateNothing,
              LookUpCode, FetchCode, StoreCode, Goto, EndJob, TypeOK
<1>4. CASE CheckStep(p, c) \/ CheckFails(p, c)
  <2>1. EndJob(p, c) => job'[p][c] = NoJob
    BY DEF EndJob, TypeOK
  <2> QED
    BY <1>4, <2>1 DEF CheckStep, CheckFails, InsertUpgrade, UpdateHash, UpdateNothing,
                      LookUpCode, FetchCode, StoreCode
<1>5. \/ job' = job
      \/ \E q \in Pollers : BeginPass(q) \/ CrashPoller(q)
      \/ \E q \in Pollers, k \in Contracts : CheckStep(q, k) \/ CheckFails(q, k)
  BY DEF Next, vars, ReplaceCode, Activate, Register, Untrack,
         Build, SaveVerdict, VerifyFails, Submit
<1> QED
  BY <1>1, <1>2, <1>3, <1>4, <1>5

\* One job changes at a time, or all of a process; each stays good.
LEMMA JobsStep == HistoryInv /\ [Next]_vars => JobsRan'
<1> SUFFICES ASSUME HistoryInv, [Next]_vars, NEW p \in Pollers, NEW c \in Contracts
             PROVE  GoodJob(c, job[p][c])'
  BY DEF JobsRan
<1>a. PICK j : j = job[p][c]
  OBVIOUS
<1>b. PICK new : new = job'[p][c]
  OBVIOUS
<1>0. j \in Job /\ GoodJob(c, j) /\ GoodJob(c, j)'
  BY <1>a, HistoryStays, JobTypes DEF HistoryInv, JobsRan
<1> USE <1>a, <1>b
<1>1. CASE new = j
  BY <1>0, <1>1
<1>2. CASE new = NoJob
  BY <1>2 DEF NoJob, GoodJob
<1>3. CASE BeginPass(p)
  <2>1. new = j \/ new = [NoJob EXCEPT !.pc = "entry", !.known = Hash(c)]
    BY <1>3 DEF BeginPass, HistoryInv, TypeOK
  <2>2. PICK h : h = Hash(c)
    OBVIOUS
  <2>3. h # NoHash => Ran(c, h)'
    BY <2>2, HistoryStays DEF HistoryInv, RowRan
  <2>4. ASSUME new = [NoJob EXCEPT !.pc = "entry", !.known = h] PROVE GoodJob(c, new)'
    <3>1. new.pc = "entry" /\ new.known = h
      BY <2>4 DEF NoJob
    <3> QED
      BY <3>1, <2>3 DEF GoodJob
  <2> QED
    BY <1>1, <2>1, <2>2, <2>4
<1>4. CASE ReadEntry(p, c)
  <2>1. /\ new.pc = AfterEntry(j.known, Current(c)) /\ new.known = j.known
        /\ new.seen = Current(c) /\ new.at = Len(code[c])
        /\ code' = code
    BY <1>4 DEF ReadEntry, HistoryInv, TypeOK
  <2>2. /\ Len(code[c]) \in DOMAIN code[c] /\ Len(code[c]) \in Nat
        /\ DOMAIN code[c] = 1 .. Len(code[c])
    BY HashTypes DEF HistoryInv, TypeOK
  <2>3. ASSUME j.known # NoHash, j.known # Current(c)
        PROVE  RanBefore(c, j.known, Len(code[c]))
    <3>1. PICK i \in DOMAIN code[c] : code[c][i] = j.known
      BY <1>0, <2>3 DEF GoodJob, Ran
    <3>2. i \in 1 .. Len(code[c]) - 1
      BY <2>2, <2>3, <3>1 DEF Current
    <3> QED
      BY <3>1, <3>2 DEF RanBefore
  <2>4. GoodJob(c, new)
    BY <1>0, <2>1, <2>2, <2>3 DEF GoodJob, AfterEntry, Current
  <2> QED
    BY <2>1, <2>4 DEF GoodJob, Ran, RanBefore
<1>5. ASSUME NEW step \in {"update", "lookup", "code", "store"}, Goto(p, c, step),
             j.pc \notin {"idle", "entry"}
      PROVE  GoodJob(c, new)'
  <2>1. new = [j EXCEPT !.pc = step]
    BY <1>5 DEF Goto, HistoryInv, TypeOK
  <2>2. /\ new.pc = step /\ new.known = j.known
        /\ new.seen = j.seen /\ new.at = j.at
    BY <1>0, <2>1 DEF Job
  <2> QED
    BY <1>0, <1>5, <2>2 DEF GoodJob
<1>6. \/ new = j \/ new = NoJob \/ BeginPass(p) \/ ReadEntry(p, c)
      \/ \E step \in {"update", "lookup", "code", "store"} :
            Goto(p, c, step) /\ j.pc \notin {"idle", "entry"}
  <2>1. \/ new = j \/ new = NoJob
        \/ BeginPass(p) \/ ReadEntry(p, c) \/ InsertUpgrade(p, c) \/ UpdateHash(p, c)
        \/ \E step \in {"code", "store"} :
             Goto(p, c, step) /\ j.pc \in {"lookup", "code"}
    BY JobMoves DEF HistoryInv
  <2> QED
    BY <2>1 DEF InsertUpgrade, UpdateHash
<1> QED
  <2>1. GoodJob(c, new)'
    BY <1>1, <1>2, <1>3, <1>4, <1>5, <1>6
  <2> QED
    BY <2>1, <1>b DEF GoodJob

\* A handler keeps what it read when the request came in.
LEMMA RequestsStep == HistoryInv /\ [Next]_vars => RequestsRan'
<1> SUFFICES ASSUME HistoryInv, [Next]_vars, NEW r \in Requests, request'[r].pc # "idle"
             PROVE  /\ request'[r].contract \in Contracts
                    /\ request'[r].hash # NoHash
                         => Ran(request[r].contract, request[r].hash)'
  BY DEF RequestsRan
<1>1. CASE /\ request[r].pc # "idle" /\ request'[r].contract = request[r].contract
           /\ request'[r].hash = request[r].hash
  <2>1. PICK c, h : c = request[r].contract /\ h = request[r].hash
    OBVIOUS
  <2>2. c \in Contracts /\ (h # NoHash => Ran(c, h)')
    BY <1>1, <2>1, HistoryStays DEF HistoryInv, RequestsRan
  <2> QED
    BY <1>1, <2>1, <2>2 DEF Ran
<1>2. ASSUME NEW c \in Contracts, Submit(r, c)
      PROVE  /\ request'[r].contract \in Contracts
             /\ request'[r].hash # NoHash
                  => Ran(request[r].contract, request[r].hash)'
  <2>1. request'[r].contract = c /\ request'[r].hash = Hash(c) /\ code' = code
    BY <1>2 DEF Submit, HistoryInv, TypeOK, Hash
  <2> QED
    BY <2>1 DEF HistoryInv, RowRan, Ran
<1>3. \/ /\ request[r].pc # "idle" /\ request'[r].contract = request[r].contract
         /\ request'[r].hash = request[r].hash
      \/ \E c \in Contracts : Submit(r, c)
  <2>1. CASE request' = request
    BY <2>1
  <2>2. ASSUME NEW q \in Requests, NEW c \in Contracts, q # r, Submit(q, c)
        PROVE  request'[r] = request[r]
    BY <2>2 DEF Submit, HistoryInv, TypeOK
  <2>3. ASSUME NEW q \in Requests, q # r, Build(q) \/ SaveVerdict(q) \/ VerifyFails(q)
        PROVE  request'[r] = request[r]
    BY <2>3 DEF Build, SaveVerdict, VerifyFails, HistoryInv, TypeOK
  <2>4. CASE SaveVerdict(r) \/ VerifyFails(r)
    BY <2>4 DEF SaveVerdict, VerifyFails, NoRequest, HistoryInv, TypeOK
  <2>5. CASE Build(r)
    BY <2>5 DEF Build, Request, HistoryInv, TypeOK
  <2>6. \/ request' = request
        \/ \E q \in Requests : \/ Build(q) \/ SaveVerdict(q) \/ VerifyFails(q)
                               \/ \E c \in Contracts : Submit(q, c)
    BY DEF Next, vars, ReplaceCode, Activate, Register, Untrack, BeginPass, CrashPoller,
           CheckStep, ReadEntry, InsertUpgrade, UpdateHash, UpdateNothing, LookUpCode,
           FetchCode, StoreCode, CheckFails
  <2> QED
    BY <2>1, <2>2, <2>3, <2>4, <2>5, <2>6
<1> QED
  BY <1>1, <1>2, <1>3

\* What may become of the upgrades of a contract.
LEMMA UpgradeMoves ==
    ASSUME TypeOK, [Next]_vars, NEW c \in Contracts
    PROVE  \/ upgrades'[c] = upgrades[c] \/ Untrack(c)
           \/ \E p \in Pollers : InsertUpgrade(p, c)
<1>1. ASSUME NEW k \in Contracts, k # c, Untrack(k) PROVE upgrades'[c] = upgrades[c]
  BY <1>1 DEF Untrack, TypeOK
<1>2. ASSUME NEW p \in Pollers, NEW k \in Contracts, k # c, InsertUpgrade(p, k)
    PROVE  upgrades'[c] = upgrades[c]
  BY <1>2 DEF InsertUpgrade, TypeOK
<1>3. \/ upgrades' = upgrades
      \/ \E k \in Contracts : Untrack(k)
      \/ \E p \in Pollers, k \in Contracts : InsertUpgrade(p, k)
  BY DEF Next, vars, db, ReplaceCode, Activate, Register, BeginPass, CrashPoller,
       CheckStep, ReadEntry, UpdateHash, UpdateNothing, LookUpCode, FetchCode,
       StoreCode, CheckFails, Build, SaveVerdict, VerifyFails, Submit
<1> QED
  BY <1>1, <1>2, <1>3

\* An upgrade is written from what its job read, which is still true.
LEMMA UpgradesStep == HistoryInv /\ [Next]_vars => UpgradesAreTrue'
<1> SUFFICES ASSUME HistoryInv, [Next]_vars, NEW c \in Contracts,
                    NEW i \in DOMAIN upgrades'[c]
             PROVE  GoodUpgrade(c, upgrades[c][i])'
  BY DEF UpgradesAreTrue, GoodUpgrade
<1>a. upgrades[c] \in Seq(Upgrade)
  BY DEF HistoryInv, TypeOK
<1>b. PICK new : new = upgrades'[c][i]
  OBVIOUS
<1>1. CASE i \in DOMAIN upgrades[c] /\ upgrades'[c][i] = upgrades[c][i]
  <2>1. new \in Upgrade /\ GoodUpgrade(c, new)
    BY <1>1, <1>a, <1>b DEF HistoryInv, UpgradesAreTrue, GoodUpgrade
  <2>2. GoodUpgrade(c, new)'
    BY <2>1, HistoryStays DEF HistoryInv
  <2> QED
    BY <2>2, <1>b DEF GoodUpgrade
<1>2. ASSUME NEW p \in Pollers, InsertUpgrade(p, c) PROVE GoodUpgrade(c, upgrades[c][i])'
  <2> DEFINE u == [from |-> job[p][c].known, to |-> job[p][c].seen, at |-> job[p][c].at]
  <2>1. u \in Upgrade
    BY JobTypes DEF Upgrade, Job, HistoryInv
  <2>2. GoodUpgrade(c, u)
    BY <1>2 DEF InsertUpgrade, HistoryInv, JobsRan, GoodJob, GoodUpgrade
  <2>3. upgrades'[c] = Append(upgrades[c], u) /\ code' = code
    BY <1>2 DEF InsertUpgrade, HistoryInv, TypeOK
  <2>4. upgrades'[c][i] = u \/ (i \in DOMAIN upgrades[c] /\ upgrades'[c][i] = upgrades[c][i])
    <3> HIDE DEF u
    <3> QED
      BY <1>a, <2>1, <2>3
  <2>5. CASE upgrades'[c][i] = u
    <3>1. PICK v : v = u
      OBVIOUS
    <3>2. GoodUpgrade(c, v)
      BY <2>2, <3>1
    <3>3. GoodUpgrade(c, v)'
      BY <3>2, <2>3 DEF GoodUpgrade, RanBefore
    <3>4. v = upgrades'[c][i]
      BY <2>5, <3>1
    <3> QED
      BY <3>3, <3>4 DEF GoodUpgrade
  <2> QED
    BY <1>1, <2>4, <2>5
<1>3. CASE upgrades'[c] = upgrades[c] \/ upgrades'[c] = <<>>
  BY <1>1, <1>3
<1>4. Untrack(c) => upgrades'[c] = <<>>
  BY DEF Untrack, HistoryInv, TypeOK
<1> QED
  BY <1>2, <1>3, <1>4, UpgradeMoves DEF HistoryInv

\* A verdict is written from what its handler read, which is still true.
LEMMA VerdictStep == HistoryInv /\ [Next]_vars => VerifiedDidRun'
<1> SUFFICES ASSUME HistoryInv, [Next]_vars, NEW c \in Contracts,
                    verdict'[c] # None, verdict'[c].matched
             PROVE  verdict'[c].compiled = verdict'[c].hash /\ Ran(c, verdict[c].hash)'
  BY DEF VerifiedDidRun, Ran
<1>1. CASE verdict'[c] = verdict[c]
  <2>1. PICK h : h = verdict[c].hash
    OBVIOUS
  <2>2. verdict[c].compiled = h /\ Ran(c, h)
    BY <1>1, <2>1 DEF HistoryInv, VerifiedDidRun, Ran
  <2>3. Ran(c, h)'
    BY <2>2, HistoryStays DEF HistoryInv
  <2> QED
    BY <1>1, <2>1, <2>2, <2>3 DEF Ran
<1>2. ASSUME NEW r \in Requests, SaveVerdict(r), request[r].contract = c,
             verdict'[c] = VerdictOf(request[r])
      PROVE  verdict'[c].compiled = verdict'[c].hash /\ Ran(c, verdict[c].hash)'
  <2>1. /\ request[r].compiled # NoHash /\ request[r].compiled = request[r].hash
        /\ verdict'[c].hash = request[r].hash /\ verdict'[c].compiled = request[r].compiled
    <3>1. VerdictOf(request[r]).matched
      BY <1>2
    <3>2. request[r].compiled # NoHash /\ request[r].compiled = request[r].hash
      BY ONLY <3>1, Zenon DEF VerdictOf
    <3> QED
      BY <1>2, <3>2 DEF VerdictOf
  <2>2. Ran(c, request[r].hash) /\ code' = code
    BY <1>2, <2>1 DEF SaveVerdict, HistoryInv, RequestsRan
  <2> QED
    BY <2>1, <2>2 DEF Ran
<1>3. \/ verdict'[c] = verdict[c] \/ verdict'[c] = None
      \/ \E r \in Requests : /\ SaveVerdict(r) /\ request[r].contract = c
                             /\ verdict'[c] = VerdictOf(request[r])
  <2>1. ASSUME NEW k \in Contracts, Untrack(k)
        PROVE  verdict'[c] = verdict[c] \/ verdict'[c] = None
    BY <2>1 DEF Untrack, HistoryInv, TypeOK
  <2>2. ASSUME NEW r \in Requests, SaveVerdict(r)
        PROVE  \/ verdict'[c] = verdict[c]
               \/ request[r].contract = c /\ verdict'[c] = VerdictOf(request[r])
    BY <2>2 DEF SaveVerdict, HistoryInv, TypeOK
  <2>3. \/ verdict' = verdict
        \/ \E k \in Contracts : Untrack(k)
        \/ \E r \in Requests : SaveVerdict(r)
    BY DEF Next, vars, db, ReplaceCode, Activate, Register, BeginPass, CrashPoller,
           CheckStep, ReadEntry, InsertUpgrade, UpdateHash, UpdateNothing, LookUpCode,
           FetchCode, StoreCode, CheckFails, Build, VerifyFails, Submit
  <2> QED
    BY <2>1, <2>2, <2>3
<1> QED
  BY <1>1, <1>2, <1>3

LEMMA HistoryInit == Init => HistoryInv
<1> SUFFICES ASSUME Init PROVE HistoryInv
  OBVIOUS
<1>1. TypeOK
  BY TypeInit
<1>2. RowRan /\ RequestsRan
  BY DEF Init, RowRan, Hash, Tracked, RequestsRan, NoRequest
<1>3. UpgradesAreTrue /\ VerifiedDidRun
  BY DEF Init, UpgradesAreTrue, VerifiedDidRun
<1>4. ASSUME NEW p \in Pollers, NEW c \in Contracts PROVE GoodJob(c, job[p][c])
  <2>1. job[p][c] = NoJob
    BY DEF Init
  <2> QED
    BY <2>1 DEF GoodJob, NoJob
<1> QED
  BY <1>1, <1>2, <1>3, <1>4 DEF HistoryInv, JobsRan

LEMMA HistoryInvariant == Spec => []HistoryInv
<1>1. Init => HistoryInv
  BY HistoryInit
<1>2. HistoryInv /\ [Next]_vars => HistoryInv'
  <2> SUFFICES ASSUME HistoryInv, [Next]_vars PROVE HistoryInv'
    OBVIOUS
  <2>1. TypeOK'
    BY TypeStep DEF HistoryInv
  <2> QED
    BY <2>1, RowStep, JobsStep, RequestsStep, UpgradesStep, VerdictStep DEF HistoryInv
<1> QED
  BY <1>1, <1>2, PTL DEF Spec

\* The rows InsertContractUpgrade writes name hashes the contract did run, in
\* the order it ran them, with any number of pollers and whatever fails.
THEOREM UpgradesTrue == Spec => []UpgradesAreTrue
<1>1. HistoryInv => UpgradesAreTrue
  BY DEF HistoryInv
<1> QED
  BY <1>1, HistoryInvariant, PTL

\* A contract that VerifyContract stored as verified did run that binary.
THEOREM VerifiedTrue == Spec => []VerifiedDidRun
<1>1. HistoryInv => VerifiedDidRun
  BY DEF HistoryInv
<1> QED
  BY <1>1, HistoryInvariant, PTL

-----------------------------------------------------------------------------
(* A single poller                                                         *)

\* The row still holds what the job knows, or was emptied, until the job
\* writes it; by then the upgrade is on record.
JobInStep(p, c) ==
    /\ job[p][c].pc \in {"entry", "insert", "update"} /\ Hash(c) # NoHash
         => Hash(c) = job[p][c].known
    /\ job[p][c].pc = "update" /\ Hash(c) # NoHash
         => \E i \in DOMAIN upgrades[c] :
              upgrades[c][i].from = job[p][c].known /\ upgrades[c][i].to = job[p][c].seen

InStep == TypeOK /\ \A p \in Pollers, c \in Contracts : JobInStep(p, c)

LEMMA InStepStep ==
    ASSUME NEW p, Pollers = {p}, InStep, [Next]_vars
    PROVE  InStep'
<1> SUFFICES ASSUME NEW c \in Contracts PROVE JobInStep(p, c)'
  BY TypeStep DEF InStep
<1> USE DEF InStep
<1>a. /\ job[p][c] \in Job /\ job' \in [Pollers -> [Contracts -> Job]]
      /\ upgrades[c] \in Seq(Upgrade) /\ p \in Pollers
  BY JobTypes, TypeStep DEF TypeOK
<1>b. JobInStep(p, c)
  OBVIOUS
\* The rows on record stay, unless the hash goes with them.
<1>c. ASSUME NEW i \in DOMAIN upgrades[c], Hash(c)' # NoHash
      PROVE  i \in DOMAIN upgrades'[c] /\ upgrades'[c][i] = upgrades[c][i]
  <2>1. CASE upgrades'[c] = upgrades[c]
    BY <2>1
  <2>2. ~Untrack(c)
    BY <1>c DEF Untrack, Hash, Tracked, TypeOK
  <2>3. ASSUME InsertUpgrade(p, c)
        PROVE  i \in DOMAIN upgrades'[c] /\ upgrades'[c][i] = upgrades[c][i]
    <3> DEFINE u == [from |-> job[p][c].known, to |-> job[p][c].seen, at |-> job[p][c].at]
    <3>1. u \in Upgrade /\ upgrades'[c] = Append(upgrades[c], u)
      BY <2>3, <1>a DEF InsertUpgrade, TypeOK, Upgrade, Job
    <3> HIDE DEF u
    <3> QED
      BY <3>1, <1>a
  <2> QED
    BY <2>1, <2>2, <2>3, UpgradeMoves
<1>1. CASE job'[p][c] = job[p][c] /\ Hash(c)' \in {Hash(c), NoHash}
  BY <1>1, <1>b, <1>c DEF JobInStep
<1>2. CASE job'[p][c] = NoJob
  BY <1>2 DEF NoJob, JobInStep
<1>3. ASSUME BeginPass(p), job'[p][c] # job[p][c] PROVE JobInStep(p, c)'
  <2>1. /\ job'[p][c].pc = "entry" /\ job'[p][c].known = Hash(c)
        /\ Hash(c)' = Hash(c)
    BY <1>3, <1>a DEF BeginPass, NoJob, TypeOK, Hash, Tracked, db
  <2> QED
    BY <2>1 DEF JobInStep
<1>4. CASE ReadEntry(p, c)
  <2>1. /\ job'[p][c].pc = AfterEntry(job[p][c].known, Current(c))
        /\ job'[p][c].known = job[p][c].known /\ job[p][c].pc = "entry"
        /\ Hash(c)' = Hash(c)
    BY <1>4, <1>a DEF ReadEntry, TypeOK, Hash, Tracked, db
  <2> QED
    BY <2>1, <1>b DEF JobInStep, AfterEntry
<1>5. CASE InsertUpgrade(p, c)
  <2> DEFINE u == [from |-> job[p][c].known, to |-> job[p][c].seen, at |-> job[p][c].at]
  <2>1. u \in Upgrade /\ upgrades'[c] = Append(upgrades[c], u)
    BY <1>5, <1>a DEF InsertUpgrade, TypeOK, Upgrade, Job
  <2>2. \E i \in DOMAIN upgrades'[c] : upgrades'[c][i] = u
    <3> HIDE DEF u
    <3>1. /\ Len(upgrades[c]) \in Nat
          /\ DOMAIN Append(upgrades[c], u) = 1 .. Len(upgrades[c]) + 1
          /\ Append(upgrades[c], u)[Len(upgrades[c]) + 1] = u
      BY <2>1, <1>a
    <3> QED
      BY <2>1, <3>1
  <2>3. /\ job'[p][c].known = job[p][c].known /\ job'[p][c].seen = job[p][c].seen
        /\ job[p][c].pc = "insert" /\ Hash(c)' = Hash(c)
    BY <1>5, <1>a DEF InsertUpgrade, Goto, TypeOK, Job, Hash, Tracked
  <2> QED
    BY <2>2, <2>3, <1>b DEF JobInStep
<1>6. ASSUME NEW step \in {"lookup", "code", "store"}, Goto(p, c, step)
      PROVE  JobInStep(p, c)'
  <2>1. job'[p][c].pc = step
    BY <1>6, <1>a DEF Goto, TypeOK, Job
  <2> QED
    BY <2>1 DEF JobInStep
<1>7. UpdateHash(p, c) => Goto(p, c, "lookup")
  BY DEF UpdateHash
<1> QED
  BY <1>1, <1>2, <1>3, <1>4, <1>5, <1>6, <1>7, <1>a, JobMoves, RowMoves

\* With one poller, the hash that checkWasmHash keeps is never replaced before
\* InsertContractUpgrade has recorded that very change.
THEOREM HashMoves ==
    ASSUME NEW p, Pollers = {p}
    PROVE  Spec => HashMovesByUpgrade
<1>1. Init => InStep
  <2> SUFFICES ASSUME Init, NEW c \in Contracts PROVE JobInStep(p, c)
    BY TypeInit DEF InStep
  <2>1. job[p][c] = NoJob
    BY DEF Init
  <2> QED
    BY <2>1 DEF NoJob, JobInStep
<1>2. InStep /\ [Next]_vars => InStep'
  BY InStepStep
<1>3. InStep /\ [Next]_vars => \A c \in Contracts : ChangeOnRecord(c)
  <2> SUFFICES ASSUME InStep, [Next]_vars, NEW c \in Contracts, Hash(c) # NoHash,
                      Hash(c)' \notin {NoHash, Hash(c)}
               PROVE  \E i \in DOMAIN upgrades[c] :
                        upgrades[c][i].from = Hash(c) /\ upgrades[c][i].to = Hash(c)'
    BY DEF ChangeOnRecord
  <2>1. UpdateHash(p, c)
    BY RowMoves DEF InStep
  <2>2. Hash(c)' = job[p][c].seen /\ job[p][c].pc = "update"
    BY <2>1 DEF UpdateHash, Hash, Tracked, InStep, TypeOK, Row
  <2> QED
    BY <2>2 DEF InStep, JobInStep
<1> QED
  BY <1>1, <1>2, <1>3, PTL DEF Spec, HashMovesByUpgrade

-----------------------------------------------------------------------------
(* The history repeats itself only after a fault.  An upgrade on record    *)
(* may be inserted again only while the row still holds the hash it starts *)
(* from and the code it leads to is the current one.  That is so between   *)
(* the two calls of the pass that inserted it, and afterwards only if that *)
(* pass broke off there: whoever registers the contract again makes the    *)
(* next pass begin at the current code, where no upgrade on record starts. *)

\* How often u is in the rows s.
Copies(s, u) == Cardinality({j \in DOMAIN s : s[j] = u})

\* The row the job inserts, or has inserted.
JobRow(p, c) == [from |-> job[p][c].known, to |-> job[p][c].seen, at |-> job[p][c].at]

\* u may be inserted by this pass, or by a later one.
MayCome(p, c, u) ==
    \/ job[p][c].pc = "insert" /\ u = JobRow(p, c)
    \/ /\ u.at >= Len(code[c])
       /\ \/ /\ job[p][c].pc = "entry"
             /\ job[p][c].known # NoHash /\ u.from = job[p][c].known
          \/ /\ Hash(c) # NoHash /\ u.from = Hash(c)
             /\ ~(job[p][c].pc = "update" /\ u = JobRow(p, c))

\* No row on record is of later code than the entry that the job read.
RowsRead(p, c) ==
    job[p][c].pc \notin {"idle", "entry"} =>
        \A i \in DOMAIN upgrades[c] : upgrades[c][i].at <= job[p][c].at

OnceInv ==
    /\ HistoryInv
    /\ \A p \in Pollers, c \in Contracts :
         /\ RowsRead(p, c)
         /\ \A u \in Upgrade :
              /\ Copies(upgrades[c], u) <= 1 + faults
              /\ MayCome(p, c, u) => Copies(upgrades[c], u) <= faults

\* One more row is one more copy of it, and of no other.
LEMMA CopiesAppend ==
    ASSUME NEW S, NEW s \in Seq(S), NEW u \in S, NEW v \in S
    PROVE  /\ Copies(s, u) \in Nat
           /\ Copies(<<>>, u) = 0
           /\ Copies(Append(s, v), u) = IF u = v THEN Copies(s, u) + 1 ELSE Copies(s, u)
<1> DEFINE At(t) == {j \in DOMAIN t : t[j] = u}
<1>1. /\ Len(s) \in Nat /\ DOMAIN s = 1 .. Len(s)
      /\ DOMAIN Append(s, v) = 1 .. Len(s) + 1
      /\ Append(s, v)[Len(s) + 1] = v
      /\ \A j \in 1 .. Len(s) : Append(s, v)[j] = s[j]
  OBVIOUS
<1>2. IsFiniteSet(At(s)) /\ Cardinality(At(s)) \in Nat
  <2>1. IsFiniteSet(1 .. Len(s))
    BY <1>1, FS_Interval
  <2>2. At(s) \subseteq 1 .. Len(s)
    BY <1>1
  <2> QED
    BY <2>1, <2>2, FS_Subset, FS_CardinalityType
<1>3. At(<<>>) = {}
  OBVIOUS
<1>4. CASE u = v
  <2>1. At(Append(s, v)) = At(s) \union {Len(s) + 1} /\ Len(s) + 1 \notin At(s)
    BY <1>1, <1>4
  <2>2. Cardinality(At(s) \union {Len(s) + 1}) = Cardinality(At(s)) + 1
    BY <1>2, <2>1, FS_AddElement
  <2> QED
    BY <1>2, <1>3, <1>4, <2>1, <2>2, FS_EmptySet DEF Copies
<1>5. CASE u # v
  <2>1. At(Append(s, v)) = At(s)
    BY <1>1, <1>5
  <2> QED
    BY <1>2, <1>3, <1>5, <2>1, FS_EmptySet DEF Copies
<1> QED
  BY <1>4, <1>5

\* A job that ends before it has written the hash of its row: the row has none
\* to write, or something failed.
LEMMA UpdateEnds ==
    ASSUME TypeOK, [Next]_vars, NEW p \in Pollers, NEW c \in Contracts,
           job[p][c].pc = "update", job'[p][c] = NoJob
    PROVE  Hash(c) = NoHash \/ faults' = faults + 1
<1>1. job' # job
  BY DEF NoJob
<1>2. ASSUME NEW q \in Pollers, CrashPoller(q) PROVE faults' = faults + 1
  BY <1>2 DEF CrashPoller, Fault
<1>3. ASSUME NEW q \in Pollers, NEW k \in Contracts, CheckFails(q, k)
      PROVE  faults' = faults + 1
  BY <1>3 DEF CheckFails, Fault
<1>4. ASSUME NEW q \in Pollers, BeginPass(q) PROVE FALSE
  <2>1. q # p
    BY <1>4 DEF BeginPass
  <2>2. job'[p] = job[p]
    BY <1>4, <2>1 DEF BeginPass, TypeOK
  <2>3. NoJob.pc = "idle"
    BY DEF NoJob
  <2> QED
    BY <2>2, <2>3
<1>5. ASSUME NEW q \in Pollers, NEW k \in Contracts, CheckStep(q, k)
      PROVE  Hash(c) = NoHash
  <2>0. NoJob.pc = "idle"
    BY DEF NoJob
  <2>1. q = p /\ k = c
    <3>1. CASE q # p \/ k # c
      <4>1. job'[p][c] = job[p][c]
        BY <1>5, <3>1 DEF CheckStep, ReadEntry, InsertUpgrade, UpdateHash, UpdateNothing,
                          LookUpCode, FetchCode, StoreCode, Goto, EndJob, TypeOK
      <4> QED
        BY <2>0, <4>1
    <3> QED
      BY <3>1
  <2>2. ~UpdateHash(p, c)
    BY DEF UpdateHash, Goto, TypeOK, NoJob, Job
  <2>3. UpdateNothing(p, c)
    BY <1>5, <2>1, <2>2 DEF CheckStep, ReadEntry, InsertUpgrade, LookUpCode,
                            FetchCode, StoreCode
  <2> QED
    BY <2>3 DEF UpdateNothing, Hash
<1>6. \/ job' = job
      \/ \E q \in Pollers : BeginPass(q) \/ CrashPoller(q)
      \/ \E q \in Pollers, k \in Contracts : CheckStep(q, k) \/ CheckFails(q, k)
  BY DEF Next, vars, ReplaceCode, Activate, Register, Untrack,
         Build, SaveVerdict, VerifyFails, Submit
<1> QED
  BY <1>1, <1>2, <1>3, <1>4, <1>5, <1>6

\* Faults are counted and never forgotten.
LEMMA FaultsCount == TypeOK /\ [Next]_vars => faults' \in {faults, faults + 1}
BY DEF Next, vars, ReplaceCode, Activate, Register, Untrack, BeginPass, CrashPoller,
       CheckStep, ReadEntry, InsertUpgrade, UpdateHash, UpdateNothing, LookUpCode,
       FetchCode, StoreCode, CheckFails, Build, SaveVerdict, VerifyFails, Submit, Fault

\* InsertUpgrade adds the row of its job, and the job goes on to the update.
LEMMA RowAppended ==
    ASSUME TypeOK, NEW p \in Pollers, NEW c \in Contracts, InsertUpgrade(p, c)
    PROVE  /\ JobRow(p, c) \in Upgrade
           /\ upgrades'[c] = Append(upgrades[c], JobRow(p, c))
           /\ job'[p][c].pc = "update" /\ JobRow(p, c)' = JobRow(p, c)
           /\ job'[p][c].at = job[p][c].at
           /\ faults' = faults /\ code' = code /\ Hash(c)' = Hash(c)
<1>1. job[p][c] \in Job
  BY JobTypes
<1>2. /\ JobRow(p, c) \in Upgrade
      /\ upgrades'[c] = Append(upgrades[c], JobRow(p, c))
      /\ faults' = faults /\ code' = code /\ Hash(c)' = Hash(c)
  BY <1>1 DEF InsertUpgrade, JobRow, TypeOK, Upgrade, Job, Hash, Tracked
<1>3. /\ job'[p][c].pc = "update" /\ JobRow(p, c)' = JobRow(p, c)
      /\ job'[p][c].at = job[p][c].at
  BY <1>1 DEF InsertUpgrade, Goto, JobRow, TypeOK, Job
<1> QED
  BY <1>2, <1>3

\* What a step does to the rows of a contract, with one poller.
LEMMA RowsMove ==
    ASSUME NEW p, Pollers = {p}, TypeOK, [Next]_vars, NEW c \in Contracts
    PROVE  \/ upgrades'[c] = upgrades[c] /\ ~InsertUpgrade(p, c)
           \/ upgrades'[c] = <<>>
           \/ InsertUpgrade(p, c)
<1>1. Untrack(c) => upgrades'[c] = <<>>
  BY DEF Untrack, TypeOK
<1> QED
  BY <1>1, UpgradeMoves

\* The chain only adds code, and ReadEntry reads the last.
LEMMA RowsReadStep ==
    ASSUME NEW p, Pollers = {p}, HistoryInv, [Next]_vars, NEW c \in Contracts,
           RowsRead(p, c)
    PROVE  RowsRead(p, c)'
<1>a. /\ TypeOK /\ p \in Pollers /\ job[p][c] \in Job
      /\ upgrades[c] \in Seq(Upgrade)
  BY JobTypes DEF HistoryInv, TypeOK
<1>b. \A i \in DOMAIN upgrades[c] :
        upgrades[c][i].at \in Nat /\ upgrades[c][i].at <= Len(code[c])
  <2>1. DOMAIN code[c] = 1 .. Len(code[c]) /\ Len(code[c]) \in Nat
    BY <1>a DEF TypeOK
  <2> QED
    BY <2>1 DEF HistoryInv, UpgradesAreTrue
\* The rows that are read later: those on record, or one more.
<1>1. CASE InsertUpgrade(p, c)
  <2>1. PICK v \in Upgrade : v = JobRow(p, c)
    BY <1>a, <1>1, RowAppended
  <2>2. /\ upgrades'[c] = Append(upgrades[c], v) /\ v.at = job[p][c].at
        /\ job'[p][c].at = job[p][c].at /\ job[p][c].pc = "insert"
    BY <1>a, <1>1, <2>1, RowAppended DEF InsertUpgrade, JobRow
  <2>3. \A i \in DOMAIN upgrades'[c] :
          upgrades'[c][i] = v \/ (i \in DOMAIN upgrades[c] /\ upgrades'[c][i] = upgrades[c][i])
    BY <1>a, <2>1, <2>2
  <2>4. job[p][c].at \in Nat
    BY <1>a DEF Job
  <2> QED
    BY <2>2, <2>3, <2>4 DEF RowsRead
<1>2. ASSUME upgrades'[c] = upgrades[c] \/ upgrades'[c] = <<>>
      PROVE  RowsRead(p, c)'
  <2>1. \A i \in DOMAIN upgrades'[c] :
          i \in DOMAIN upgrades[c] /\ upgrades'[c][i] = upgrades[c][i]
    BY <1>2
  <2>2. CASE ReadEntry(p, c)
    <3>1. job'[p][c].at = Len(code[c])
      BY <1>a, <2>2 DEF ReadEntry, TypeOK
    <3> QED
      BY <1>b, <2>1, <3>1 DEF RowsRead
  <2>3. CASE \/ job'[p][c].pc \in {"idle", "entry"}
             \/ job[p][c].pc \notin {"idle", "entry"} /\ job'[p][c].at = job[p][c].at
    BY <2>1, <2>3 DEF RowsRead
  <2>4. job'[p][c] = NoJob => job'[p][c].pc = "idle"
    BY DEF NoJob
  <2>5. BeginPass(p) => job'[p][c] = job[p][c] \/ job'[p][c].pc = "entry"
    <3>1. BeginPass(p) =>
            \/ job'[p][c] = job[p][c]
            \/ job'[p][c] = [NoJob EXCEPT !.pc = "entry", !.known = Hash(c)]
      BY <1>a DEF BeginPass, TypeOK
    <3>2. [NoJob EXCEPT !.pc = "entry", !.known = Hash(c)].pc = "entry"
      BY DEF NoJob
    <3> QED
      BY <3>1, <3>2
  <2>6. \A step \in {"update", "lookup", "code", "store"} :
           Goto(p, c, step) => job'[p][c].at = job[p][c].at
    BY <1>a DEF Goto, TypeOK, Job
  <2>7. InsertUpgrade(p, c) \/ UpdateHash(p, c) =>
           /\ job[p][c].pc \in {"insert", "update"}
           /\ \E step \in {"update", "lookup"} : Goto(p, c, step)
    BY DEF InsertUpgrade, UpdateHash
  <2> QED
    BY <1>a, <2>1, <2>2, <2>3, <2>4, <2>5, <2>6, <2>7, JobMoves DEF RowsRead
<1> QED
  BY <1>a, <1>1, <1>2, RowsMove

\* Nothing makes it possible again that an upgrade on record is inserted, but
\* a fault.
LEMMA NothingComesBack ==
    ASSUME NEW p, Pollers = {p}, HistoryInv, [Next]_vars, NEW c \in Contracts,
           RowsRead(p, c), NEW u \in Upgrade, \E i \in DOMAIN upgrades[c] : upgrades[c][i] = u,
           ~InsertUpgrade(p, c), MayCome(p, c, u)'
    PROVE  MayCome(p, c, u) \/ faults' = faults + 1
<1>a. /\ TypeOK /\ p \in Pollers /\ job[p][c] \in Job
      /\ job' \in [Pollers -> [Contracts -> Job]] /\ u.at \in Nat
  BY JobTypes, TypeStep DEF HistoryInv, TypeOK, Upgrade
<1>b. /\ Len(code[c]) \in Nat /\ Len(code'[c]) \in Nat
      /\ Len(code[c]) <= Len(code'[c])
  <2>1. code[c] \in Seq(Hashes) /\ code[c] # <<>> /\ code'[c] \in Seq(Hashes)
    BY <1>a, CodeGrows DEF TypeOK
  <2>2. Len(code[c]) \in DOMAIN code'[c]
    BY <1>a, CodeGrows, HashTypes
  <2> QED
    BY <2>1, <2>2
<1>1. CASE UpdateHash(p, c)
  <2>1. /\ job[p][c].pc = "update" /\ job'[p][c].pc = "lookup"
        /\ Hash(c)' = job[p][c].seen /\ code' = code
    <3>1. job[p][c].pc = "update" /\ code' = code
      BY <1>1 DEF UpdateHash
    <3>2. job'[p][c].pc = "lookup"
      BY <1>a, <1>1 DEF UpdateHash, Goto, TypeOK, Job
    <3>3. Hash(c)' # NoHash
      BY <3>2 DEF MayCome
    <3>4. Hash(c)' = job[p][c].seen
      BY <1>a, <1>1, <3>3 DEF UpdateHash, Hash, Tracked, TypeOK, Row
    <3> QED
      BY <3>1, <3>2, <3>4
  <2>2. u.at >= Len(code[c]) /\ u.from = job[p][c].seen
    BY <2>1 DEF MayCome
  <2>3. PICK i \in DOMAIN upgrades[c] : upgrades[c][i] = u
    OBVIOUS
  <2>4. /\ u.at <= job[p][c].at /\ u.from # u.to
        /\ u.at \in DOMAIN code[c] /\ code[c][u.at] = u.to
    BY <2>1, <2>3 DEF RowsRead, HistoryInv, UpgradesAreTrue
  <2>5. job[p][c].at \in DOMAIN code[c] /\ code[c][job[p][c].at] = job[p][c].seen
    BY <1>a, <2>1 DEF HistoryInv, JobsRan, GoodJob
  <2>6. DOMAIN code[c] = 1 .. Len(code[c])
    BY <1>a DEF TypeOK
  <2>7. u.at = Len(code[c]) /\ job[p][c].at = Len(code[c])
    BY <1>b, <2>2, <2>4, <2>5, <2>6
  <2> QED
    BY <2>2, <2>4, <2>5, <2>7
<1>2. ASSUME ~UpdateHash(p, c) PROVE Hash(c)' # NoHash => Hash(c)' = Hash(c)
  BY <1>a, <1>2, RowMoves
<1>3. CASE job'[p][c] = job[p][c] /\ ~UpdateHash(p, c)
  BY <1>a, <1>b, <1>2, <1>3 DEF MayCome, JobRow
<1>4. CASE job'[p][c] = NoJob /\ ~UpdateHash(p, c)
  <2>1. job'[p][c].pc = "idle"
    BY <1>4 DEF NoJob
  <2>2. u.at >= Len(code[c]) /\ Hash(c) # NoHash /\ u.from = Hash(c)
    BY <1>a, <1>b, <1>2, <1>4, <2>1 DEF MayCome
  <2>3. job[p][c].pc = "update" => faults' = faults + 1
    BY <1>a, <1>4, <2>2, UpdateEnds
  <2> QED
    BY <2>2, <2>3 DEF MayCome
<1>5. CASE BeginPass(p) /\ ~UpdateHash(p, c)
  <2>1. /\ job[p][c].pc = "idle" /\ code' = code
        /\ \/ job'[p][c] = job[p][c]
           \/ job'[p][c].pc = "entry" /\ job'[p][c].known = Hash(c)
    BY <1>a, <1>5 DEF BeginPass, TypeOK, NoJob
  <2> QED
    BY <1>2, <1>3, <1>5, <2>1 DEF MayCome
<1>6. CASE ReadEntry(p, c) /\ ~UpdateHash(p, c)
  <2>1. /\ job[p][c].pc = "entry" /\ code' = code
        /\ job'[p][c].pc = AfterEntry(job[p][c].known, Current(c))
        /\ job'[p][c].known = job[p][c].known
        /\ job'[p][c].at = Len(code[c])
    BY <1>a, <1>6 DEF ReadEntry, TypeOK
  <2>2. job'[p][c].pc \in {"insert", "update", "lookup"}
        /\ (job'[p][c].pc = "insert" => job[p][c].known # NoHash)
    BY <2>1 DEF AfterEntry
  <2>3. CASE job'[p][c].pc = "insert" /\ u = JobRow(p, c)'
    <3>1. u.from = job[p][c].known /\ u.at = Len(code[c])
      BY <2>1, <2>3 DEF JobRow
    <3> QED
      BY <1>b, <2>1, <2>2, <2>3, <3>1 DEF MayCome
  <2> QED
    BY <1>2, <1>6, <2>1, <2>2, <2>3 DEF MayCome
<1>7. ASSUME ~UpdateHash(p, c), NEW step \in {"code", "store"}, Goto(p, c, step),
             job[p][c].pc \in {"lookup", "code"}
      PROVE  MayCome(p, c, u)
  <2>1. job'[p][c].pc = step
    BY <1>a, <1>7 DEF Goto, TypeOK, Job
  <2> QED
    BY <1>a, <1>b, <1>2, <1>7, <2>1 DEF MayCome
<1> QED
  BY <1>a, <1>1, <1>3, <1>4, <1>5, <1>6, <1>7, JobMoves

LEMMA OnceStep ==
    ASSUME NEW p, Pollers = {p}, OnceInv, [Next]_vars
    PROVE  OnceInv'
<1>a. HistoryInv /\ HistoryInv' /\ TypeOK /\ p \in Pollers
  BY TypeStep, RowStep, JobsStep, RequestsStep, UpgradesStep, VerdictStep
     DEF OnceInv, HistoryInv
<1>1. ASSUME NEW c \in Contracts PROVE RowsRead(p, c)'
  BY <1>a, RowsReadStep DEF OnceInv
<1>2. ASSUME NEW c \in Contracts, NEW u \in Upgrade
      PROVE  /\ Copies(upgrades[c], u)' <= 1 + faults'
             /\ MayCome(p, c, u)' => Copies(upgrades[c], u)' <= faults'
  <2>1. PICK n : n = Copies(upgrades[c], u)
    OBVIOUS
  <2>2. PICK m : m = Copies(upgrades'[c], u)
    OBVIOUS
  <2>3. n <= 1 + faults /\ (MayCome(p, c, u) => n <= faults) /\ RowsRead(p, c)
    BY <1>a, <2>1 DEF OnceInv
  <2>4. /\ upgrades[c] \in Seq(Upgrade) /\ upgrades'[c] \in Seq(Upgrade)
        /\ n \in Nat /\ m \in Nat /\ Copies(<<>>, u) = 0
    BY <1>a, <2>1, <2>2, CopiesAppend DEF HistoryInv, TypeOK
  <2>5. faults \in Nat /\ faults' \in Nat /\ faults <= faults' /\ faults' <= faults + 1
    BY <1>a, FaultsCount, BoundsAssumption DEF TypeOK
  <2>6. ASSUME /\ InsertUpgrade(p, c)
               /\ JobRow(p, c) \in Upgrade
               /\ upgrades'[c] = Append(upgrades[c], JobRow(p, c))
               /\ job'[p][c].pc = "update" /\ JobRow(p, c)' = JobRow(p, c)
               /\ faults' = faults /\ code' = code /\ Hash(c)' = Hash(c)
        PROVE  m <= 1 + faults' /\ (MayCome(p, c, u)' => m <= faults')
    <3>1. m = IF u = JobRow(p, c) THEN n + 1 ELSE n
      BY <2>1, <2>2, <2>4, <2>6, CopiesAppend
    <3>2. u = JobRow(p, c) => MayCome(p, c, u)
      BY <2>6 DEF InsertUpgrade, MayCome
    <3>3. MayCome(p, c, u)' => u # JobRow(p, c) /\ MayCome(p, c, u)
      BY <2>6 DEF MayCome
    <3> QED
      BY <2>3, <2>4, <2>5, <2>6, <3>1, <3>2, <3>3
  <2>7. ASSUME upgrades'[c] = <<>>
        PROVE  m <= 1 + faults' /\ (MayCome(p, c, u)' => m <= faults')
    BY <2>2, <2>4, <2>5, <2>7
  <2>8. ASSUME upgrades'[c] = upgrades[c], ~InsertUpgrade(p, c)
        PROVE  m <= 1 + faults' /\ (MayCome(p, c, u)' => m <= faults')
    <3>1. CASE \E i \in DOMAIN upgrades[c] : upgrades[c][i] = u
      <4>1. m = n /\ n <= 1 + faults /\ (MayCome(p, c, u) => n <= faults)
        BY <2>1, <2>2, <2>3, <2>8
      <4>2. MayCome(p, c, u)' => MayCome(p, c, u) \/ faults' = faults + 1
        BY <1>a, <2>3, <2>8, <3>1, NothingComesBack
      <4>3. m <= 1 + faults'
        <5>1. \A g \in Nat : faults <= g => m <= 1 + g
          BY <2>4, <2>5, <4>1
        <5> QED
          BY <2>5, <5>1, Zenon
      <4>4. n <= faults \/ faults' = faults + 1 => m <= faults'
        BY <2>4, <2>5, <4>1
      <4> QED
        BY <4>1, <4>2, <4>3, <4>4, Zenon
    <3>2. CASE ~\E i \in DOMAIN upgrades[c] : upgrades[c][i] = u
      <4>1. {j \in DOMAIN upgrades'[c] : upgrades'[c][j] = u} = {}
        BY <2>8, <3>2
      <4>2. m = 0
        BY <2>2, <4>1, FS_EmptySet DEF Copies
      <4>3. m <= 1 + faults' /\ m <= faults'
        <5>1. \A g \in Nat : m <= 1 + g /\ m <= g
          BY <4>2
        <5> QED
          BY <2>5, <5>1, Zenon
      <4> QED
        BY <4>3
    <3> QED
      BY <3>1, <3>2
  <2>9. InsertUpgrade(p, c) =>
          /\ JobRow(p, c) \in Upgrade
          /\ upgrades'[c] = Append(upgrades[c], JobRow(p, c))
          /\ job'[p][c].pc = "update" /\ JobRow(p, c)' = JobRow(p, c)
          /\ faults' = faults /\ code' = code /\ Hash(c)' = Hash(c)
    BY <1>a, RowAppended
  <2> QED
    BY <1>a, <2>2, <2>6, <2>7, <2>8, <2>9, RowsMove
<1> QED
  BY <1>a, <1>1, <1>2 DEF OnceInv

\* With one poller, an upgrade is recorded by InsertContractUpgrade at most
\* once more than something failed, whoever registers or untracks the contract
\* and however often its code is replaced, or put back.
THEOREM RecordedOnce ==
    ASSUME NEW p, Pollers = {p}
    PROVE  Spec => []UpgradeOncePerFault
<1>1. Init => OnceInv
  <2> SUFFICES ASSUME Init PROVE OnceInv
    OBVIOUS
  <2>1. HistoryInv
    BY HistoryInit
  <2>2. ASSUME NEW c \in Contracts, NEW u \in Upgrade
        PROVE  Copies(upgrades[c], u) = 0
    <3>1. {j \in DOMAIN upgrades[c] : upgrades[c][j] = u} = {}
      BY DEF Init
    <3> QED
      BY <3>1, FS_EmptySet DEF Copies
  <2>3. \A c \in Contracts : RowsRead(p, c)
    BY DEF Init, RowsRead
  <2>4. faults = 0
    BY DEF Init
  <2> QED
    BY <2>1, <2>2, <2>3, <2>4 DEF OnceInv
<1>2. OnceInv /\ [Next]_vars => OnceInv'
  BY OnceStep
<1>3. OnceInv => UpgradeOncePerFault
  <2> SUFFICES ASSUME OnceInv, NEW c \in Contracts, NEW i \in DOMAIN upgrades[c]
               PROVE  Copies(upgrades[c], upgrades[c][i]) <= 1 + faults
    BY DEF UpgradeOncePerFault, Copies
  <2>1. upgrades[c][i] \in Upgrade
    BY DEF OnceInv, HistoryInv, TypeOK
  <2> QED
    BY <2>1 DEF OnceInv
<1> QED
  BY <1>1, <1>2, <1>3, PTL DEF Spec
=============================================================================
