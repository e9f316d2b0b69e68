--------------------------- MODULE ContractCatalog ---------------------------
(***************************************************************************)
(* The row of a tracked contract and everything that depends on the code   *)
(* the contract runs.  Three programs write it without knowing each other: *)
(*                                                                         *)
(*   - the API registers and untracks contracts                            *)
(*     (apps/api/internal/handler/contracts.go, contracts_batch.go);       *)
(*   - the indexer looks once per pass whether the code of a contract was  *)
(*     replaced (Poller.checkWasmHash), records the upgrade, stores the    *)
(*     new hash and caches the binary;                                     *)
(*   - the API rebuilds submitted source and stores the verdict            *)
(*     (handler/verify.go, internal/verify), against the hash the row had  *)
(*     when the request came in, minutes before.                           *)
(*                                                                         *)
(* Every call of the store or of the RPC node is a step of its own.        *)
(***************************************************************************)
EXTENDS Integers, Sequences, FiniteSets

CONSTANTS
    Contracts,      \* contract ids
    Pollers,        \* indexer processes
    Requests,       \* requests to verify that may be handled at the same time
    Hashes,         \* Wasm hashes
    NoHash,         \* the empty hash
    None,           \* no row
    MaxUpgrades,    \* how often code may be replaced in a behaviour
    MaxWrites,      \* how many requests people may send in a behaviour
    Faults,         \* kinds of fault that may happen, see FaultKinds
    MaxFaults       \* how many faults may happen in a behaviour

FaultKinds ==
    { "call",       \* a call of checkWasmHash fails, or the entry is unreadable
      "crash",      \* an indexer process crashes
      "request" }   \* a verification ends in an error, or its client is gone

ASSUME HashesAssumption == NoHash \notin Hashes
ASSUME BoundsAssumption ==
    /\ {MaxUpgrades, MaxWrites, MaxFaults} \subseteq Nat
    /\ Faults \subseteq FaultKinds

VARIABLES
    code,           \* code[c]: the hashes c ran on chain, the last is current
    \* Postgres
    row,            \* row[c] of contracts: is its status one that is indexed,
                    \* and wasm_hash
    upgrades,       \* upgrades[c]: rows of contract_upgrades, oldest first
    wasm,           \* hashes of contract_wasm
    verdict,        \* verdict[c] of contract_verifications
    \* processes
    job,            \* job[p][c]: checkWasmHash of c in the pass of p
    request,        \* request[r]: a VerifyContract handler
    faults,         \* faults so far
    writes          \* requests so far

db == <<row, upgrades, wasm, verdict>>
vars == <<code, db, job, request, faults, writes>>

MaybeHash == Hashes \union {NoHash}
Row == [indexed : BOOLEAN, hash : MaybeHash]
\* at: which of the hashes of code[c] the instance entry held, standing for
\* the ledger the entry was last modified in.
Upgrade == [from : MaybeHash, to : MaybeHash, at : Nat]
Verdict == [hash : MaybeHash, compiled : MaybeHash, matched : BOOLEAN]
\* known is the hash ListContracts returned, seen the one of the entry.
Job == [pc : {"idle", "entry", "insert", "update", "lookup", "code", "store"},
        known : MaybeHash, seen : MaybeHash, at : Nat]
Request == [pc : {"idle", "build", "save"}, contract : Contracts \union {None},
            hash : MaybeHash, compiled : MaybeHash]

NoJob == [pc |-> "idle", known |-> NoHash, seen |-> NoHash, at |-> 0]
NoRequest == [pc |-> "idle", contract |-> None, hash |-> NoHash, compiled |-> NoHash]
Tracked(c) == row[c] # None
Indexed(c) == IF Tracked(c) THEN row[c].indexed ELSE FALSE
Hash(c) == IF Tracked(c) THEN row[c].hash ELSE NoHash
Current(c) == code[c][Len(code[c])]

Init ==
    /\ code \in [Contracts -> {<<h>> : h \in Hashes}]
    /\ row = [c \in Contracts |-> None]
    /\ upgrades = [c \in Contracts |-> <<>>]
    /\ wasm = {}
    /\ verdict = [c \in Contracts |-> None]
    /\ job = [p \in Pollers |-> [c \in Contracts |-> NoJob]]
    /\ request = [r \in Requests |-> NoRequest]
    /\ faults = 0 /\ writes = 0

-----------------------------------------------------------------------------
(* Outside: the chain, and the operator                                    *)

\* The owner replaces the code of the contract.
ReplaceCode(c) ==
    /\ \E h \in Hashes \ {Current(c)} : code' = [code EXCEPT ![c] = Append(@, h)]
    /\ Len(code'[c]) <= MaxUpgrades + 1
    /\ UNCHANGED <<db, job, request, faults, writes>>

\* An operator sets the status of the row to one the poller indexes: no code
\* does.
Activate(c) ==
    /\ Tracked(c) /\ ~Indexed(c)
    /\ row' = [row EXCEPT ![c].indexed = TRUE]
    /\ UNCHANGED <<code, upgrades, wasm, verdict, job, request, faults, writes>>

-----------------------------------------------------------------------------
(* The API: registration                                                   *)

\* RegisterContract and V2RegisterContract: the upsert writes status pending
\* and an empty hash, also over a row that exists.
Register(c) ==
    /\ writes < MaxWrites
    /\ row' = [row EXCEPT ![c] = [indexed |-> FALSE, hash |-> NoHash]]
    /\ writes' = writes + 1
    /\ UNCHANGED <<code, upgrades, wasm, verdict, job, request, faults>>

\* BatchContracts, untrack: one transaction; the verdict goes by cascade.
Untrack(c) ==
    /\ writes < MaxWrites
    /\ Tracked(c)
    /\ row' = [row EXCEPT ![c] = None]
    /\ upgrades' = [upgrades EXCEPT ![c] = <<>>]
    /\ verdict' = [verdict EXCEPT ![c] = None]
    /\ writes' = writes + 1
    /\ UNCHANGED <<code, wasm, job, request, faults>>

-----------------------------------------------------------------------------
(* The indexer: Poller.processAll and checkWasmHash                        *)

Goto(p, c, step) == job' = [job EXCEPT ![p][c].pc = step]
EndJob(p, c) == job' = [job EXCEPT ![p][c] = NoJob]

\* ListContracts: the pass works with the hashes it reads here.
BeginPass(p) ==
    /\ \A c \in Contracts : job[p][c].pc = "idle"
    /\ job' = [job EXCEPT ![p] = [c \in Contracts |->
                 IF Indexed(c) THEN [NoJob EXCEPT !.pc = "entry", !.known = Hash(c)]
                 ELSE @[c]]]
    /\ UNCHANGED <<code, db, request, faults, writes>>

\* Mutant: no check for a change.
AfterEntryAlways(known, seen) == IF known = NoHash THEN "update" ELSE "insert"
\* Mutant: nothing left to do for a hash that has not changed.
AfterEntryReturns(known, seen) ==
    IF known = NoHash THEN "update" ELSE IF seen = known THEN "idle" ELSE "insert"

\* What checkWasmHash does next: baseline, nothing new, or an upgrade.
AfterEntry(known, seen) ==
    IF known = NoHash THEN "update"
    ELSE IF seen = known THEN "lookup" ELSE "insert"

\* GetLedgerEntries of the instance entry.
ReadEntry(p, c) ==
    /\ job[p][c].pc = "entry"
    /\ job' = [job EXCEPT ![p][c] =
                 [pc |-> AfterEntry(@.known, Current(c)), known |-> @.known,
                  seen |-> Current(c), at |-> Len(code[c])]]
    /\ UNCHANGED <<code, db, request, faults, writes>>

\* Mutant: the hash first, the upgrade never.
InsertUpgradeLater(p, c) ==
    /\ job[p][c].pc = "insert"
    /\ Goto(p, c, "update")
    /\ UNCHANGED <<code, db, request, faults, writes>>

\* InsertContractUpgrade: tx_hash is NULL, so the row never conflicts; the
\* table has no foreign key, so the contract may be gone.
InsertUpgrade(p, c) ==
    /\ job[p][c].pc = "insert"
    /\ upgrades' = [upgrades EXCEPT ![c] =
                      Append(@, [from |-> job[p][c].known, to |-> job[p][c].seen,
                                 at |-> job[p][c].at])]
    /\ Goto(p, c, "update")
    /\ UNCHANGED <<code, row, wasm, verdict, request, faults, writes>>

\* Mutant: the row is not written when there was a hash.
UpdateHashOnce(p, c) ==
    /\ job[p][c].pc = "update" /\ Tracked(c)
    /\ row' = [row EXCEPT ![c].hash = IF @ = NoHash THEN job[p][c].seen ELSE @]
    /\ Goto(p, c, "lookup")
    /\ UNCHANGED <<code, upgrades, wasm, verdict, request, faults, writes>>

\* UpdateContractWasmHash.
UpdateHash(p, c) ==
    /\ job[p][c].pc = "update" /\ Tracked(c)
    /\ row' = [row EXCEPT ![c].hash = job[p][c].seen]
    /\ Goto(p, c, "lookup")
    /\ UNCHANGED <<code, upgrades, wasm, verdict, request, faults, writes>>

\* UpdateContractWasmHash, when the contract was untracked meanwhile.
UpdateNothing(p, c) ==
    /\ job[p][c].pc = "update" /\ ~Tracked(c)
    /\ EndJob(p, c)
    /\ UNCHANGED <<code, db, request, faults, writes>>

\* cacheWasmBinary: HasContractWasm, then the code entry, then the upsert.
LookUpCode(p, c) ==
    /\ job[p][c].pc = "lookup"
    /\ IF job[p][c].seen \in wasm THEN EndJob(p, c) ELSE Goto(p, c, "code")
    /\ UNCHANGED <<code, db, request, faults, writes>>

FetchCode(p, c) ==
    /\ job[p][c].pc = "code"
    /\ Goto(p, c, "store")
    /\ UNCHANGED <<code, db, request, faults, writes>>

StoreCode(p, c) ==
    /\ job[p][c].pc = "store"
    /\ wasm' = wasm \union {job[p][c].seen}
    /\ EndJob(p, c)
    /\ UNCHANGED <<code, row, upgrades, verdict, request, faults, writes>>

\* Whatever call fails, checkWasmHash or cacheWasmBinary returns and the next
\* pass begins anew.
Fault(kind) ==
    /\ kind \in Faults /\ faults < MaxFaults
    /\ faults' = faults + 1

CheckFails(p, c) ==
    /\ Fault("call")
    /\ job[p][c].pc # "idle"
    /\ EndJob(p, c)
    /\ UNCHANGED <<code, db, request, writes>>

CrashPoller(p) ==
    /\ Fault("crash")
    /\ \E c \in Contracts : job[p][c].pc # "idle"
    /\ job' = [job EXCEPT ![p] = [c \in Contracts |-> NoJob]]
    /\ UNCHANGED <<code, db, request, writes>>

-----------------------------------------------------------------------------
(* The API: VerifyContract                                                 *)

\* GetContract, which gives the hash to compare with.  Without one, Verify
\* returns a failed verdict before it builds anything.
Submit(r, c) ==
    /\ writes < MaxWrites
    /\ request[r].pc = "idle" /\ Tracked(c)
    /\ request' = [request EXCEPT ![r] =
                     [pc |-> IF row[c].hash = NoHash THEN "save" ELSE "build",
                      contract |-> c, hash |-> row[c].hash, compiled |-> NoHash]]
    /\ writes' = writes + 1
    /\ UNCHANGED <<code, db, job, faults>>

\* Verify: the source compiles to some binary, or to none: a bad archive, a
\* commit that cannot be fetched, no manifest, a failed build, no artifact.
Build(r) ==
    /\ request[r].pc = "build"
    /\ \E h \in MaybeHash :
         request' = [request EXCEPT ![r].pc = "save", ![r].compiled = h]
    /\ UNCHANGED <<code, db, job, faults, writes>>

\* Mutant: the hash is read again when the verdict is stored.
VerdictLate(q) ==
    [hash |-> row[q.contract].hash, compiled |-> q.compiled,
     matched |-> q.compiled # NoHash /\ q.compiled = q.hash]

VerdictOf(q) ==
    [hash |-> q.hash, compiled |-> q.compiled,
     matched |-> q.compiled # NoHash /\ q.compiled = q.hash]

\* UpsertContractVerification: the last one to finish is the one that stays.
\* The foreign key refuses it when the contract was untracked meanwhile.
SaveVerdict(r) ==
    /\ request[r].pc = "save"
    /\ verdict' = IF Tracked(request[r].contract)
                  THEN [verdict EXCEPT ![request[r].contract] = VerdictOf(request[r])]
                  ELSE verdict
    /\ request' = [request EXCEPT ![r] = NoRequest]
    /\ UNCHANGED <<code, row, upgrades, wasm, job, faults, writes>>

\* An internal error, or a client that went away: nothing is stored.
VerifyFails(r) ==
    /\ Fault("request")
    /\ request[r].pc # "idle"
    /\ request' = [request EXCEPT ![r] = NoRequest]
    /\ UNCHANGED <<code, db, job, writes>>

-----------------------------------------------------------------------------
CheckStep(p, c) ==
    \/ ReadEntry(p, c) \/ InsertUpgrade(p, c)
    \/ UpdateHash(p, c) \/ UpdateNothing(p, c)
    \/ LookUpCode(p, c) \/ FetchCode(p, c) \/ StoreCode(p, c)

Next ==
    \/ \E c \in Contracts :
         ReplaceCode(c) \/ Activate(c) \/ Register(c) \/ Untrack(c)
    \/ \E p \in Pollers :
         \/ BeginPass(p) \/ CrashPoller(p)
         \/ \E c \in Contracts : CheckStep(p, c) \/ CheckFails(p, c)
    \/ \E r \in Requests :
         \/ Build(r) \/ SaveVerdict(r) \/ VerifyFails(r)
         \/ \E c \in Contracts : Submit(r, c)

Spec == Init /\ [][Next]_vars

\* Passes begin again and again, and every job is carried through; a request
\* is answered.  Nobody need activate a contract.
FairSpec ==
    /\ Spec
    /\ \A p \in Pollers :
         /\ WF_vars(BeginPass(p))
         /\ \A c \in Contracts : WF_vars(CheckStep(p, c))
    /\ \A r \in Requests : WF_vars(Build(r) \/ SaveVerdict(r))

-----------------------------------------------------------------------------
(* Properties                                                              *)

TypeOK ==
    /\ code \in [Contracts -> Seq(Hashes)]
    /\ \A c \in Contracts : code[c] # <<>>
    /\ row \in [Contracts -> Row \union {None}]
    /\ upgrades \in [Contracts -> Seq(Upgrade)]
    /\ wasm \subseteq MaybeHash
    /\ verdict \in [Contracts -> Verdict \union {None}]
    /\ job \in [Pollers -> [Contracts -> Job]]
    /\ request \in [Requests -> Request]
    /\ faults \in 0 .. MaxFaults /\ writes \in 0 .. MaxWrites

\* c ran h before the hash at place n of its code.
RanBefore(c, h, n) == \E i \in 1 .. n - 1 : code[c][i] = h

\* The history of upgrades is true, with any number of pollers: each row names
\* a hash the contract did run and one that replaced it later (checkWasmHash
\* compares a hash read minutes ago with the entry it reads now).
UpgradesAreTrue ==
    \A c \in Contracts : \A i \in DOMAIN upgrades[c] :
        LET u == upgrades[c][i]
        IN  /\ u.at \in DOMAIN code[c] /\ code[c][u.at] = u.to
            /\ u.from # u.to /\ RanBefore(c, u.from, u.at)

\* A step that replaces the hash of a row by another finds that on record.
ChangeOnRecord(c) ==
    Hash(c) # NoHash /\ Hash(c)' \notin {NoHash, Hash(c)}
        => \E i \in DOMAIN upgrades[c] :
             upgrades[c][i].from = Hash(c) /\ upgrades[c][i].to = Hash(c)'

\* No hash of a tracked contract is replaced before its upgrade is on record
\* (the row is inserted first, whatever fails in between).  True of a single
\* poller; a registration empties the hash and so starts anew.
HashMovesByUpgrade == [][\A c \in Contracts : ChangeOnRecord(c)]_vars

\* Each fault makes at most one more row of the same upgrade: checkWasmHash fails
\* after InsertContractUpgrade and before UpdateContractWasmHash, and the next pass
\* compares with the old hash once more.  This bounds the repetition, which
\* UpgradeRecordedOnce says does not happen.
UpgradeOncePerFault ==
    \A c \in Contracts : \A i \in DOMAIN upgrades[c] :
        Cardinality({j \in DOMAIN upgrades[c] : upgrades[c][j] = upgrades[c][i]})
            <= 1 + faults

\* "A re-run of the same poll cycle cannot insert the same upgrade twice"
\* (migrations/000010_contract_upgrades.up.sql:10-11): no two rows are equal.
\* Violated after a fault between the two calls, for rows have no tx_hash.
UpgradeRecordedOnce ==
    \A c \in Contracts : \A i, j \in DOMAIN upgrades[c] :
        i # j => upgrades[c][i] # upgrades[c][j]

\* A contract shown as verified did run the binary that the submitted source
\* compiles to, although the hash was read minutes before the verdict is stored
\* and the row may have been replaced since.
VerifiedDidRun ==
    \A c \in Contracts : verdict[c] # None /\ verdict[c].matched =>
        /\ verdict[c].compiled = verdict[c].hash
        /\ verdict[c].hash \in {code[c][i] : i \in DOMAIN code[c]}

\* Whatever failed and whoever registered it again: once a contract stays
\* indexed, its row comes to hold the hash it runs, and the binary is cached.
CodeIsTracked ==
    \A c \in Contracts :
        <>[]Indexed(c)
            => <>[](Hash(c) = Current(c) /\ Current(c) \in wasm)

\* "On next cron run (at most 5 minutes later), the indexer sees the contract"
\* that was registered (ARCHITECTURE.md:61-62).
RegisteredIsIndexed ==
    \A c \in Contracts :
        Tracked(c) ~> (~Tracked(c) \/ \E p \in Pollers : job[p][c].pc # "idle")
=============================================================================
