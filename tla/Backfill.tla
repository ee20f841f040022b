--------------------------------- MODULE Backfill --------------------------------
(***************************************************************************)
(* The --backfill run: Processor.Backfill and insertTxBatch, a process of   *)
(* its own that reads the cursor once, asks about every contract and sender *)
(* from start_height on, and inserts whatever is missing at or below the     *)
(* cursor it read.                                                          *)
(*                                                                         *)
(* It shares the tables with the live service.  Of that service only what    *)
(* Ledger promises is used here: its rows, its cursor and its reindexing are *)
(* the environment's steps.                                                 *)
(***************************************************************************)
EXTENDS Chain

CONSTANTS
    StartHeight,    \* contract.start_height
    SkipCodes,      \* contract.skip_code_ids
    FlushEvery,     \* contracts between two flushes (200 in the code)
    MaxFaults       \* bound: short answers, failed inserts and kills

ASSUME BackfillAssumption ==
    /\ StartHeight \in Nat
    /\ SkipCodes \subseteq Codes
    /\ FlushEvery \in Nat \ {0}
    /\ MaxFaults \in Nat

VARIABLES
    burns, cursor,  \* the tables, as in Ledger
    known,          \* Discovery.contracts of this process
    pc,
    cursorHeight,   \* the cursor as read at the start
    contracts,      \* contracts of the snapshot still to be queried
    sinceFlush,     \* (i + 1) % flushEvery
    knownCodes,     \* the snapshot of KnownCodeIDs
    senders,        \* senders of the snapshots still to be queried
    pending,        \* transactions collected and not yet visited by a flush
    knownAtRead,    \* history: the contracts known at the start
    faults          \* what went wrong so far

tables == <<burns, cursor>>
locals == <<cursorHeight, contracts, sinceFlush, knownCodes, senders, pending,
            knownAtRead>>
vars   == <<chainVars, tables, known, pc, locals, faults>>

L == INSTANCE Ledger WITH burns <- burns, cursor <- cursor

Running == {"contracts", "flush", "creators", "admins", "senders", "final"}

TypeOK ==
    /\ ChainTypeOK
    /\ burns \in [Txs -> L!Rows]
    /\ cursor \in Nat /\ cursorHeight \in Nat
    /\ known \in SUBSET Contracts
    /\ knownAtRead \in SUBSET Contracts
    /\ pc \in Running \cup {"start", "done", "failed"}
    /\ contracts \in SUBSET Contracts
    /\ sinceFlush \in Nat
    /\ knownCodes \in SUBSET Codes
    /\ senders \in SUBSET Accounts
    /\ pending \in SUBSET Txs
    /\ faults \in Nat

Init ==
    /\ L!Init
    /\ known \in SUBSET Contracts
    /\ pc = "start"
    /\ cursorHeight = 0 /\ contracts = {} /\ sinceFlush = 0 /\ knownCodes = {}
    /\ senders = {} /\ pending = {} /\ knownAtRead = {}
    /\ faults = 0

Fault == faults < MaxFaults /\ faults' = faults + 1

----------------------------------------------------------------------------------

\* Read the cursor and take the snapshot of the contracts; with none there is
\* nothing to do and the process exits with an error.
Begin ==
    /\ pc = "start"
    /\ IF QueryableContracts(known, SkipCodes) = {}
       THEN pc' = "failed"
       ELSE pc' = "contracts"
    /\ cursorHeight' = cursor
    /\ contracts' = QueryableContracts(known, SkipCodes)
    /\ knownAtRead' = known
    /\ UNCHANGED <<chainVars, tables, known, sinceFlush, knownCodes, senders,
                   pending, faults>>

\* An answer, without what lies above the cursor; a short one is a fault.
Collect(wanted) ==
    \E answer \in SUBSET wanted :
        /\ pending' = pending \cup answer
        /\ IF answer = wanted THEN UNCHANGED faults ELSE Fault

QueryContract(c) ==
    /\ pc = "contracts"
    /\ c \in contracts
    /\ Collect(ContractTxs(c, StartHeight, cursorHeight))
    /\ contracts' = contracts \ {c}
    /\ sinceFlush' = (sinceFlush + 1) % FlushEvery
    /\ pc' = IF sinceFlush' = 0 THEN "flush" ELSE "contracts"
    /\ UNCHANGED <<chainVars, tables, known, cursorHeight, knownCodes, senders,
                   knownAtRead>>

\* Mutant of Insert: ON CONFLICT DO UPDATE.
InsertOverwrites(t) ==
    /\ pc \in {"flush", "final"}
    /\ t \in pending
    /\ \E row \in {"priced", "unpriced"} :
         burns' = IF TxInfo[t].fee > 0 THEN [burns EXCEPT ![t] = row] ELSE burns
    /\ pending' = pending \ {t}
    /\ UNCHANGED <<chainVars, cursor, known, pc, cursorHeight, contracts, sinceFlush,
                   knownCodes, senders, knownAtRead, faults>>

\* One round of insertTxBatch: what paid nothing is passed over, the rest is
\* inserted unless its row exists.
Insert(t) ==
    /\ pc \in {"flush", "final"}
    /\ t \in pending
    /\ \E row \in {"priced", "unpriced"} :
         burns' = IF burns[t] = "absent" /\ TxInfo[t].fee > 0
                  THEN [burns EXCEPT ![t] = row] ELSE burns
    /\ pending' = pending \ {t}
    /\ UNCHANGED <<chainVars, cursor, known, pc, cursorHeight, contracts, sinceFlush,
                   knownCodes, senders, knownAtRead, faults>>

\* The insert fails; the transaction is dropped with the batch.
InsertFails(t) ==
    /\ pc \in {"flush", "final"}
    /\ t \in pending
    /\ TxInfo[t].fee > 0
    /\ Fault
    /\ pending' = pending \ {t}
    /\ UNCHANGED <<chainVars, tables, known, pc, cursorHeight, contracts, sinceFlush,
                   knownCodes, senders, knownAtRead>>

\* A flush in the loop over the contracts is over.
Flushed ==
    /\ pc = "flush"
    /\ pending = {}
    /\ pc' = "contracts"
    /\ UNCHANGED <<chainVars, tables, known, locals, faults>>

SnapshotCodes ==
    /\ pc = "contracts"
    /\ contracts = {}
    /\ pc' = "creators"
    /\ knownCodes' = KnownCodeIDs(known)
    /\ UNCHANGED <<chainVars, tables, known, cursorHeight, contracts, sinceFlush,
                   senders, pending, knownAtRead, faults>>

SnapshotCreators ==
    /\ pc = "creators"
    /\ pc' = "admins"
    /\ senders' = Creators(known)
    /\ UNCHANGED <<chainVars, tables, known, cursorHeight, contracts, sinceFlush,
                   knownCodes, pending, knownAtRead, faults>>

SnapshotAdmins ==
    /\ pc = "admins"
    /\ pc' = "senders"
    /\ senders' = senders \cup Admins(known)
    /\ UNCHANGED <<chainVars, tables, known, cursorHeight, contracts, sinceFlush,
                   knownCodes, pending, knownAtRead, faults>>

QuerySender(s) ==
    /\ pc = "senders"
    /\ s \in senders
    /\ Collect(CreatorTxs(s, StartHeight, cursorHeight, knownCodes))
    /\ senders' = senders \ {s}
    /\ UNCHANGED <<chainVars, tables, known, pc, cursorHeight, contracts, sinceFlush,
                   knownCodes, knownAtRead>>

\* Mutant of FinalFlush: what is pending after the last sender is forgotten.
NoFinalFlush ==
    /\ pc = "senders"
    /\ senders = {}
    /\ pc' = "done"
    /\ pending' = {}
    /\ UNCHANGED <<chainVars, tables, known, cursorHeight, contracts, sinceFlush,
                   knownCodes, senders, knownAtRead, faults>>

FinalFlush ==
    /\ pc = "senders"
    /\ senders = {}
    /\ pc' = "final"
    /\ UNCHANGED <<chainVars, tables, known, locals, faults>>

\* Mutant of Done: the process exits without waiting for the flush.
DoneEarly ==
    /\ pc = "final"
    /\ pc' = "done"
    /\ UNCHANGED <<chainVars, tables, known, locals, faults>>

Done ==
    /\ pc = "final"
    /\ pending = {}
    /\ pc' = "done"
    /\ UNCHANGED <<chainVars, tables, known, locals, faults>>

\* The cursor cannot be read, or the process is killed.
Fail ==
    /\ pc \in Running \cup {"start"}
    /\ Fault
    /\ pc' = "failed"
    /\ UNCHANGED <<chainVars, tables, known, locals>>

\* The refresh goroutine of this process.
Discover(c) ==
    /\ pc \in Running \cup {"start"}
    /\ c \notin known
    /\ known' = known \cup {c}
    /\ UNCHANGED <<chainVars, tables, pc, locals, faults>>

Run ==
    \/ Begin
    \/ \E c \in Contracts : QueryContract(c)
    \/ \E t \in Txs : Insert(t) \/ InsertFails(t)
    \/ Flushed
    \/ SnapshotCodes \/ SnapshotCreators \/ SnapshotAdmins
    \/ \E s \in Accounts : QuerySender(s)
    \/ FinalFlush
    \/ Done
    \/ Fail
    \/ \E c \in Contracts : Discover(c)

\* The chain grows, and the live service writes rows, moves its cursor, or is
\* restarted with --reindex.
LiveService ==
    /\ \/ L!Grow
       \/ \E t \in Txs : L!Record(t)
       \/ L!Advance
       \/ L!Restart /\ UNCHANGED burns
    /\ UNCHANGED <<known, pc, locals, faults>>

Next == Run \/ LiveService

Spec == Init /\ [][Next]_vars

----------------------------------------------------------------------------------
(* Properties. *)

\* What the contracts known at the start account for, at or below the cursor
\* that was read: "Query all contracts from start_height to cursor" (main.go,
\* usage of -backfill).
InScope(t) ==
    /\ Paying(t)
    /\ \/ \E c \in QueryableContracts(knownAtRead, SkipCodes) :
            t \in ContractTxs(c, StartHeight, cursorHeight)
       \/ \E s \in Creators(knownAtRead) :
            t \in CreatorTxs(s, StartHeight, cursorHeight, KnownCodeIDs(knownAtRead))

\* A backfill in which nothing went wrong leaves no gap: "inserting any missing
\* txs", whatever the live service and discovery did meanwhile.
NoGapLeft ==
    pc = "done" /\ faults = 0 => \A t \in Txs : InScope(t) => burns[t] # "absent"

\* Both writers together still change the tables the way Ledger allows.
ImplementsLedger == L!Spec

\* The inductive invariant behind NoGapLeft.  A transaction is safe once it waits
\* for a flush or is in the table.
Safe(t) == Paying(t) => t \in pending \/ burns[t] # "absent"

HeightsInv ==
    /\ \A t \in Txs : height[t] <= tip
    /\ cursor <= tip \/ cursor = StartHeight
    /\ pc = "start" => pending = {}
    /\ pc \in Running \cup {"done"} =>
         /\ cursorHeight <= tip \/ cursorHeight = StartHeight
         /\ knownAtRead \subseteq known
         /\ QueryableContracts(knownAtRead, SkipCodes) # {}
         /\ \A t \in pending : TxInfo[t].ok /\ height[t] > 0

ContractsInv ==
    pc \in Running \cup {"done"} /\ faults = 0 =>
        \A c \in QueryableContracts(knownAtRead, SkipCodes) :
            \/ pc \in {"contracts", "flush"} /\ c \in contracts
            \/ \A t \in ContractTxs(c, StartHeight, cursorHeight) : Safe(t)

SendersInv ==
    /\ pc \in {"creators", "admins", "senders", "final", "done"} =>
         KnownCodeIDs(knownAtRead) \subseteq knownCodes
    /\ pc \in {"admins", "senders", "final", "done"} /\ faults = 0 =>
         \A s \in Creators(knownAtRead) :
            \/ pc \in {"admins", "senders"} /\ s \in senders
            \/ \A t \in CreatorTxs(s, StartHeight, cursorHeight,
                                   KnownCodeIDs(knownAtRead)) : Safe(t)
    /\ pc = "done" => pending = {}

IInv == TypeOK /\ HeightsInv /\ ContractsInv /\ SendersInv
==================================================================================
