-------------------------------- MODULE Processor --------------------------------
(***************************************************************************)
(* The live indexer: internal/processor/processor.go with the start-up of   *)
(* cmd/tracker/main.go around it.                                          *)
(*                                                                         *)
(* One goroutine runs a cycle per tick: read the cursor, take a snapshot of *)
(* the queryable contracts, ask the node about each of them, take three     *)
(* more snapshots (known codes, creators, admins), ask the node about each  *)
(* sender, insert what was seen row by row, and finally move the cursor to  *)
(* the highest block seen.  None of this is one transaction: blocks arrive  *)
(* and discovery adds contracts between any two of these steps, any query   *)
(* may come back short without an error, any database call may fail, and    *)
(* the process may die anywhere.                                           *)
(***************************************************************************)
EXTENDS Chain

CONSTANTS
    StartHeight,    \* contract.start_height
    SkipCodes,      \* contract.skip_code_ids
    MaxShort,       \* bound: answers that come back incomplete
    MaxDBFaults,    \* bound: database calls that fail
    MaxBoots        \* bound: starts of the process

ASSUME StartHeightAssumption == StartHeight \in Nat
ASSUME SkipCodesAssumption == SkipCodes \subseteq Codes
ASSUME BoundsAssumption == MaxShort \in Nat /\ MaxDBFaults \in Nat /\ MaxBoots \in Nat

VARIABLES
    \* roi_tracker tables
    burns,          \* the row of each transaction in processed_burns
    cursor,         \* sync_state.last_processed_event_id
    \* shared memory of the process
    known,          \* Discovery.contracts
    \* the processor goroutine: where it is, and the locals of processNewTxs
    pc,
    lastHeight,     \* the cursor as read at the start of the cycle
    maxHeight,      \* the highest block among the transactions seen
    contracts,      \* contracts of the snapshot still to be queried
    knownCodes,     \* the snapshot of KnownCodeIDs
    senders,        \* senders of the snapshots still to be queried
    seen,           \* transactions collected in this cycle
    batch,          \* those of them the insert loop has still to visit
    dbErr,          \* dbErrCount > 0
    queryTip,       \* the tip of the chain when the query under way was sent
    \* history: only properties read these
    tipAtRead,      \* the tip when the cycle read the cursor
    knownAtRead,    \* the contracts known when it did
    short,          \* an answer of this cycle was incomplete
    claim,          \* what the cycles that moved the cursor since it was last reset
                    \* have in common: the contracts all of them began with, and the
                    \* heights they passed without having asked for them (neither,
                    \* once an answer was incomplete or no contract is left)
    \* uses of the bounds
    shorts, dbFaults, boots

tables  == <<burns, cursor>>
locals  == <<lastHeight, maxHeight, contracts, knownCodes, senders, seen, batch,
             dbErr, queryTip>>
history == <<tipAtRead, knownAtRead, short>>
counts  == <<shorts, dbFaults, boots>>
vars    == <<chainVars, tables, known, pc, locals, history, claim, counts>>

L == INSTANCE Ledger WITH burns <- burns, cursor <- cursor

Rows == L!Rows

Phases == {"down", "starting", "parked", "idle", "contracts", "creators", "admins",
           "senders", "insert"}

Scanning == {"contracts", "creators", "admins", "senders", "insert"}

TypeOK ==
    /\ ChainTypeOK
    /\ burns \in [Txs -> Rows]
    /\ cursor \in Nat
    /\ known \in SUBSET Contracts
    /\ pc \in Phases
    /\ lastHeight \in Nat /\ maxHeight \in Nat
    /\ contracts \in SUBSET Contracts
    /\ knownCodes \in SUBSET Codes
    /\ senders \in SUBSET Accounts
    /\ seen \in SUBSET Txs /\ batch \in SUBSET Txs
    /\ dbErr \in BOOLEAN /\ short \in BOOLEAN
    /\ queryTip \in Nat /\ tipAtRead \in Nat
    /\ knownAtRead \in SUBSET Contracts
    /\ claim \in [known : SUBSET Contracts, passed : SUBSET Nat]
    /\ shorts \in Nat /\ dbFaults \in Nat /\ boots \in Nat

\* The locals of a cycle that is not running.
NoCycle ==
    /\ lastHeight = 0 /\ maxHeight = 0 /\ contracts = {} /\ knownCodes = {}
    /\ senders = {} /\ seen = {} /\ batch = {} /\ dbErr = FALSE /\ queryTip = 0
    /\ tipAtRead = 0 /\ knownAtRead = {} /\ short = FALSE

\* They go out of scope.
EndCycle ==
    /\ lastHeight' = 0 /\ maxHeight' = 0 /\ contracts' = {} /\ knownCodes' = {}
    /\ senders' = {} /\ seen' = {} /\ batch' = {} /\ dbErr' = FALSE
    /\ queryTip' = 0 /\ tipAtRead' = 0 /\ knownAtRead' = {} /\ short' = FALSE

\* Nothing has been asked for yet.
NoClaim == [known |-> Contracts, passed |-> {}]

Init ==
    /\ ChainInit
    /\ burns = [t \in Txs |-> "absent"]
    /\ cursor = 0
    /\ known = {}
    /\ pc = "down"
    /\ NoCycle
    /\ claim = NoClaim
    /\ shorts = 0 /\ dbFaults = 0 /\ boots = 0

----------------------------------------------------------------------------------
(* The process: start-up, discovery, death. *)

\* main up to the end of disc.Run: an optional reset of the tables, then
\* discovery fills its map from the cached table and the node.  Every failure
\* inside it is skipped, so any set of contracts may come out.
Boot(rows, height0) ==
    /\ pc = "down"
    /\ boots < MaxBoots
    /\ boots' = boots + 1
    /\ burns' = rows
    /\ cursor' = height0
    /\ known' \in SUBSET Contracts
    /\ pc' = "starting"
    /\ UNCHANGED <<chainVars, locals, history, shorts, dbFaults>>

BootPlain   == Boot(burns, cursor) /\ UNCHANGED claim
BootReindex == Boot(burns, 0) /\ claim' = NoClaim
BootResetDB == Boot([t \in Txs |-> "absent"], 0) /\ claim' = NoClaim

\* Processor.Start up to its loop: with nothing to query it waits for the end
\* of the process; otherwise a cursor of 0 is raised to the start height, and
\* a failure to do so is only logged.
Start ==
    /\ pc = "starting"
    /\ IF QueryableContracts(known, SkipCodes) = {}
       THEN pc' = "parked" /\ UNCHANGED <<cursor, dbFaults>>
       ELSE /\ pc' = "idle"
            /\ \/ /\ cursor' = IF cursor = 0 THEN StartHeight ELSE cursor
                  /\ UNCHANGED dbFaults
               \/ /\ StartHeight > 0 /\ dbFaults < MaxDBFaults
                  /\ dbFaults' = dbFaults + 1
                  /\ UNCHANGED cursor
    /\ UNCHANGED <<chainVars, burns, known, locals, history, claim, shorts, boots>>

\* The refresh goroutine finds contracts one at a time, under the write lock.
Discover(c) ==
    /\ pc # "down"
    /\ c \notin known
    /\ known' = known \cup {c}
    /\ UNCHANGED <<chainVars, tables, pc, locals, history, claim, counts>>

\* A signal or a crash: everything in memory is gone, the tables stay.
Crash ==
    /\ pc # "down"
    /\ pc' = "down"
    /\ known' = {}
    /\ EndCycle
    /\ UNCHANGED <<chainVars, tables, claim, counts>>

----------------------------------------------------------------------------------
(* One cycle of processNewTxs. *)

\* Read the cursor and take the snapshot of the contracts; with none the cycle
\* is over.
ReadCursor ==
    /\ pc = "idle"
    /\ QueryableContracts(known, SkipCodes) # {}
    /\ pc' = "contracts"
    /\ lastHeight' = cursor
    /\ maxHeight' = cursor
    /\ contracts' = QueryableContracts(known, SkipCodes)
    /\ queryTip' = tip
    /\ tipAtRead' = tip
    /\ knownAtRead' = known
    /\ UNCHANGED <<chainVars, tables, known, knownCodes, senders, seen, batch,
                   dbErr, short, claim, counts>>

\* The cursor cannot be read: the error is logged and the next tick tries again.
ReadCursorFails ==
    /\ pc = "idle"
    /\ dbFaults < MaxDBFaults
    /\ dbFaults' = dbFaults + 1
    /\ UNCHANGED <<chainVars, tables, known, pc, locals, history, claim, shorts, boots>>

\* Mutant of Collect: maxHeight becomes the height of any transaction of the
\* answer, not the highest.
CollectLast(answer) ==
    /\ seen' = seen \cup answer
    /\ maxHeight' \in {maxHeight} \cup {height[t] : t \in answer}
    /\ queryTip' = tip

\* Add an answer to seen and its highest block to maxHeight; the next query
\* goes out at once.
Collect(answer) ==
    /\ seen' = seen \cup answer
    /\ maxHeight' \in {maxHeight} \cup {height[t] : t \in answer}
    /\ \A t \in answer : height[t] <= maxHeight'
    /\ maxHeight <= maxHeight'
    /\ queryTip' = tip

\* A complete answer has every match up to the block that was the tip when the
\* query was sent; it may or may not have those that arrived since.  What is
\* lost on the way (see TxQuery) makes it short, and nobody is told.
Answered(old, now) ==
    \E answer \in SUBSET now :
        /\ Collect(answer)
        /\ IF old \subseteq answer
           THEN UNCHANGED <<short, shorts>>
           ELSE /\ shorts < MaxShort
                /\ shorts' = shorts + 1
                /\ short' = TRUE

QueryContract(c) ==
    /\ pc = "contracts"
    /\ c \in contracts
    /\ Answered(ContractTxs(c, lastHeight, queryTip), ContractTxs(c, lastHeight, tip))
    /\ contracts' = contracts \ {c}
    /\ UNCHANGED <<chainVars, tables, known, pc, lastHeight, knownCodes, senders,
                   batch, dbErr, tipAtRead, knownAtRead, claim, dbFaults, boots>>

\* Three snapshots, each under its own read lock: what discovery adds between
\* two of them is in one and not in the other.
SnapshotCodes ==
    /\ pc = "contracts"
    /\ contracts = {}
    /\ pc' = "creators"
    /\ knownCodes' = KnownCodeIDs(known)
    /\ UNCHANGED <<chainVars, tables, known, lastHeight, maxHeight, contracts,
                   senders, seen, batch, dbErr, queryTip, history, claim, counts>>

SnapshotCreators ==
    /\ pc = "creators"
    /\ pc' = "admins"
    /\ senders' = Creators(known)
    /\ UNCHANGED <<chainVars, tables, known, lastHeight, maxHeight, contracts,
                   knownCodes, seen, batch, dbErr, queryTip, history, claim, counts>>

\* Mutant of SnapshotAdmins: the admins replace the creators.
SnapshotAdminsOnly ==
    /\ pc = "admins"
    /\ pc' = "senders"
    /\ senders' = Admins(known)
    /\ queryTip' = tip
    /\ UNCHANGED <<chainVars, tables, known, lastHeight, maxHeight, contracts,
                   knownCodes, seen, batch, dbErr, history, claim, counts>>

SnapshotAdmins ==
    /\ pc = "admins"
    /\ pc' = "senders"
    /\ senders' = senders \cup Admins(known)
    /\ queryTip' = tip
    /\ UNCHANGED <<chainVars, tables, known, lastHeight, maxHeight, contracts,
                   knownCodes, seen, batch, dbErr, history, claim, counts>>

QuerySender(s) ==
    /\ pc = "senders"
    /\ s \in senders
    /\ Answered(CreatorTxs(s, lastHeight, queryTip, knownCodes),
                CreatorTxs(s, lastHeight, tip, knownCodes))
    /\ senders' = senders \ {s}
    /\ UNCHANGED <<chainVars, tables, known, pc, lastHeight, contracts, knownCodes,
                   batch, dbErr, tipAtRead, knownAtRead, claim, dbFaults, boots>>

\* The insert loop passes over what paid no fee.
StartInserts ==
    /\ pc = "senders"
    /\ senders = {}
    /\ pc' = "insert"
    /\ batch' = {t \in seen : TxInfo[t].fee > 0}
    /\ UNCHANGED <<chainVars, tables, known, lastHeight, maxHeight, contracts,
                   knownCodes, senders, seen, dbErr, queryTip, history, claim, counts>>

\* Mutant of Insert: ON CONFLICT DO UPDATE.
InsertOverwrites(t) ==
    /\ pc = "insert"
    /\ t \in batch
    /\ \E row \in {"priced", "unpriced"} : burns' = [burns EXCEPT ![t] = row]
    /\ batch' = batch \ {t}
    /\ UNCHANGED <<chainVars, cursor, known, pc, lastHeight, maxHeight, contracts,
                   knownCodes, senders, seen, dbErr, queryTip, history, claim, counts>>

\* One row, priced or with a zero price when the price cannot be had; a row
\* that exists stays as it is (ON CONFLICT DO NOTHING).
Insert(t) ==
    /\ pc = "insert"
    /\ t \in batch
    /\ \E row \in {"priced", "unpriced"} :
         burns' = IF burns[t] = "absent" THEN [burns EXCEPT ![t] = row] ELSE burns
    /\ batch' = batch \ {t}
    /\ UNCHANGED <<chainVars, cursor, known, pc, lastHeight, maxHeight, contracts,
                   knownCodes, senders, seen, dbErr, queryTip, history, claim, counts>>

\* Mutant of InsertFails: the error is logged but not counted.
InsertFailsUncounted(t) ==
    /\ pc = "insert"
    /\ t \in batch
    /\ dbFaults < MaxDBFaults
    /\ dbFaults' = dbFaults + 1
    /\ batch' = batch \ {t}
    /\ UNCHANGED <<chainVars, tables, known, pc, lastHeight, maxHeight, contracts,
                   knownCodes, senders, seen, dbErr, queryTip, history, claim, shorts, boots>>

InsertFails(t) ==
    /\ pc = "insert"
    /\ t \in batch
    /\ dbFaults < MaxDBFaults
    /\ dbFaults' = dbFaults + 1
    /\ dbErr' = TRUE
    /\ batch' = batch \ {t}
    /\ UNCHANGED <<chainVars, tables, known, pc, lastHeight, maxHeight, contracts,
                   knownCodes, senders, seen, queryTip, history, claim, shorts, boots>>

\* The end of the cycle.
Finish ==
    /\ pc = "insert"
    /\ batch = {}
    /\ pc' = "idle"
    /\ EndCycle
    /\ UNCHANGED <<chainVars, burns, known, shorts, boots>>

\* The cursor moves, and vouches for what this cycle was about.
MoveCursor ==
    /\ cursor' = maxHeight
    /\ claim' = IF short \/ claim.known \cap knownAtRead = {}
                THEN [known |-> {}, passed |-> {}]
                ELSE [known  |-> claim.known \cap knownAtRead,
                      passed |-> claim.passed \cup (tipAtRead + 1 .. maxHeight)]

\* Mutant of Advance: the cursor moves in spite of database errors.
AdvanceAnyway ==
    /\ Finish
    /\ maxHeight > lastHeight
    /\ MoveCursor
    /\ UNCHANGED dbFaults

Advance ==
    /\ Finish
    /\ ~dbErr
    /\ maxHeight > lastHeight
    /\ MoveCursor
    /\ UNCHANGED dbFaults

\* Nothing new, or an insert failed: the cursor stays.
Stay ==
    /\ Finish
    /\ dbErr \/ maxHeight <= lastHeight
    /\ UNCHANGED <<cursor, claim, dbFaults>>

\* The update of sync_state fails and is only logged.
AdvanceFails ==
    /\ Finish
    /\ ~dbErr
    /\ maxHeight > lastHeight
    /\ dbFaults < MaxDBFaults
    /\ dbFaults' = dbFaults + 1
    /\ UNCHANGED <<cursor, claim>>

Grow ==
    /\ NewBlock
    /\ UNCHANGED <<tables, known, pc, locals, history, claim, counts>>

----------------------------------------------------------------------------------

\* The goroutine's own steps, as far as they need no luck.
Work ==
    \/ Start
    \/ ReadCursor
    \/ \E c \in Contracts : QueryContract(c)
    \/ SnapshotCodes \/ SnapshotCreators \/ SnapshotAdmins
    \/ \E s \in Accounts : QuerySender(s)
    \/ StartInserts
    \/ \E t \in Txs : Insert(t)
    \/ Advance
    \/ Stay

Faults ==
    \/ ReadCursorFails
    \/ \E t \in Txs : InsertFails(t)
    \/ AdvanceFails
    \/ Crash

Next ==
    \/ Grow
    \/ BootPlain \/ BootReindex \/ BootResetDB
    \/ \E c \in Contracts : Discover(c)
    \/ Work
    \/ Faults

Spec == Init /\ [][Next]_vars

\* The ticker and the goroutine keep running as long as the process does.
FairSpec == Spec /\ WF_vars(Work)

----------------------------------------------------------------------------------
(* Properties. *)

\* When a cycle moves the cursor, every paying transaction it saw is in the
\* table: "Cursor advances only when no DB insert errors occur"
\* (INDEXING-FLOW.md, section 6).
StoredBeforeAdvance ==
    [][Advance => \A t \in seen : Paying(t) => burns[t] # "absent"]_vars

\* The paying transactions between two heights that some contracts account for:
\* one of them is queried for it, or one of their creators is.
Scope(K, after, upto) ==
    LET asked == QueryableContracts(K, SkipCodes)
        codes == KnownCodeIDs(K)
    IN  {t \in UNION ({ContractTxs(c, after, upto) : c \in asked}
                       \cup {CreatorTxs(s, after, upto, codes) : s \in Creators(K)}) :
            Paying(t)}

\* On the chain, and accounted for by a contract known, when the cycle began.
InScope(t) == t \in Scope(knownAtRead, lastHeight, tipAtRead)

\* If every answer of a cycle was complete, moving the cursor leaves behind no
\* transaction that was there to be found when the cycle began, however the
\* chain, discovery, earlier crashes and failed inserts interfered.
NoLossBelowTipAtRead ==
    [][Advance /\ ~short => \A t \in Txs : InScope(t) => burns[t] # "absent"]_vars

\* What the cursor stands for, over any number of cycles and lives since it was last
\* reset: whatever lies between the start height and the cursor, and belongs to
\* contracts that every cycle began with and asked about without a short answer, is
\* in the table, unless its block arrived in the middle of the cycle that passed it.
CursorClaim ==
    \A t \in Scope(claim.known, StartHeight, cursor) :
        height[t] \in claim.passed \/ burns[t] # "absent"

\* The tables change only the way Ledger allows.
ImplementsLedger == L!Spec

\* Why it holds: what a cycle owes at each of its points.  The inductive
\* invariant behind the two properties above.
ScanInv ==
    /\ \A t \in Txs : height[t] <= tip
    /\ cursor <= tip \/ cursor = StartHeight
    /\ pc \notin Scanning => NoCycle
    /\ pc \in Scanning =>
         /\ lastHeight <= maxHeight /\ lastHeight = cursor
         /\ \A t \in seen : /\ TxInfo[t].ok
                            /\ height[t] \in 1 .. tip
                            /\ height[t] <= maxHeight
         /\ maxHeight = lastHeight \/ maxHeight <= tip
         /\ tipAtRead <= queryTip /\ queryTip <= tip
         /\ knownAtRead \subseteq known
         /\ QueryableContracts(knownAtRead, SkipCodes) # {}

\* Every contract already queried has given up its transactions.
ContractsInv ==
    pc \in Scanning /\ ~short =>
        \A c \in QueryableContracts(knownAtRead, SkipCodes) :
            \/ pc = "contracts" /\ c \in contracts
            \/ ContractTxs(c, lastHeight, tipAtRead) \subseteq seen

\* The snapshots hold at least what was known when the cycle began, and every
\* sender already queried has given up its transactions.
SendersInv ==
    /\ pc \in Scanning \ {"contracts"} =>
         KnownCodeIDs(knownAtRead) \subseteq knownCodes
    /\ pc = "admins" \/ (pc \in {"senders", "insert"} /\ ~short) =>
         \A s \in Creators(knownAtRead) :
            \/ s \in senders
            \/ CreatorTxs(s, lastHeight, tipAtRead, KnownCodeIDs(knownAtRead))
                 \subseteq seen
    /\ pc = "insert" => senders = {}

\* Every paying transaction the insert loop has left behind is in the table,
\* unless the cycle has seen a database error.
InsertInv ==
    pc = "insert" =>
        /\ batch \subseteq {t \in seen : Paying(t)}
        /\ dbErr \/ \A t \in seen \ batch : Paying(t) => burns[t] # "absent"

IInv == TypeOK /\ ScanInv /\ ContractsInv /\ SendersInv /\ InsertInv

\* The process is up, not in its idle wait, and a queryable contract in memory
\* is touched by a paying transaction on the chain.
Tracked(t) ==
    /\ pc \notin {"down", "parked"}
    /\ Paying(t) /\ height[t] > 0
    /\ TxInfo[t].touches \cap QueryableContracts(known, SkipCodes) # {}

\* A transaction that waits above the cursor between two cycles is stored in the
\* end, whatever fails in the database meanwhile: "On DB error: cursor stays,
\* entire batch retries next cycle" (INDEXING-FLOW.md, section 6).  It is
\* checked where no answer comes back short (MaxShort = 0), which loses it.
PendingEventuallyStored ==
    \A t \in Txs :
        (pc = "idle" /\ Tracked(t) /\ cursor < height[t])
            ~> (burns[t] # "absent" \/ ~Tracked(t))

----------------------------------------------------------------------------------
(* A statement of the documentation that the code breaks. *)

\* "sync_state.last_processed_event_id = highest processed block height"
\* (INDEXING-FLOW.md, section 6): a block the cursor passes has been processed
\* for every contract known since the cycle began.
PassedBlocksAreProcessed ==
    [][Advance => \A t \in Txs :
        (/\ Paying(t)
         /\ Between(t, lastHeight, cursor')
         /\ TxInfo[t].touches \cap QueryableContracts(knownAtRead, SkipCodes) # {})
            => burns[t] # "absent"]_vars
==================================================================================
