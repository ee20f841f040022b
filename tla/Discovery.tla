--------------------------------- MODULE Discovery -------------------------------
(***************************************************************************)
(* Contract discovery: Run, expand, expandFromCodesAndCreators,             *)
(* expandByCodeIDs and refreshLoop of internal/chain/discovery.go, request  *)
(* by request, with contracts being deployed meanwhile, lookups and database *)
(* calls that fail, and restarts that find the cached table.                *)
(*                                                                         *)
(* One variable pc stands for the whole process: Run goes through one        *)
(* expansion and hands over to refreshLoop, which repeats it; there is never *)
(* more than one.  The list under way (queue of expand, siblings and deployed *)
(* of the others) is kept as how often it holds each contract not yet known:  *)
(* its order is the node's choice, and known contracts in it are skipped.    *)
(* Likewise codesLeft and creatorsLeft are the codes and creators still to be *)
(* asked for: those of the contract just found while a seed is expanded, the  *)
(* snapshot of a refresh, the configured extras.                             *)
(***************************************************************************)
EXTENDS Metadata, Naturals

CONSTANTS
    Seeds,          \* contract.addresses
    ExtraCodes,     \* contract.extra_code_ids
    Refresh,        \* discovery.refresh_minutes > 0
    MaxFaults,      \* bound: failing lookups and database calls
    MaxBoots        \* bound: lives of the process

ASSUME DiscoveryAssumption ==
    /\ Seeds \subseteq Contracts
    /\ ExtraCodes \subseteq Codes
    /\ Refresh \in BOOLEAN
    /\ MaxFaults \in Nat /\ MaxBoots \in Nat

VARIABLES
    deployed,       \* the contracts on the chain
    cached,         \* addresses in roi_tracker.discovered_contracts
    known,          \* Discovery.contracts
    pc,
    queue,          \* contracts to be looked up, and how often
    codesLeft, creatorsLeft,
    expandedCodes, expandedCreators,
    newContracts,   \* found and not yet persisted
    begun,          \* history: what the expansion under way began with
    unsaved,        \* history: contracts that this life failed to persist
    faults, boots

frontier == <<queue, codesLeft, creatorsLeft, expandedCodes, expandedCreators>>
env      == <<deployed, boots>>
vars     == <<env, cached, known, pc, frontier, newContracts, begun, unsaved, faults>>

Expanding == {"seeds", "refresh", "extra"}

TypeOK ==
    /\ deployed \in SUBSET Contracts /\ cached \in SUBSET Contracts
    /\ known \in SUBSET Contracts
    /\ pc \in Expanding \cup {"down", "load", "expand", "idle"}
    /\ queue \in [Contracts -> Nat]
    /\ codesLeft \in SUBSET Codes /\ creatorsLeft \in SUBSET Accounts
    /\ expandedCodes \in SUBSET Codes /\ expandedCreators \in SUBSET Accounts
    /\ newContracts \in SUBSET Contracts /\ unsaved \in SUBSET Contracts
    /\ begun \in [known : SUBSET Contracts, deployed : SUBSET Contracts, faults : Nat]
    /\ faults \in Nat /\ boots \in Nat

Nothing == [c \in Contracts |-> 0]

Queued == {c \in Contracts : queue[c] > 0}

Init ==
    /\ deployed \in SUBSET Contracts
    /\ cached = {} /\ known = {} /\ pc = "down"
    /\ queue = Nothing /\ codesLeft = {} /\ creatorsLeft = {}
    /\ expandedCodes = {} /\ expandedCreators = {}
    /\ newContracts = {} /\ unsaved = {}
    /\ begun = [known |-> {}, deployed |-> {}, faults |-> 0]
    /\ faults = 0 /\ boots = 0

Fault == faults < MaxFaults /\ faults' = faults + 1

----------------------------------------------------------------------------------
(* What the node answers.  GetContractsByCode and GetContractsByCreator follow the *)
(* node's page keys to the end, or give up and return nothing.                     *)

Resolves(c) == c \in deployed

ByCode(k) == {c \in deployed : ContractInfo[c].code = k}

\* Mutant of ByCreator: the contracts that the account administers as well.
ByCreatorOrAdmin(a) ==
    {c \in deployed : a \in {ContractInfo[c].creator, ContractInfo[c].admin}}

ByCreator(a) == {c \in deployed : ContractInfo[c].creator = a}

Enqueue(answer) ==
    queue' = [c \in Contracts |->
                IF c \in answer \ known THEN queue[c] + 1 ELSE queue[c]]

----------------------------------------------------------------------------------
(* The life of the process. *)

\* A plain start, or one with --reindex, keeps the table; --reset-db drops it.
BootPlain == UNCHANGED cached

BootResetDB == cached' = {}

Boot ==
    /\ pc = "down"
    /\ boots < MaxBoots
    /\ boots' = boots + 1
    /\ pc' = "load"
    /\ BootPlain \/ BootResetDB
    /\ UNCHANGED <<deployed, known, frontier, newContracts, begun, unsaved, faults>>

\* loadCached; when it fails the map stays empty and discovery starts fresh.
Load ==
    /\ pc = "load"
    /\ pc' = "expand"
    /\ known' = cached
    /\ UNCHANGED <<env, cached, frontier, newContracts, begun, unsaved, faults>>

LoadFails ==
    /\ pc = "load"
    /\ pc' = "expand"
    /\ Fault
    /\ UNCHANGED <<env, cached, known, frontier, newContracts, begun, unsaved>>

\* The process may stop anywhere; only the table survives.
Crash ==
    /\ pc # "down"
    /\ pc' = "down"
    /\ known' = {} /\ queue' = Nothing
    /\ codesLeft' = {} /\ creatorsLeft' = {}
    /\ expandedCodes' = {} /\ expandedCreators' = {}
    /\ newContracts' = {} /\ unsaved' = {}
    /\ UNCHANGED <<env, cached, begun, faults>>

\* The chain gets another contract.
Deploy(c) ==
    /\ c \notin deployed
    /\ deployed' = deployed \cup {c}
    /\ UNCHANGED <<boots, cached, known, pc, frontier, newContracts, begun, unsaved,
                   faults>>

----------------------------------------------------------------------------------
(* One expansion. *)

\* Mutant of BeginExpand: a refresh asks again only for what does not count as
\* expanded, which is nothing.
BeginExpandOnce ==
    /\ pc = "expand"
    /\ expandedCodes' = KnownCodeIDs(known)
    /\ expandedCreators' = Creators(known)
    /\ queue' = [c \in Contracts |-> IF c \in Seeds \ known THEN 1 ELSE 0]
    /\ pc' = IF Seeds \subseteq known THEN "refresh" ELSE "seeds"
    /\ begun' = [known |-> known, deployed |-> deployed, faults |-> faults]
    /\ UNCHANGED <<env, cached, known, codesLeft, creatorsLeft, newContracts, unsaved,
                   faults>>

\* Codes and creators of known contracts count as expanded.  Only if every seed
\* is known already are they asked for again.
BeginExpand ==
    /\ pc = "expand"
    /\ expandedCodes' = KnownCodeIDs(known)
    /\ expandedCreators' = Creators(known)
    /\ queue' = [c \in Contracts |-> IF c \in Seeds \ known THEN 1 ELSE 0]
    /\ IF Seeds \subseteq known
       THEN /\ pc' = "refresh"
            /\ codesLeft' = KnownCodeIDs(known) /\ creatorsLeft' = Creators(known)
       ELSE /\ pc' = "seeds"
            /\ codesLeft' = {} /\ creatorsLeft' = {}
    /\ begun' = [known |-> known, deployed |-> deployed, faults |-> faults]
    /\ UNCHANGED <<env, cached, known, newContracts, unsaved, faults>>

\* Where the loops take the next address: after the seed's code and creator are
\* dealt with, and in a refresh after the last find is persisted.
AtLookUp ==
    /\ pc \in Expanding
    /\ pc = "seeds" => codesLeft = {} /\ creatorsLeft = {}
    /\ pc = "refresh" => newContracts = {}

\* Mutant of LookUp: a contract whose code is expanded is skipped altogether.
LookUpSkip(c) ==
    /\ AtLookUp
    /\ queue[c] > 0
    /\ Resolves(c)
    /\ known' = known \cup {c}
    /\ newContracts' = newContracts \cup {c}
    /\ queue' = [queue EXCEPT ![c] = 0]
    /\ IF pc = "seeds"
       THEN /\ codesLeft' = {ContractInfo[c].code} \ expandedCodes
            /\ creatorsLeft' = IF codesLeft' = {}
                               THEN {}
                               ELSE {ContractInfo[c].creator} \ expandedCreators
            /\ expandedCodes' = expandedCodes \cup {ContractInfo[c].code}
            /\ expandedCreators' = expandedCreators \cup {ContractInfo[c].creator}
       ELSE UNCHANGED <<codesLeft, creatorsLeft, expandedCodes, expandedCreators>>
    /\ UNCHANGED <<env, cached, pc, begun, unsaved, faults>>

\* GetContractInfo answers: the contract enters the map, and behind a seed its
\* code and creator are to be asked for, unless they have been; they count as
\* expanded from here on, whatever becomes of the two requests.
LookUp(c) ==
    /\ AtLookUp
    /\ queue[c] > 0
    /\ Resolves(c)
    /\ known' = known \cup {c}
    /\ newContracts' = newContracts \cup {c}
    /\ queue' = [queue EXCEPT ![c] = 0]
    /\ IF pc = "seeds"
       THEN /\ codesLeft' = {ContractInfo[c].code} \ expandedCodes
            /\ creatorsLeft' = {ContractInfo[c].creator} \ expandedCreators
            /\ expandedCodes' = expandedCodes \cup codesLeft'
            /\ expandedCreators' = expandedCreators \cup creatorsLeft'
       ELSE UNCHANGED <<codesLeft, creatorsLeft, expandedCodes, expandedCreators>>
    /\ UNCHANGED <<env, cached, pc, begun, unsaved, faults>>

\* Mutant of LookUpFails: the loop is left instead of continued.
LookUpFailsBreak(c) ==
    /\ AtLookUp
    /\ queue[c] > 0
    /\ IF Resolves(c) THEN Fault ELSE UNCHANGED faults
    /\ queue' = Nothing
    /\ UNCHANGED <<env, cached, known, pc, codesLeft, creatorsLeft, expandedCodes,
                   expandedCreators, newContracts, begun, unsaved>>

\* The address is skipped: the node does not know it, or the request failed.
LookUpFails(c) ==
    /\ AtLookUp
    /\ queue[c] > 0
    /\ IF Resolves(c) THEN Fault ELSE UNCHANGED faults
    /\ queue' = [queue EXCEPT ![c] = @ - 1]
    /\ UNCHANGED <<env, cached, known, pc, codesLeft, creatorsLeft, expandedCodes,
                   expandedCreators, newContracts, begun, unsaved>>

\* Where a list is asked for: at once behind a seed, after the whole list before
\* it elsewhere.
AtList == pc = "seeds" \/ (AtLookUp /\ Queued = {})

\* A list arrives, or its request fails and it is passed over.
Listed(answer) ==
    \/ Enqueue(answer) /\ UNCHANGED faults
    \/ Fault /\ UNCHANGED queue

\* Mutant of NextCode: a code whose request failed is asked for once more.
NextCodeRetry(k) ==
    /\ k \in codesLeft
    /\ AtList
    /\ \/ Enqueue(ByCode(k)) /\ codesLeft' = codesLeft \ {k} /\ UNCHANGED faults
       \/ Fault /\ UNCHANGED <<codesLeft, queue>>
    /\ UNCHANGED <<env, cached, known, pc, creatorsLeft, expandedCodes,
                   expandedCreators, newContracts, begun, unsaved>>

NextCode(k) ==
    /\ k \in codesLeft
    /\ AtList
    /\ codesLeft' = codesLeft \ {k}
    /\ Listed(ByCode(k))
    /\ UNCHANGED <<env, cached, known, pc, creatorsLeft, expandedCodes,
                   expandedCreators, newContracts, begun, unsaved>>

NextCreator(a) ==
    /\ codesLeft = {}
    /\ a \in creatorsLeft
    /\ AtList
    /\ creatorsLeft' = creatorsLeft \ {a}
    /\ Listed(ByCreator(a))
    /\ UNCHANGED <<env, cached, known, pc, codesLeft, expandedCodes,
                   expandedCreators, newContracts, begun, unsaved>>

----------------------------------------------------------------------------------
(* The cached table. *)

\* persistContracts is one batch, hence one transaction; a connection that
\* breaks may leave it committed or not.  A failure is only logged.
Save ==
    /\ newContracts' = {}
    /\ \/ cached' = cached \cup newContracts /\ UNCHANGED <<unsaved, faults>>
       \/ /\ newContracts # {}
          /\ Fault
          /\ unsaved' = unsaved \cup newContracts
          /\ cached' \in {cached, cached \cup newContracts}

\* A refresh persists each contract as it finds it.
Persist ==
    /\ pc = "refresh"
    /\ newContracts # {}
    /\ Save
    /\ UNCHANGED <<env, known, pc, frontier, begun>>

Exhausted == AtLookUp /\ Queued = {} /\ codesLeft = {} /\ creatorsLeft = {}

\* Mutant of EndExpand: the batch of the seeds is left to the extra codes, whose
\* own list starts empty.
EndExpandUnsaved ==
    /\ pc \in {"seeds", "refresh"}
    /\ Exhausted
    /\ newContracts' = {}
    /\ pc' = "extra"
    /\ codesLeft' = ExtraCodes
    /\ expandedCodes' = {} /\ expandedCreators' = {}
    /\ UNCHANGED <<env, cached, known, queue, creatorsLeft, begun, unsaved, faults>>

\* The other two persist what they found at their end.
EndExpand ==
    /\ pc \in {"seeds", "refresh"}
    /\ Exhausted
    /\ Save
    /\ pc' = "extra"
    /\ codesLeft' = ExtraCodes
    /\ expandedCodes' = {} /\ expandedCreators' = {}
    /\ UNCHANGED <<env, known, queue, creatorsLeft, begun>>

EndExtra ==
    /\ pc = "extra"
    /\ Exhausted
    /\ Save
    /\ pc' = "idle"
    /\ UNCHANGED <<env, known, frontier, begun>>

\* Mutant of Tick: a refresh begins with what the table has.
TickReload ==
    /\ Refresh
    /\ pc = "idle"
    /\ pc' = "expand"
    /\ known' = cached
    /\ UNCHANGED <<env, cached, frontier, newContracts, begun, unsaved, faults>>

Tick ==
    /\ Refresh
    /\ pc = "idle"
    /\ pc' = "expand"
    /\ UNCHANGED <<env, cached, known, frontier, newContracts, begun, unsaved, faults>>

----------------------------------------------------------------------------------

Work ==
    \/ Load \/ LoadFails \/ BeginExpand
    \/ \E c \in Contracts : LookUp(c) \/ LookUpFails(c)
    \/ \E k \in Codes : NextCode(k)
    \/ \E a \in Accounts : NextCreator(a)
    \/ Persist \/ EndExpand \/ EndExtra \/ Tick

Next ==
    \/ Work
    \/ Boot \/ Crash
    \/ \E c \in Contracts : Deploy(c)

Spec == Init /\ [][Next]_vars

\* As long as the process lives, its calls return and its ticker fires.
FairSpec == Spec /\ WF_vars(Work)

----------------------------------------------------------------------------------
(* What discovery promises. *)

\* A set that has the seeds on the chain, every contract of an extra code, and
\* with a contract all others of its code and of its creator.
Closed(S) ==
    /\ Seeds \cap deployed \subseteq S
    /\ \A c \in deployed :
         \/ ContractInfo[c].code \in ExtraCodes \cup KnownCodeIDs(S)
         \/ ContractInfo[c].creator \in Creators(S)
         => c \in S

\* Only contracts related to the seeds are ever indexed or remembered: whatever
\* is in the map or in the table lies in the closure of the seeds and the extra
\* codes (expand, expandFromCodesAndCreators, expandByCodeIDs).
KnownReachable ==
    \A S \in SUBSET Contracts : Closed(S) => known \cup cached \subseteq S

\* When an expansion is over, every contract in the map is in the table, unless
\* the write failed in this life (persistContracts, whose error is only logged).
SavedAtRest == pc = "idle" => known \ cached \subseteq unsaved

\* Whoever reads the map while discovery works sees it grow by one contract at a
\* time and never shrink, whatever a refresh fails to ask for or to persist.
M == INSTANCE ContractMap WITH running <- pc \notin {"down", "load"}, known <- known
ImplementsMap == M!Spec

\* What an expansion asks for: everything known when it began if no seed was
\* missing then, otherwise only codes and creators it met for the first time.
CodesDue ==
    IF Seeds \subseteq begun.known
    THEN KnownCodeIDs(begun.known)
    ELSE KnownCodeIDs(known) \ KnownCodeIDs(begun.known)

CreatorsDue ==
    IF Seeds \subseteq begun.known
    THEN Creators(begun.known)
    ELSE Creators(known) \ Creators(begun.known)

EndsExpansion == pc \in {"seeds", "refresh"} /\ pc' = "extra"

\* An expansion in which no request failed has found every seed, and every
\* contract of a due code or creator, that was on the chain when it began.
ExpansionComplete ==
    [][EndsExpansion /\ faults = begun.faults =>
         \A c \in begun.deployed :
           \/ c \in Seeds
           \/ ContractInfo[c].code \in CodesDue
           \/ ContractInfo[c].creator \in CreatorsDue
           => c \in known]_vars

\* Every step of an expansion on a chain that stands still brings its end nearer: it
\* knows one more contract; or it knows no more and has less left to ask for; or it
\* has the same left to ask for and fewer addresses to look up; or it has persisted
\* what it found.  No address, code or creator keeps it going round, failing or not.
Nearer ==
    \/ known \subseteq known' /\ known' # known
    \/ /\ known' = known
       /\ codesLeft' \subseteq codesLeft /\ creatorsLeft' \subseteq creatorsLeft
       /\ <<codesLeft', creatorsLeft'>> # <<codesLeft, creatorsLeft>>
    \/ /\ UNCHANGED <<known, codesLeft, creatorsLeft>>
       /\ \A c \in Contracts : queue'[c] <= queue[c]
       /\ queue' # queue
    \/ /\ UNCHANGED <<known, codesLeft, creatorsLeft, queue>>
       /\ newContracts # {} /\ newContracts' = {}

GoesOn == pc \in Expanding /\ pc' = pc /\ deployed' = deployed

ExpansionProgress == [][GoesOn => Nearer]_vars

\* A periodic refresh finds the whole closure in the end, provided that each seed
\* gets onto the chain, however often requests failed before.
AllFound ==
    Refresh => <>[](pc # "down" /\ Seeds \subseteq deployed => Closed(known))

\* "periodically re-runs discovery to catch newly deployed contracts"
\* (discovery.go:422): a contract of a known code or creator is found in the end.
RefreshCatchesNew ==
    Refresh =>
      <>[](pc # "down" =>
             \A c \in deployed :
               \/ ContractInfo[c].code \in KnownCodeIDs(known)
               \/ ContractInfo[c].creator \in Creators(known)
               => c \in known)

----------------------------------------------------------------------------------
(* The inductive invariant behind the safety properties. *)

\* The lists only lead to contracts of the closure.
ReachInv ==
    /\ known \cup cached \cup begun.deployed \subseteq deployed
    /\ \A S \in SUBSET Contracts :
         Closed(S) => known \cup cached \subseteq S /\ Queued \subseteq S \cup Seeds
    /\ pc = "extra" => codesLeft \subseteq ExtraCodes
    /\ pc # "extra" => codesLeft \subseteq KnownCodeIDs(known)
    /\ creatorsLeft \subseteq Creators(known)

\* What is in the map is in the table, about to be, or failed to be.
SavedInv ==
    /\ known \subseteq cached \cup newContracts \cup unsaved
    /\ newContracts \subseteq known
    /\ pc \in {"down", "load"} => known = {}
    /\ pc \notin Expanding => newContracts = {}

\* What is due and was asked for without a failure is known or in the queue.
SearchInv ==
    pc \in {"seeds", "refresh"} =>
        /\ pc = "refresh" <=> Seeds \subseteq begun.known
        /\ begun.known \subseteq known
        /\ begun.faults <= faults
        /\ pc = "seeds" => /\ expandedCodes = KnownCodeIDs(known)
                           /\ expandedCreators = Creators(known)
        /\ faults = begun.faults =>
             \A c \in begun.deployed \ known :
               \/ c \in Seeds
               \/ ContractInfo[c].code \in CodesDue \ codesLeft
               \/ ContractInfo[c].creator \in CreatorsDue \ creatorsLeft
               => queue[c] > 0

\* Only what is not known yet waits to be looked up, and only in an expansion.
QueueInv ==
    /\ Queued \cap known = {}
    /\ pc \notin Expanding => Queued = {}

\* The variables keep their types, what is reached belongs to the closure, what
\* is known reaches the table, and nothing due gets lost on the way.
IInv == TypeOK /\ ReachInv /\ SavedInv /\ SearchInv /\ QueueInv
==================================================================================
