------------------------------ MODULE DiscoveryProofs ----------------------------
(***************************************************************************)
(* Machine-checked proofs about Discovery: IInv is inductive, discovery      *)
(* stays within the closure of its seeds, what it finds reaches the table,    *)
(* and an expansion without a failure misses nothing that was due.            *)
(***************************************************************************)
EXTENDS Discovery, MetadataProofs

USE DEF Expanding

LEMMA Shapes ==
    /\ Seeds \in SUBSET Contracts /\ ExtraCodes \in SUBSET Codes
    /\ MaxFaults \in Nat /\ MaxBoots \in Nat
    /\ \A c \in Contracts : /\ ContractInfo[c].code \in Codes
                            /\ ContractInfo[c].creator \in Accounts
  BY DiscoveryAssumption, ContractInfoAssumption

----------------------------------------------------------------------------------
(* Type correctness. *)

LEMMA TypeInit == Init => TypeOK
  BY DEF Init, TypeOK, Nothing

LEMMA TypeLookUp ==
    ASSUME TypeOK, NEW c \in Contracts, LookUp(c)
    PROVE  TypeOK'
  <1>. USE Shapes DEF TypeOK, LookUp, frontier, env
  <1>1. /\ known' \in SUBSET Contracts /\ newContracts' \in SUBSET Contracts
        /\ queue' \in [Contracts -> Nat]
        /\ UNCHANGED <<env, cached, pc, begun, unsaved, faults>>
    OBVIOUS
  <1>2. /\ codesLeft' \in SUBSET Codes /\ expandedCodes' \in SUBSET Codes
        /\ creatorsLeft' \in SUBSET Accounts /\ expandedCreators' \in SUBSET Accounts
    <2>1. CASE pc = "seeds"
      BY <2>1
    <2>2. CASE pc # "seeds"
      BY <2>2
    <2>. QED
      BY <2>1, <2>2
  <1>. QED
    BY <1>1, <1>2

LEMMA TypeStep == TypeOK /\ [Next]_vars => TypeOK'
  <1> SUFFICES ASSUME TypeOK, [Next]_vars PROVE TypeOK'
    OBVIOUS
  <1>. USE Shapes DEF TypeOK
  <1>1. CASE Load
    BY <1>1 DEF Load, frontier, env
  <1>2. CASE LoadFails
    BY <1>2 DEF LoadFails, Fault, frontier, env
  <1>3. CASE BeginExpand
    <2>1. /\ KnownCodeIDs(known) \in SUBSET Codes
          /\ Creators(known) \in SUBSET Accounts
      BY SnapshotFacts
    <2>2. /\ codesLeft' \in SUBSET Codes /\ creatorsLeft' \in SUBSET Accounts
          /\ pc' \in Expanding
      BY <1>3, <2>1 DEF BeginExpand
    <2>3. /\ queue' \in [Contracts -> Nat]
          /\ begun' \in [known : SUBSET Contracts, deployed : SUBSET Contracts,
                         faults : Nat]
          /\ expandedCodes' \in SUBSET Codes /\ expandedCreators' \in SUBSET Accounts
      BY <1>3, <2>1 DEF BeginExpand
    <2>. QED
      BY <1>3, <2>2, <2>3 DEF BeginExpand, env
  <1>4. ASSUME NEW c \in Contracts, LookUp(c) PROVE TypeOK'
    BY <1>4, TypeLookUp
  <1>5. ASSUME NEW c \in Contracts, LookUpFails(c) PROVE TypeOK'
    <2>1. queue' \in [Contracts -> Nat]
      BY <1>5 DEF LookUpFails
    <2>2. faults' \in Nat
      BY <1>5 DEF LookUpFails, Fault
    <2>. QED
      BY <1>5, <2>1, <2>2 DEF LookUpFails, env
  <1>6. ASSUME NEW k \in Codes, NextCode(k) PROVE TypeOK'
    <2>1. queue' \in [Contracts -> Nat] /\ faults' \in Nat
      BY <1>6 DEF NextCode, Listed, Enqueue, Fault
    <2>. QED
      BY <1>6, <2>1 DEF NextCode, env
  <1>7. ASSUME NEW a \in Accounts, NextCreator(a) PROVE TypeOK'
    <2>1. queue' \in [Contracts -> Nat] /\ faults' \in Nat
      BY <1>7 DEF NextCreator, Listed, Enqueue, Fault
    <2>. QED
      BY <1>7, <2>1 DEF NextCreator, env
  <1>8. CASE Persist
    BY <1>8 DEF Persist, Save, Fault, frontier, env
  <1>9. CASE EndExpand
    BY <1>9 DEF EndExpand, Save, Fault, env
  <1>10. CASE EndExtra
    BY <1>10 DEF EndExtra, Save, Fault, frontier, env
  <1>11. CASE Tick
    BY <1>11 DEF Tick, frontier, env
  <1>12. CASE Boot
    BY <1>12 DEF Boot, BootPlain, BootResetDB, frontier
  <1>13. CASE Crash
    BY <1>13 DEF Crash, Nothing, env
  <1>14. ASSUME NEW c \in Contracts, Deploy(c) PROVE TypeOK'
    BY <1>14 DEF Deploy, frontier
  <1>15. CASE UNCHANGED vars
    BY <1>15 DEF vars, frontier, env
  <1>. QED
    BY <1>1, <1>2, <1>3, <1>4, <1>5, <1>6, <1>7, <1>8, <1>9, <1>10, <1>11, <1>12,
       <1>13, <1>14, <1>15 DEF Next, Work

\* Every variable of discovery keeps its type, for any metadata and any bounds.
THEOREM TypeInvariant == Spec => []TypeOK
  BY TypeInit, TypeStep, PTL DEF Spec

----------------------------------------------------------------------------------
(* Reachability. *)

LEMMA ReachInit == Init => ReachInv
  BY DEF Init, ReachInv, Queued, Nothing

\* What is closed on a larger chain is closed on a smaller one.
LEMMA ClosedShrinks ==
    ASSUME deployed \subseteq deployed', NEW S \in SUBSET Contracts, Closed(S)'
    PROVE  Closed(S)
  BY DEF Closed, KnownCodeIDs, Creators

\* The lists asked for stay within every closed set.
LEMMA ListsReach ==
    ASSUME TypeOK, ReachInv, NEW S \in SUBSET Contracts, Closed(S)
    PROVE  /\ \A k \in codesLeft : ByCode(k) \subseteq S
           /\ \A a \in creatorsLeft : ByCreator(a) \subseteq S
  <1>1. known \in SUBSET Contracts /\ known \subseteq S
    BY DEF TypeOK, ReachInv
  <1>2. KnownCodeIDs(known) \subseteq KnownCodeIDs(S) /\ Creators(known) \subseteq Creators(S)
    BY <1>1, SnapshotMonotone
  <1>3. codesLeft \subseteq ExtraCodes \cup KnownCodeIDs(S) /\ creatorsLeft \subseteq Creators(S)
    BY <1>2 DEF ReachInv
  <1>. QED
    BY <1>3 DEF Closed, ByCode, ByCreator

LEMMA EnqueueFacts ==
    ASSUME TypeOK, NEW answer, Enqueue(answer)
    PROVE  Queued' \subseteq Queued \cup (answer \ known)
  BY DEF TypeOK, Enqueue, Queued

\* A step that leaves the sets and the lists alone.
LEMMA ReachFrame ==
    ASSUME ReachInv,
           UNCHANGED <<deployed, known, cached, codesLeft, creatorsLeft>>,
           begun'.deployed \subseteq deployed,
           Queued' \subseteq Queued \cup Seeds,
           pc' = "extra" <=> pc = "extra"
    PROVE  ReachInv'
  <1>1. ASSUME NEW S \in SUBSET Contracts, Closed(S)'
        PROVE  known' \cup cached' \subseteq S /\ Queued' \subseteq S \cup Seeds
    <2>1. Closed(S)
      BY <1>1, ClosedShrinks
    <2>. QED
      BY <2>1 DEF ReachInv
  <1>2. KnownCodeIDs(known') = KnownCodeIDs(known) /\ Creators(known') = Creators(known)
    OBVIOUS
  <1>. QED
    BY <1>1, <1>2 DEF ReachInv

LEMMA ReachBegin ==
    ASSUME TypeOK, ReachInv, BeginExpand
    PROVE  ReachInv'
  <1>. USE DEF BeginExpand, env
  <1>1. UNCHANGED <<deployed, known, cached>> /\ begun'.deployed = deployed
        /\ pc' # "extra"
    OBVIOUS
  <1>2. codesLeft' \subseteq KnownCodeIDs(known) /\ creatorsLeft' \subseteq Creators(known)
    OBVIOUS
  <1>3. Queued' \subseteq Seeds
    BY DEF Queued
  <1>4. ASSUME NEW S \in SUBSET Contracts, Closed(S)'
        PROVE  known' \cup cached' \subseteq S /\ Queued' \subseteq S \cup Seeds
    BY <1>1, <1>3, <1>4, ClosedShrinks DEF ReachInv
  <1>5. KnownCodeIDs(known') = KnownCodeIDs(known) /\ Creators(known') = Creators(known)
    BY <1>1
  <1>. QED
    BY <1>1, <1>2, <1>4, <1>5 DEF ReachInv

LEMMA ReachLookUp ==
    ASSUME TypeOK, ReachInv, NEW c \in Contracts, LookUp(c)
    PROVE  ReachInv'
  <1>1. /\ UNCHANGED <<deployed, cached, begun, pc>> /\ c \in deployed /\ c \in Queued
        /\ known' = known \cup {c} /\ known \in SUBSET Contracts
    BY DEF LookUp, Resolves, Queued, env, TypeOK
  <1>2. Queued' \subseteq Queued
    BY DEF LookUp, Queued, TypeOK
  <1>3. ASSUME NEW S \in SUBSET Contracts, Closed(S)'
        PROVE  known' \cup cached' \subseteq S /\ Queued' \subseteq S \cup Seeds
    <2>1. Closed(S)
      BY <1>1, <1>3, ClosedShrinks
    <2>2. c \in S
      BY <1>1, <2>1 DEF ReachInv, Closed
    <2>. QED
      BY <1>1, <1>2, <2>1, <2>2 DEF ReachInv
  <1>4. /\ KnownCodeIDs(known') = KnownCodeIDs(known) \cup {ContractInfo[c].code}
        /\ Creators(known') = Creators(known) \cup {ContractInfo[c].creator}
    BY <1>1, SnapshotAdd
  <1>5. CASE pc = "seeds"
    <2>1. /\ codesLeft' \subseteq {ContractInfo[c].code}
          /\ creatorsLeft' \subseteq {ContractInfo[c].creator}
      BY <1>5 DEF LookUp
    <2>. QED
      BY <1>1, <1>3, <1>4, <1>5, <2>1 DEF ReachInv
  <1>6. CASE pc # "seeds"
    <2>1. UNCHANGED <<codesLeft, creatorsLeft>>
      BY <1>6 DEF LookUp
    <2>. QED
      BY <1>1, <1>3, <1>4, <1>6, <2>1 DEF ReachInv
  <1>. QED
    BY <1>5, <1>6

\* A list was asked for, and what remains to be asked for got less.
LEMMA ReachListed ==
    ASSUME TypeOK, ReachInv, NEW answer, Listed(answer),
           UNCHANGED <<deployed, known, cached, begun, pc>>,
           codesLeft' \subseteq codesLeft, creatorsLeft' \subseteq creatorsLeft,
           \A S \in SUBSET Contracts : Closed(S) => answer \subseteq S
    PROVE  ReachInv'
  <1>1. Queued' \subseteq Queued \cup answer
    <2>1. CASE Enqueue(answer)
      BY <2>1, EnqueueFacts
    <2>2. CASE UNCHANGED queue
      BY <2>2 DEF Queued
    <2>. QED
      BY <2>1, <2>2 DEF Listed
  <1>2. ASSUME NEW S \in SUBSET Contracts, Closed(S)'
        PROVE  known' \cup cached' \subseteq S /\ Queued' \subseteq S \cup Seeds
    <2>1. Closed(S)
      BY <1>2, ClosedShrinks
    <2>. QED
      BY <1>1, <2>1 DEF ReachInv
  <1>3. KnownCodeIDs(known') = KnownCodeIDs(known) /\ Creators(known') = Creators(known)
    OBVIOUS
  <1>. QED
    BY <1>2, <1>3 DEF ReachInv

\* A step that only saves, or ends a phase, or drops what the process had.
LEMMA ReachShrinks ==
    ASSUME TypeOK, ReachInv,
           deployed \subseteq deployed', UNCHANGED begun,
           known' \cup cached' \subseteq known \cup cached \cup newContracts,
           newContracts \subseteq known,
           Queued' \subseteq Queued,
           pc' = "extra" => codesLeft' \subseteq ExtraCodes,
           pc' # "extra" => codesLeft' \subseteq KnownCodeIDs(known'),
           creatorsLeft' \subseteq Creators(known')
    PROVE  ReachInv'
  <1>1. ASSUME NEW S \in SUBSET Contracts, Closed(S)'
        PROVE  known' \cup cached' \subseteq S /\ Queued' \subseteq S \cup Seeds
    <2>1. Closed(S)
      BY <1>1, ClosedShrinks
    <2>. QED
      BY <2>1 DEF ReachInv
  <1>2. known' \cup cached' \cup begun'.deployed \subseteq deployed'
    BY DEF ReachInv
  <1>. QED
    BY <1>1, <1>2 DEF ReachInv

LEMMA NoSnapshot == KnownCodeIDs({}) = {} /\ Creators({}) = {}
  BY DEF KnownCodeIDs, Creators

LEMMA SaveFacts ==
    ASSUME Save
    PROVE  /\ newContracts' = {} /\ cached \subseteq cached'
           /\ cached' \subseteq cached \cup newContracts
           /\ newContracts \subseteq cached' \cup unsaved' /\ unsaved \subseteq unsaved'
  BY DEF Save

LEMMA ReachStep == TypeOK /\ ReachInv /\ SavedInv /\ [Next]_vars => ReachInv'
  <1> SUFFICES ASSUME TypeOK, ReachInv, SavedInv, [Next]_vars PROVE ReachInv'
    OBVIOUS
  <1>. USE DEF env, frontier
  <1>0. newContracts \subseteq known /\ begun.deployed \subseteq deployed
    BY DEF SavedInv, ReachInv
  <1>1. CASE Load
    <2>1. known = {} /\ pc # "extra"
      BY <1>1 DEF Load, SavedInv
    <2>2. codesLeft = {} /\ creatorsLeft = {}
      BY <2>1, NoSnapshot DEF ReachInv
    <2>. QED
      BY <1>0, <1>1, <2>2, ReachShrinks DEF Load, Queued
  <1>2. CASE LoadFails
    BY <1>0, <1>2, ReachFrame DEF LoadFails, Queued
  <1>3. CASE BeginExpand
    BY <1>3, ReachBegin
  <1>4. ASSUME NEW c \in Contracts, LookUp(c) PROVE ReachInv'
    BY <1>4, ReachLookUp
  <1>5. ASSUME NEW c \in Contracts, LookUpFails(c) PROVE ReachInv'
    <2>1. Queued' \subseteq Queued
      BY <1>5 DEF LookUpFails, Queued, TypeOK
    <2>. QED
      BY <1>0, <1>5, <2>1, ReachFrame DEF LookUpFails
  <1>6. ASSUME NEW k \in Codes, NextCode(k) PROVE ReachInv'
    <2>1. /\ Listed(ByCode(k)) /\ codesLeft' \subseteq codesLeft
          /\ UNCHANGED <<deployed, known, cached, begun, pc, creatorsLeft>>
      BY <1>6 DEF NextCode
    <2>2. \A S \in SUBSET Contracts : Closed(S) => ByCode(k) \subseteq S
      BY <1>6, ListsReach DEF NextCode
    <2>. QED
      BY <2>1, <2>2, ReachListed
  <1>7. ASSUME NEW a \in Accounts, NextCreator(a) PROVE ReachInv'
    <2>1. /\ Listed(ByCreator(a)) /\ creatorsLeft' \subseteq creatorsLeft
          /\ UNCHANGED <<deployed, known, cached, begun, pc, codesLeft>>
      BY <1>7 DEF NextCreator
    <2>2. \A S \in SUBSET Contracts : Closed(S) => ByCreator(a) \subseteq S
      BY <1>7, ListsReach DEF NextCreator
    <2>. QED
      BY <2>1, <2>2, ReachListed
  <1>8. CASE Persist
    <2>1. Save /\ UNCHANGED <<env, known, pc, frontier, begun>>
      BY <1>8 DEF Persist
    <2>2. known' \cup cached' \subseteq known \cup cached \cup newContracts
      BY <2>1, SaveFacts
    <2>. QED
      BY <1>0, <2>1, <2>2, ReachShrinks DEF ReachInv, Queued
  <1>9. CASE EndExpand
    <2>1. /\ Save /\ UNCHANGED <<env, known, queue, creatorsLeft, begun>>
          /\ pc' = "extra" /\ codesLeft' = ExtraCodes
      BY <1>9 DEF EndExpand
    <2>2. known' \cup cached' \subseteq known \cup cached \cup newContracts
      BY <2>1, SaveFacts
    <2>. QED
      BY <1>0, <2>1, <2>2, ReachShrinks DEF ReachInv, Queued
  <1>10. CASE EndExtra
    <2>1. /\ Save /\ UNCHANGED <<env, known, frontier, begun>>
          /\ pc' = "idle" /\ codesLeft = {}
      BY <1>10 DEF EndExtra, Exhausted
    <2>2. known' \cup cached' \subseteq known \cup cached \cup newContracts
      BY <2>1, SaveFacts
    <2>. QED
      BY <1>0, <2>1, <2>2, ReachShrinks DEF ReachInv, Queued
  <1>11. CASE Tick
    BY <1>0, <1>11, ReachFrame DEF Tick, Queued
  <1>12. CASE Boot
    <2>1. cached' \subseteq cached
      BY <1>12 DEF Boot, BootPlain, BootResetDB
    <2>2. UNCHANGED <<deployed, known, frontier, begun>> /\ pc # "extra" /\ pc' # "extra"
      BY <1>12 DEF Boot
    <2>. QED
      BY <1>0, <2>1, <2>2, ReachShrinks DEF ReachInv, Queued
  <1>13. CASE Crash
    <2>1. /\ UNCHANGED <<deployed, cached, begun>> /\ known' = {} /\ pc' = "down"
          /\ codesLeft' = {} /\ creatorsLeft' = {}
      BY <1>13 DEF Crash
    <2>2. Queued' = {}
      BY <1>13 DEF Crash, Queued, Nothing
    <2>. QED
      BY <1>0, <2>1, <2>2, ReachShrinks
  <1>14. ASSUME NEW c \in Contracts, Deploy(c) PROVE ReachInv'
    <2>1. deployed \subseteq deployed'
          /\ UNCHANGED <<known, cached, pc, frontier, begun>>
      BY <1>14 DEF Deploy
    <2>. QED
      BY <1>0, <2>1, ReachShrinks DEF ReachInv, Queued
  <1>15. CASE UNCHANGED vars
    BY <1>0, <1>15, ReachFrame DEF vars, Queued
  <1>. QED
    BY <1>1, <1>2, <1>3, <1>4, <1>5, <1>6, <1>7, <1>8, <1>9, <1>10, <1>11, <1>12,
       <1>13, <1>14, <1>15 DEF Next, Work

----------------------------------------------------------------------------------
(* What is known reaches the table. *)

LEMMA SavedStep == TypeOK /\ SavedInv /\ [Next]_vars => SavedInv'
  <1> SUFFICES ASSUME TypeOK, SavedInv, [Next]_vars PROVE SavedInv'
    OBVIOUS
  <1>. USE DEF SavedInv, env, frontier
  <1>1. CASE Load
    BY <1>1 DEF Load
  <1>2. CASE LoadFails
    BY <1>2 DEF LoadFails
  <1>3. CASE BeginExpand
    BY <1>3 DEF BeginExpand
  <1>4. ASSUME NEW c \in Contracts, LookUp(c) PROVE SavedInv'
    BY <1>4 DEF LookUp, AtLookUp
  <1>5. ASSUME NEW c \in Contracts, LookUpFails(c) PROVE SavedInv'
    BY <1>5 DEF LookUpFails
  <1>6. ASSUME NEW k \in Codes, NextCode(k) PROVE SavedInv'
    BY <1>6 DEF NextCode
  <1>7. ASSUME NEW a \in Accounts, NextCreator(a) PROVE SavedInv'
    BY <1>7 DEF NextCreator
  <1>8. CASE Persist
    BY <1>8, SaveFacts DEF Persist
  <1>9. CASE EndExpand
    BY <1>9, SaveFacts DEF EndExpand
  <1>10. CASE EndExtra
    BY <1>10, SaveFacts DEF EndExtra
  <1>11. CASE Tick
    BY <1>11 DEF Tick
  <1>12. CASE Boot
    BY <1>12 DEF Boot
  <1>13. CASE Crash
    BY <1>13 DEF Crash
  <1>14. ASSUME NEW c \in Contracts, Deploy(c) PROVE SavedInv'
    BY <1>14 DEF Deploy
  <1>15. CASE UNCHANGED vars
    BY <1>15 DEF vars
  <1>. QED
    BY <1>1, <1>2, <1>3, <1>4, <1>5, <1>6, <1>7, <1>8, <1>9, <1>10, <1>11, <1>12,
       <1>13, <1>14, <1>15 DEF Next, Work

----------------------------------------------------------------------------------
(* Nothing due gets lost. *)

Searching == pc \in {"seeds", "refresh"}

\* SearchInv for one contract.
Awaited(c) ==
    \/ c \in Seeds
    \/ ContractInfo[c].code \in CodesDue \ codesLeft
    \/ ContractInfo[c].creator \in CreatorsDue \ creatorsLeft

LEMMA SearchBegin ==
    ASSUME TypeOK, BeginExpand
    PROVE  SearchInv'
  <1>. USE DEF BeginExpand
  <1>1. /\ begun'.known = known /\ begun'.deployed = deployed /\ begun'.faults = faults
        /\ known' = known /\ faults' = faults /\ faults \in Nat
    BY DEF TypeOK
  <1>2. expandedCodes' = KnownCodeIDs(known') /\ expandedCreators' = Creators(known')
    BY <1>1
  <1>3. pc' = "refresh" <=> Seeds \subseteq begun'.known
    BY <1>1
  <1>4. ASSUME NEW c \in begun'.deployed \ known', Awaited(c)'
        PROVE  queue'[c] > 0
    <2>1. c \in Contracts /\ c \notin known
      BY <1>1, <1>4 DEF TypeOK
    <2>2. CASE Seeds \subseteq known
      <3>1. CodesDue' = codesLeft' /\ CreatorsDue' = creatorsLeft'
        BY <1>1, <2>2 DEF CodesDue, CreatorsDue
      <3>. QED
        BY <1>4, <2>1, <2>2, <3>1 DEF Awaited
    <2>3. CASE ~(Seeds \subseteq known)
      <3>1. CodesDue' = {} /\ CreatorsDue' = {}
        BY <1>1, <2>3 DEF CodesDue, CreatorsDue
      <3>2. c \in Seeds
        BY <1>4, <3>1 DEF Awaited
      <3>. QED
        BY <2>1, <3>2
    <2>. QED
      BY <2>2, <2>3
  <1>. QED
    BY <1>1, <1>2, <1>3, <1>4 DEF SearchInv, Awaited

LEMMA SearchLookUp ==
    ASSUME TypeOK, SearchInv, NEW c \in Contracts, LookUp(c)
    PROVE  SearchInv'
  <1>. USE DEF LookUp, env
  <1> SUFFICES ASSUME Searching PROVE SearchInv'
    BY DEF Searching, SearchInv
  <1>1. /\ UNCHANGED <<begun, pc, faults>> /\ known' = known \cup {c}
        /\ known \in SUBSET Contracts /\ begun.deployed \in SUBSET Contracts
    BY DEF TypeOK
  <1>2. /\ KnownCodeIDs(known') = KnownCodeIDs(known) \cup {ContractInfo[c].code}
        /\ Creators(known') = Creators(known) \cup {ContractInfo[c].creator}
    BY <1>1, SnapshotAdd
  <1>3. /\ pc = "refresh" <=> Seeds \subseteq begun.known
        /\ begun.known \subseteq known /\ begun.faults <= faults
    BY DEF SearchInv, Searching
  <1>4. pc = "seeds" => /\ expandedCodes' = KnownCodeIDs(known')
                        /\ expandedCreators' = Creators(known')
    BY <1>2 DEF SearchInv
  <1>5. CodesDue' \ codesLeft' \subseteq CodesDue \ codesLeft
    <2>1. CASE pc = "seeds"
      <3>1. codesLeft = {} /\ expandedCodes = KnownCodeIDs(known)
        BY <2>1 DEF AtLookUp, SearchInv
      <3>2. codesLeft' = {ContractInfo[c].code} \ KnownCodeIDs(known)
        BY <2>1, <3>1
      <3>. QED
        BY <1>1, <1>2, <1>3, <2>1, <3>1, <3>2 DEF CodesDue
    <2>2. CASE pc # "seeds"
      BY <1>1, <1>3, <2>2 DEF CodesDue, Searching
    <2>. QED
      BY <2>1, <2>2
  <1>6. CreatorsDue' \ creatorsLeft' \subseteq CreatorsDue \ creatorsLeft
    <2>1. CASE pc = "seeds"
      <3>1. creatorsLeft = {} /\ expandedCreators = Creators(known)
        BY <2>1 DEF AtLookUp, SearchInv
      <3>2. creatorsLeft' = {ContractInfo[c].creator} \ Creators(known)
        BY <2>1, <3>1
      <3>. QED
        BY <1>1, <1>2, <1>3, <2>1, <3>1, <3>2 DEF CreatorsDue
    <2>2. CASE pc # "seeds"
      BY <1>1, <1>3, <2>2 DEF CreatorsDue, Searching
    <2>. QED
      BY <2>1, <2>2
  <1>7. ASSUME faults' = begun'.faults, NEW d \in begun'.deployed \ known', Awaited(d)'
        PROVE  queue'[d] > 0
    <2>1. Awaited(d) /\ d \in begun.deployed \ known /\ d # c /\ d \in Contracts
      BY <1>1, <1>5, <1>6, <1>7 DEF Awaited
    <2>2. queue[d] > 0
      BY <1>1, <1>7, <2>1 DEF SearchInv, Searching, Awaited
    <2>. QED
      BY <2>1, <2>2 DEF TypeOK
  <1>. QED
    BY <1>1, <1>3, <1>4, <1>7 DEF SearchInv, Awaited

\* A list of a code or of a creator, or a lookup that fails: the map stays, and
\* whatever was or becomes awaited without a fault is in the queue.
LEMMA SearchFrame ==
    ASSUME TypeOK, SearchInv, faults' \in Nat, faults <= faults',
           UNCHANGED <<known, begun, pc, expandedCodes, expandedCreators>>,
           faults' = faults =>
             \A c \in begun.deployed \ known :
               /\ queue[c] > 0 => queue'[c] > 0
               /\ Awaited(c)' => Awaited(c) \/ queue'[c] > 0
    PROVE  SearchInv'
  <1> SUFFICES ASSUME Searching PROVE SearchInv'
    BY DEF Searching, SearchInv
  <1>1. faults \in Nat /\ begun.faults \in Nat /\ begun.faults <= faults
    BY DEF TypeOK, SearchInv, Searching
  <1>2. ASSUME faults' = begun'.faults, NEW c \in begun'.deployed \ known', Awaited(c)'
        PROVE  queue'[c] > 0
    <2>1. faults' = faults /\ faults = begun.faults
      BY <1>1, <1>2
    <2>2. Awaited(c) => queue[c] > 0
      BY <1>2, <2>1 DEF SearchInv, Searching, Awaited
    <2>. QED
      BY <1>2, <2>1, <2>2
  <1>3. begun'.faults <= faults'
    BY <1>1
  <1>4. /\ pc' = "refresh" <=> Seeds \subseteq begun'.known
        /\ begun'.known \subseteq known'
        /\ pc' = "seeds" => /\ expandedCodes' = KnownCodeIDs(known')
                            /\ expandedCreators' = Creators(known')
    BY DEF SearchInv, Searching
  <1>. QED
    BY <1>2, <1>3, <1>4 DEF SearchInv, Awaited

\* A step that changes none of what SearchInv is about but faults.
LEMMA SearchStutter ==
    ASSUME TypeOK, SearchInv, faults' \in Nat, faults <= faults',
           UNCHANGED <<known, begun, pc, frontier>>
    PROVE  SearchInv'
  <1>1. \A c : Awaited(c)' => Awaited(c)
    BY DEF Awaited, CodesDue, CreatorsDue, frontier
  <1>. QED
    BY <1>1, SearchFrame DEF frontier

LEMMA EnqueueKeeps ==
    ASSUME TypeOK, NEW answer, Enqueue(answer), NEW c \in Contracts
    PROVE  /\ queue[c] > 0 => queue'[c] > 0
           /\ c \in answer \ known => queue'[c] > 0
  BY DEF TypeOK, Enqueue

LEMMA ListedFacts ==
    ASSUME TypeOK, NEW answer, Listed(answer)
    PROVE  /\ faults' \in Nat /\ faults <= faults'
           /\ faults' = faults => Enqueue(answer)
  BY DEF TypeOK, Listed, Fault

LEMMA SearchStep == TypeOK /\ ReachInv /\ SearchInv /\ [Next]_vars => SearchInv'
  <1> SUFFICES ASSUME TypeOK, ReachInv, SearchInv, [Next]_vars PROVE SearchInv'
    OBVIOUS
  <1>. USE DEF env
  <1>0. /\ begun.deployed \subseteq deployed /\ deployed \in SUBSET Contracts
        /\ faults \in Nat
    BY DEF ReachInv, TypeOK
  <1>1. CASE Load
    BY <1>1 DEF Load, SearchInv
  <1>2. CASE LoadFails
    BY <1>2 DEF LoadFails, SearchInv
  <1>3. CASE BeginExpand
    BY <1>3, SearchBegin
  <1>4. ASSUME NEW c \in Contracts, LookUp(c) PROVE SearchInv'
    BY <1>4, SearchLookUp
  <1>5. ASSUME NEW c \in Contracts, LookUpFails(c) PROVE SearchInv'
    <2>1. /\ UNCHANGED <<known, begun, pc, codesLeft, creatorsLeft, expandedCodes,
                         expandedCreators>>
          /\ faults' \in Nat /\ faults <= faults'
      BY <1>0, <1>5 DEF LookUpFails, Fault
    <2>2. ASSUME faults' = faults, NEW d \in begun.deployed \ known
          PROVE  /\ queue[d] > 0 => queue'[d] > 0
                 /\ Awaited(d)' => Awaited(d)
      <3>1. c \notin deployed
        BY <1>0, <1>5, <2>2 DEF LookUpFails, Fault, Resolves
      <3>2. d # c /\ queue'[d] = queue[d]
        BY <1>0, <1>5, <2>2, <3>1 DEF LookUpFails, TypeOK
      <3>3. Awaited(d)' => Awaited(d)
        BY <2>1 DEF Awaited, CodesDue, CreatorsDue
      <3>. QED
        BY <3>2, <3>3
    <2>. QED
      BY <2>1, <2>2, SearchFrame
  <1>6. ASSUME NEW k \in Codes, NextCode(k) PROVE SearchInv'
    <2>1. /\ UNCHANGED <<known, begun, pc, creatorsLeft, expandedCodes,
                         expandedCreators>>
          /\ Listed(ByCode(k)) /\ codesLeft' = codesLeft \ {k}
      BY <1>6 DEF NextCode
    <2>2. ASSUME faults' = faults, NEW d \in begun.deployed \ known
          PROVE  /\ queue[d] > 0 => queue'[d] > 0
                 /\ Awaited(d)' => Awaited(d) \/ queue'[d] > 0
      <3>1. Enqueue(ByCode(k)) /\ d \in Contracts /\ d \in deployed \ known
        BY <1>0, <2>1, <2>2, ListedFacts
      <3>2. ContractInfo[d].code = k => queue'[d] > 0
        BY <3>1, EnqueueKeeps DEF ByCode
      <3>3. CodesDue' = CodesDue /\ CreatorsDue' = CreatorsDue
        BY <2>1 DEF CodesDue, CreatorsDue
      <3>4. Awaited(d)' => Awaited(d) \/ ContractInfo[d].code = k
        BY <2>1, <3>3 DEF Awaited
      <3>. QED
        BY <3>1, <3>2, <3>4, EnqueueKeeps
    <2>. QED
      BY <2>1, <2>2, ListedFacts, SearchFrame
  <1>7. ASSUME NEW a \in Accounts, NextCreator(a) PROVE SearchInv'
    <2>1. /\ UNCHANGED <<known, begun, pc, codesLeft, expandedCodes,
                         expandedCreators>>
          /\ Listed(ByCreator(a)) /\ creatorsLeft' = creatorsLeft \ {a}
      BY <1>7 DEF NextCreator
    <2>2. ASSUME faults' = faults, NEW d \in begun.deployed \ known
          PROVE  /\ queue[d] > 0 => queue'[d] > 0
                 /\ Awaited(d)' => Awaited(d) \/ queue'[d] > 0
      <3>1. Enqueue(ByCreator(a)) /\ d \in Contracts /\ d \in deployed \ known
        BY <1>0, <2>1, <2>2, ListedFacts
      <3>2. ContractInfo[d].creator = a => queue'[d] > 0
        BY <3>1, EnqueueKeeps DEF ByCreator
      <3>3. CodesDue' = CodesDue /\ CreatorsDue' = CreatorsDue
        BY <2>1 DEF CodesDue, CreatorsDue
      <3>4. Awaited(d)' => Awaited(d) \/ ContractInfo[d].creator = a
        BY <2>1, <3>3 DEF Awaited
      <3>. QED
        BY <3>1, <3>2, <3>4, EnqueueKeeps
    <2>. QED
      BY <2>1, <2>2, ListedFacts, SearchFrame
  <1>8. CASE Persist
    <2>1. faults' \in Nat /\ faults <= faults'
      BY <1>0, <1>8 DEF Persist, Save, Fault
    <2>. QED
      BY <1>8, <2>1, SearchStutter DEF Persist
  <1>9. CASE EndExpand
    BY <1>9 DEF EndExpand, SearchInv
  <1>10. CASE EndExtra
    BY <1>10 DEF EndExtra, SearchInv
  <1>11. CASE Tick
    BY <1>11 DEF Tick, SearchInv
  <1>12. CASE Boot
    BY <1>12 DEF Boot, SearchInv
  <1>13. CASE Crash
    BY <1>13 DEF Crash, SearchInv
  <1>14. ASSUME NEW c \in Contracts, Deploy(c) PROVE SearchInv'
    BY <1>0, <1>14, SearchStutter DEF Deploy
  <1>15. CASE UNCHANGED vars
    BY <1>0, <1>15, SearchStutter DEF vars
  <1>. QED
    BY <1>1, <1>2, <1>3, <1>4, <1>5, <1>6, <1>7, <1>8, <1>9, <1>10, <1>11, <1>12,
       <1>13, <1>14, <1>15 DEF Next, Work

----------------------------------------------------------------------------------
(* The queue. *)

\* A list only adds to the queue what is not known yet.
LEMMA ListedQueue ==
    ASSUME TypeOK, NEW answer, Listed(answer)
    PROVE  Queued' \subseteq Queued \cup (Contracts \ known)
  BY DEF Listed, Enqueue, Queued, TypeOK

LEMMA QueueStep == TypeOK /\ QueueInv /\ SavedInv /\ [Next]_vars => QueueInv'
  <1> SUFFICES ASSUME TypeOK, QueueInv, SavedInv, [Next]_vars PROVE QueueInv'
    OBVIOUS
  <1>. USE DEF QueueInv, env, frontier
  <1>1. CASE Load
    <2>1. Queued = {} /\ queue' = queue /\ pc' \notin Expanding
      BY <1>1 DEF Load
    <2>. QED
      BY <2>1 DEF Queued
  <1>2. CASE BeginExpand
    <2>1. Queued' \subseteq Seeds \ known /\ known' = known /\ pc' \in Expanding
      BY <1>2 DEF BeginExpand, Queued
    <2>. QED
      BY <2>1
  <1>3. ASSUME NEW c \in Contracts, LookUp(c) PROVE QueueInv'
    <2>1. /\ Queued' \subseteq Queued \ {c} /\ known' = known \cup {c}
          /\ pc \in Expanding /\ pc' = pc
      BY <1>3 DEF LookUp, AtLookUp, Queued, TypeOK
    <2>. QED
      BY <2>1
  <1>4. ASSUME NEW c \in Contracts, LookUpFails(c) PROVE QueueInv'
    <2>1. Queued' \subseteq Queued /\ known' = known /\ pc \in Expanding /\ pc' = pc
      BY <1>4 DEF LookUpFails, AtLookUp, Queued, TypeOK
    <2>. QED
      BY <2>1
  <1>5. ASSUME NEW k \in Codes, NextCode(k) PROVE QueueInv'
    <2>1. Queued' \subseteq Queued \cup (Contracts \ known)
      BY <1>5, ListedQueue DEF NextCode
    <2>. QED
      BY <1>5, <2>1 DEF NextCode, AtList, AtLookUp
  <1>6. ASSUME NEW a \in Accounts, NextCreator(a) PROVE QueueInv'
    <2>1. Queued' \subseteq Queued \cup (Contracts \ known)
      BY <1>6, ListedQueue DEF NextCreator
    <2>. QED
      BY <1>6, <2>1 DEF NextCreator, AtList, AtLookUp
  <1>7. CASE EndExpand \/ EndExtra
    <2>1. Queued = {} /\ queue' = queue
      BY <1>7 DEF EndExpand, EndExtra, Exhausted
    <2>. QED
      BY <2>1 DEF Queued
  <1>8. CASE Crash
    BY <1>8 DEF Crash, Queued, Nothing
  <1>9. CASE \/ LoadFails \/ Persist \/ Tick \/ Boot \/ UNCHANGED vars
              \/ \E c \in Contracts : Deploy(c)
    <2>1. queue' = queue /\ known' = known /\ (pc' \in Expanding <=> pc \in Expanding)
      BY <1>9 DEF LoadFails, Persist, Tick, Boot, vars, Deploy
    <2>. QED
      BY <2>1 DEF Queued
  <1>. QED
    BY <1>1, <1>2, <1>3, <1>4, <1>5, <1>6, <1>7, <1>8, <1>9 DEF Next, Work

----------------------------------------------------------------------------------
(* The theorems. *)

LEMMA InvInit == Init => IInv
  BY TypeInit, ReachInit DEF Init, IInv, SavedInv, SearchInv, QueueInv, Queued, Nothing

LEMMA InvStep == IInv /\ [Next]_vars => IInv'
  BY TypeStep, ReachStep, SavedStep, SearchStep, QueueStep DEF IInv

\* IInv holds in every reachable state of discovery: what it has reached, what it
\* has saved and what it still has to look up account for each other.
THEOREM DiscoveryInvariant == Spec => []IInv
  BY InvInit, InvStep, PTL DEF Spec

\* Only contracts related to the seeds are ever in the map or in the table,
\* however contracts are deployed, requests fail and the process restarts.
THEOREM KnownReachableHolds == Spec => []KnownReachable
  <1>1. IInv => KnownReachable
    BY DEF IInv, ReachInv, KnownReachable
  <1>. QED
    BY <1>1, DiscoveryInvariant, PTL

\* When an expansion is over, the table has every contract of the map whose write
\* did not fail.
THEOREM SavedAtRestHolds == Spec => []SavedAtRest
  <1>1. IInv => SavedAtRest
    BY DEF IInv, SavedInv, SavedAtRest
  <1>. QED
    BY <1>1, DiscoveryInvariant, PTL

\* An expansion without a failed request misses nothing that was due and on the
\* chain when it began.
THEOREM ExpansionCompleteHolds == Spec => ExpansionComplete
  <1>. DEFINE Found == \A c \in begun.deployed :
                         \/ c \in Seeds
                         \/ ContractInfo[c].code \in CodesDue
                         \/ ContractInfo[c].creator \in CreatorsDue
                         => c \in known
  <1>1. ASSUME IInv, Next, EndsExpansion, faults = begun.faults
        PROVE  Found
    <2>1. pc \in {"seeds", "refresh"} /\ pc' = "extra"
      BY <1>1 DEF EndsExpansion
    <2>2. EndExpand
      BY <1>1, <2>1
         DEF Next, Work, Load, LoadFails, BeginExpand, LookUp, LookUpFails, NextCode,
             NextCreator, Persist, EndExtra, Tick, Boot, Crash, Deploy
    <2>3. codesLeft = {} /\ creatorsLeft = {} /\ Queued = {}
      BY <2>2 DEF EndExpand, Exhausted
    <2>4. begun.deployed \in SUBSET Contracts /\ queue \in [Contracts -> Nat]
      BY <1>1 DEF IInv, TypeOK
    <2>5. \A c \in begun.deployed : ~(queue[c] > 0)
      BY <2>3, <2>4 DEF Queued
    <2>. QED
      BY <1>1, <2>1, <2>3, <2>5 DEF IInv, SearchInv
  <1>2. IInv /\ [Next]_vars =>
          [EndsExpansion /\ faults = begun.faults => Found]_vars
    BY <1>1
  <1>. QED
    BY <1>2, DiscoveryInvariant, PTL DEF Spec, ExpansionComplete

\* An expansion is never at the same point twice: whatever fails, each of its steps
\* adds to the map, or leaves less to ask for, to look up or to persist.  As the map
\* only has contracts of the chain, which are finitely many, it comes to its end.
THEOREM ExpansionProgressHolds == Spec => ExpansionProgress
  <1>1. ASSUME IInv, Next, GoesOn
        PROVE  Nearer
    <2>1. TypeOK /\ QueueInv /\ pc \in Expanding /\ pc' = pc /\ deployed' = deployed
      BY <1>1 DEF IInv, GoesOn
    <2>. USE DEF Nearer
    <2>2. ASSUME NEW c \in Contracts, LookUp(c) PROVE Nearer
      <3>1. c \in Queued /\ known' = known \cup {c}
        BY <2>2 DEF LookUp, Queued
      <3>. QED
        BY <2>1, <3>1 DEF QueueInv
    <2>3. ASSUME NEW c \in Contracts, LookUpFails(c) PROVE Nearer
      <3>1. /\ queue \in [Contracts -> Nat] /\ queue[c] > 0
            /\ queue' = [queue EXCEPT ![c] = queue[c] - 1]
            /\ UNCHANGED <<known, codesLeft, creatorsLeft>>
        BY <2>1, <2>3 DEF LookUpFails, TypeOK
      <3>2. queue'[c] # queue[c] /\ \A d \in Contracts : queue'[d] <= queue[d]
        BY <3>1
      <3>. QED
        BY <3>1, <3>2
    <2>4. ASSUME NEW k \in Codes, NextCode(k) PROVE Nearer
      <3>1. /\ known' = known /\ k \in codesLeft /\ codesLeft' = codesLeft \ {k}
            /\ creatorsLeft' = creatorsLeft
        BY <2>4 DEF NextCode
      <3>. QED
        BY <3>1
    <2>5. ASSUME NEW a \in Accounts, NextCreator(a) PROVE Nearer
      <3>1. /\ known' = known /\ a \in creatorsLeft /\ codesLeft' = codesLeft
            /\ creatorsLeft' = creatorsLeft \ {a}
        BY <2>5 DEF NextCreator
      <3>. QED
        BY <3>1
    <2>6. CASE Persist
      BY <2>6 DEF Persist, Save, frontier
    <2>7. ASSUME NEW c \in Contracts, Deploy(c) PROVE FALSE
      BY <2>1, <2>7 DEF Deploy
    <2>8. Load \/ LoadFails \/ BeginExpand \/ EndExpand \/ EndExtra \/ Tick \/ Boot \/ Crash
            => ~(pc \in Expanding /\ pc' = pc)
      BY DEF Load, LoadFails, BeginExpand, EndExpand, EndExtra, Tick, Boot, Crash
    <2>. QED
      BY <1>1, <2>1, <2>2, <2>3, <2>4, <2>5, <2>6, <2>7, <2>8 DEF Next, Work
  <1>2. IInv /\ [Next]_vars => [GoesOn => Nearer]_vars
    BY <1>1
  <1>. QED
    BY <1>2, DiscoveryInvariant, PTL DEF Spec, ExpansionProgress

\* Discovery implements ContractMap: what the processor and the backfill assume of
\* the map they read holds of every search, refresh, failure and restart.
THEOREM MapRefinement == Spec => ImplementsMap
  <1>. DEFINE running == pc \notin {"down", "load"}
  <1>1. Init => M!Init
    BY DEF Init, M!Init
  <1>2. ASSUME IInv, [Next]_vars
        PROVE  M!Next \/ UNCHANGED <<running, known>>
    <2>. USE DEF M!Next, M!Start, M!Discover, M!Stop
    <2>1. TypeOK
      BY <1>2 DEF IInv
    <2>2. CASE Load \/ LoadFails
      BY <2>1, <2>2 DEF Load, LoadFails, TypeOK
    <2>3. ASSUME NEW c \in Contracts, LookUp(c)
          PROVE  M!Discover
      BY <2>3 DEF LookUp, AtLookUp
    <2>4. CASE Crash
      BY <2>4 DEF Crash
    <2>5. CASE Boot
      BY <2>5 DEF Boot
    <2>6. CASE BeginExpand \/ EndExpand \/ EndExtra \/ Tick
      BY <2>6 DEF BeginExpand, EndExpand, EndExtra, Tick
    <2>7. CASE \/ Persist
               \/ \E c \in Contracts : LookUpFails(c) \/ Deploy(c)
               \/ \E k \in Codes : NextCode(k)
               \/ \E a \in Accounts : NextCreator(a)
      BY <2>7 DEF Persist, LookUpFails, Deploy, NextCode, NextCreator
    <2>8. CASE UNCHANGED vars
      BY <2>8 DEF vars
    <2>. QED
      BY <1>2, <2>2, <2>3, <2>4, <2>5, <2>6, <2>7, <2>8 DEF Next, Work
  <1>. QED
    BY <1>1, <1>2, DiscoveryInvariant, PTL DEF Spec, ImplementsMap, M!Spec
==================================================================================
