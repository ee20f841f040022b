------------------------------ MODULE BackfillProofs -----------------------------
(***************************************************************************)
(* Machine-checked proofs about Backfill next to any live service that      *)
(* keeps the promises of Ledger: IInv is inductive, a clean run leaves no    *)
(* gap, and the two writers together still implement Ledger.                *)
(***************************************************************************)
EXTENDS Backfill, MetadataProofs, TLAPS

USE DEF Running, L!Rows

\* An answer only has transactions of the chain.
LEMMA AnswersAreTxs ==
    ASSUME NEW c, NEW a, NEW u, NEW K
    PROVE  /\ ContractTxs(c, a, u) \subseteq Txs
           /\ CreatorTxs(c, a, u, K) \subseteq Txs
  BY DEF ContractTxs, CreatorTxs

LEMMA RunFacts ==
    ASSUME TypeOK
    PROVE  /\ height \in [Txs -> Nat] /\ tip \in Nat /\ cursor \in Nat
           /\ cursorHeight \in Nat /\ StartHeight \in Nat
           /\ known \in SUBSET Contracts /\ knownAtRead \in SUBSET Contracts
           /\ burns \in [Txs -> L!Rows] /\ pending \in SUBSET Txs
  BY BackfillAssumption DEF TypeOK, ChainTypeOK

----------------------------------------------------------------------------------
(* Type correctness. *)

LEMMA TypeInit == Init => TypeOK
  <1> SUFFICES ASSUME Init PROVE TypeOK
    OBVIOUS
  <1>1. ChainTypeOK
    <2>1. tip \in Nat /\ 0 .. tip \subseteq Nat
      BY MaxHeightAssumption DEF Init, L!Init, L!ChainInit
    <2>2. height \in [Txs -> 0 .. tip]
      BY DEF Init, L!Init, L!ChainInit
    <2>. QED
      BY <2>1, <2>2 DEF ChainTypeOK
  <1>. QED
    BY <1>1 DEF Init, L!Init, L!Empty, TypeOK

LEMMA CollectFacts ==
    ASSUME TypeOK, NEW wanted \in SUBSET Txs, Collect(wanted)
    PROVE  /\ pending \subseteq pending' /\ pending' \subseteq pending \cup wanted
           /\ pending' \in SUBSET Txs
           /\ faults' \in Nat
           /\ faults' = 0 => faults = 0 /\ wanted \subseteq pending'
  BY DEF Collect, Fault, TypeOK

LEMMA LiveFacts ==
    ASSUME TypeOK, LiveService
    PROVE  /\ UNCHANGED <<known, pc, locals, faults>>
           /\ cursor' \in Nat
           /\ burns' \in [Txs -> L!Rows]
           /\ \A t \in Txs : burns[t] # "absent" => burns'[t] # "absent"
           /\ \/ UNCHANGED chainVars
              \/ /\ tip' = tip + 1 /\ cursor' = cursor
                 /\ height' \in [Txs -> Nat]
                 /\ \A t \in Txs : \/ height'[t] = height[t]
                                   \/ height[t] = 0 /\ height'[t] = tip + 1
  <1> USE RunFacts
  <1>1. UNCHANGED <<known, pc, locals, faults>>
    BY DEF LiveService
  <1>2. CASE L!Grow
    BY <1>1, <1>2 DEF L!Grow, L!NewBlock
  <1>3. ASSUME NEW t \in Txs, L!Record(t)
        PROVE  /\ cursor' \in Nat /\ UNCHANGED chainVars
               /\ burns' \in [Txs -> L!Rows]
               /\ \A u \in Txs : burns[u] # "absent" => burns'[u] # "absent"
    BY <1>3 DEF L!Record, L!chainVars, chainVars
  <1>4. CASE L!Advance
    BY <1>1, <1>4 DEF L!Advance, L!chainVars, chainVars
  <1>5. CASE L!Restart /\ UNCHANGED burns
    BY <1>1, <1>5 DEF L!Restart, L!chainVars, chainVars
  <1>. QED
    BY <1>1, <1>2, <1>3, <1>4, <1>5 DEF LiveService

LEMMA TypeNext == TypeOK /\ [Next]_vars => TypeOK'
  <1> SUFFICES ASSUME TypeOK, [Next]_vars PROVE TypeOK'
    OBVIOUS
  <1> USE DEF TypeOK, ChainTypeOK
  <1>1. CASE Begin
    BY <1>1, SnapshotFacts DEF Begin, chainVars, tables
  <1>2. ASSUME NEW c \in Contracts, QueryContract(c)
        PROVE  TypeOK'
    <2>1. ContractTxs(c, StartHeight, cursorHeight) \in SUBSET Txs
      BY AnswersAreTxs
    <2>2. pending' \in SUBSET Txs /\ faults' \in Nat
      BY <1>2, <2>1, CollectFacts DEF QueryContract
    <2>3. sinceFlush' \in Nat
      BY <1>2, BackfillAssumption DEF QueryContract
    <2>. QED
      BY <1>2, <2>2, <2>3 DEF QueryContract, chainVars, tables
  <1>3. ASSUME NEW t \in Txs, Insert(t)
        PROVE  TypeOK'
    BY <1>3 DEF Insert, chainVars
  <1>4. ASSUME NEW t \in Txs, InsertFails(t)
        PROVE  TypeOK'
    BY <1>4 DEF InsertFails, Fault, chainVars, tables
  <1>5. CASE Flushed \/ FinalFlush \/ Done
    BY <1>5 DEF Flushed, FinalFlush, Done, chainVars, tables, locals
  <1>6. CASE SnapshotCodes
    BY <1>6, SnapshotFacts DEF SnapshotCodes, chainVars, tables
  <1>7. CASE SnapshotCreators
    BY <1>7, SnapshotFacts DEF SnapshotCreators, chainVars, tables
  <1>8. CASE SnapshotAdmins
    BY <1>8, SnapshotFacts DEF SnapshotAdmins, chainVars, tables
  <1>9. ASSUME NEW s \in Accounts, QuerySender(s)
        PROVE  TypeOK'
    <2>1. CreatorTxs(s, StartHeight, cursorHeight, knownCodes) \in SUBSET Txs
      BY AnswersAreTxs
    <2>2. pending' \in SUBSET Txs /\ faults' \in Nat
      BY <1>9, <2>1, CollectFacts DEF QuerySender
    <2>. QED
      BY <1>9, <2>2 DEF QuerySender, chainVars, tables
  <1>10. CASE Fail
    BY <1>10 DEF Fail, Fault, chainVars, tables, locals
  <1>11. ASSUME NEW c \in Contracts, Discover(c)
         PROVE  TypeOK'
    BY <1>11 DEF Discover, chainVars, tables, locals
  <1>12. CASE LiveService
    BY <1>12, LiveFacts DEF chainVars, locals
  <1>13. CASE UNCHANGED vars
    BY <1>13 DEF vars, chainVars, tables, locals
  <1>. QED
    BY <1>1, <1>2, <1>3, <1>4, <1>5, <1>6, <1>7, <1>8, <1>9, <1>10, <1>11, <1>12,
       <1>13
    DEF Next, Run

----------------------------------------------------------------------------------
(* IInv is inductive. *)

LEMMA HeightsNext == IInv /\ [Next]_vars => HeightsInv'
  <1> SUFFICES ASSUME IInv, [Next]_vars PROVE HeightsInv'
    OBVIOUS
  <1> USE DEF HeightsInv
  <1>0. TypeOK /\ HeightsInv
    BY DEF IInv
  <1>t. /\ height \in [Txs -> Nat] /\ tip \in Nat /\ cursor \in Nat
        /\ cursorHeight \in Nat /\ StartHeight \in Nat /\ pending \in SUBSET Txs
        /\ known \in SUBSET Contracts /\ knownAtRead \in SUBSET Contracts
    BY <1>0, RunFacts
  <1>1. CASE Begin
    <2>1. UNCHANGED <<height, tip, burns, cursor>> /\ pending' = pending
      BY <1>1 DEF Begin, chainVars, tables
    <2>2. pending = {}
      BY <1>0, <1>1 DEF Begin
    <2>. QED
      BY <1>0, <1>1, <2>1, <2>2 DEF Begin
  <1>2. ASSUME NEW c \in Contracts, QueryContract(c)
        PROVE  HeightsInv'
    <2> DEFINE wanted == ContractTxs(c, StartHeight, cursorHeight)
    <2>1. wanted \in SUBSET Txs /\ \A t \in wanted : TxInfo[t].ok /\ height[t] > 0
      BY <1>t DEF ContractTxs, Between
    <2>2. Collect(wanted)
      BY <1>2 DEF QueryContract
    <2> HIDE DEF wanted
    <2>3. pending' \subseteq pending \cup wanted
      BY <1>0, <2>1, <2>2, CollectFacts
    <2>. QED
      BY <1>0, <1>2, <2>1, <2>3 DEF QueryContract, chainVars, tables
  <1>3. ASSUME NEW s \in Accounts, QuerySender(s)
        PROVE  HeightsInv'
    <2> DEFINE wanted == CreatorTxs(s, StartHeight, cursorHeight, knownCodes)
    <2>1. wanted \in SUBSET Txs /\ \A t \in wanted : TxInfo[t].ok /\ height[t] > 0
      BY <1>t DEF CreatorTxs, Between
    <2>2. Collect(wanted)
      BY <1>3 DEF QuerySender
    <2> HIDE DEF wanted
    <2>3. pending' \subseteq pending \cup wanted
      BY <1>0, <2>1, <2>2, CollectFacts
    <2>. QED
      BY <1>0, <1>3, <2>1, <2>3 DEF QuerySender, chainVars, tables
  <1>4. ASSUME NEW t \in Txs, Insert(t) \/ InsertFails(t)
        PROVE  HeightsInv'
    BY <1>0, <1>4 DEF Insert, InsertFails, chainVars, tables
  <1>5. CASE Flushed \/ FinalFlush \/ Done
    BY <1>0, <1>5 DEF Flushed, FinalFlush, Done, chainVars, tables, locals
  <1>6. CASE SnapshotCodes \/ SnapshotCreators \/ SnapshotAdmins
    BY <1>0, <1>6 DEF SnapshotCodes, SnapshotCreators, SnapshotAdmins, chainVars, tables
  <1>7. CASE Fail
    BY <1>0, <1>7 DEF Fail, chainVars, tables, locals
  <1>8. ASSUME NEW c \in Contracts, Discover(c)
        PROVE  HeightsInv'
    BY <1>0, <1>8 DEF Discover, chainVars, tables, locals
  <1>9. CASE LiveService
    <2>1. cursor' <= tip' \/ cursor' = StartHeight
      BY <1>0, <1>9, <1>t
      DEF LiveService, L!Grow, L!NewBlock, L!Record, L!Advance, L!Restart, L!chainVars
    <2>. QED
      BY <1>0, <1>9, <1>t, <2>1, LiveFacts DEF chainVars, locals
  <1>10. CASE UNCHANGED vars
    BY <1>0, <1>10 DEF vars, chainVars, tables, locals
  <1>. QED
    BY <1>1, <1>2, <1>3, <1>4, <1>5, <1>6, <1>7, <1>8, <1>9, <1>10 DEF Next, Run

\* What the live service does makes nothing unsafe, and adds nothing to what
\* the run is after: new blocks are above the cursor it read.
LEMMA LiveKeepsScope ==
    ASSUME TypeOK, HeightsInv, LiveService, pc \in Running \cup {"done"}
    PROVE  /\ \A t \in Txs : Between(t, StartHeight, cursorHeight)'
                               => Between(t, StartHeight, cursorHeight)
           /\ \A t \in Txs : Safe(t) => Safe(t)'
  <1>1. /\ height \in [Txs -> Nat] /\ tip \in Nat /\ cursorHeight \in Nat
        /\ StartHeight \in Nat
    BY RunFacts
  <1>2. cursorHeight' = cursorHeight /\ pending' = pending
    BY LiveFacts DEF locals
  <1>3. cursorHeight <= tip \/ cursorHeight = StartHeight
    BY DEF HeightsInv
  <1>4. \A t \in Txs : \/ height'[t] = height[t]
                       \/ height[t] = 0 /\ height'[t] = tip + 1
    BY LiveFacts DEF chainVars
  <1>5. \A t \in Txs : Between(t, StartHeight, cursorHeight)'
                         => Between(t, StartHeight, cursorHeight)
    BY <1>1, <1>2, <1>3, <1>4 DEF Between
  <1>6. \A t \in Txs : Safe(t) => Safe(t)'
    BY <1>2, LiveFacts DEF Safe, Paying
  <1>. QED
    BY <1>5, <1>6

\* An insert without an error takes what it visits from the batch to the table.
LEMMA InsertKeepsSafe ==
    ASSUME TypeOK, NEW t \in Txs, Insert(t)
    PROVE  \A u \in Txs : Safe(u) => Safe(u)'
  BY DEF Insert, Safe, Paying, TypeOK

LEMMA ContractsNext == IInv /\ [Next]_vars => ContractsInv'
  <1> SUFFICES ASSUME IInv, [Next]_vars PROVE ContractsInv'
    OBVIOUS
  <1> USE DEF ContractsInv
  <1>0. TypeOK /\ HeightsInv /\ ContractsInv
    BY DEF IInv
  <1>t. contracts \in SUBSET Contracts /\ pending \in SUBSET Txs /\ faults \in Nat
    BY <1>0 DEF TypeOK
  <1>1. ASSUME UNCHANGED <<height, tip, cursorHeight, knownAtRead>>,
               \A t \in Txs : Safe(t) => Safe(t)'
        PROVE  \A c : (\A t \in ContractTxs(c, StartHeight, cursorHeight) : Safe(t))
                  => (\A t \in ContractTxs(c, StartHeight, cursorHeight) : Safe(t))'
    BY <1>1 DEF ContractTxs, Between
  <1>2. CASE Begin
    BY <1>2 DEF Begin
  <1>3. ASSUME NEW c \in Contracts, QueryContract(c)
        PROVE  ContractsInv'
    <2> DEFINE wanted == ContractTxs(c, StartHeight, cursorHeight)
    <2>1. wanted \in SUBSET Txs /\ Collect(wanted)
      BY <1>3, AnswersAreTxs DEF QueryContract
    <2>2. /\ pending \subseteq pending'
          /\ faults' = 0 => faults = 0 /\ wanted \subseteq pending'
      <3> HIDE DEF wanted
      <3>. QED
        BY <1>0, <2>1, CollectFacts
    <2>3. UNCHANGED <<height, tip, cursorHeight, knownAtRead, burns>>
      BY <1>3 DEF QueryContract, chainVars, tables
    <2>4. \A t \in Txs : Safe(t) => Safe(t)'
      BY <2>2, <2>3 DEF Safe, Paying
    <2>5. faults' = 0 => (\A t \in wanted : Safe(t))'
      BY <2>2, <2>3 DEF Safe, ContractTxs, Between
    <2> HIDE DEF wanted
    <2>6. pc = "contracts" /\ pc' \in {"contracts", "flush"} /\ contracts' = contracts \ {c}
      BY <1>3 DEF QueryContract
    <2>7. ASSUME NEW d \in QueryableContracts(knownAtRead, SkipCodes), faults' = 0
          PROVE  \/ d \in contracts'
                 \/ (\A t \in ContractTxs(d, StartHeight, cursorHeight) : Safe(t))'
      <3>1. CASE d = c
        BY <2>5, <2>7, <3>1 DEF wanted
      <3>2. CASE d # c
        BY <1>0, <1>1, <2>2, <2>3, <2>4, <2>6, <2>7, <3>2
      <3>. QED
        BY <3>1, <3>2
    <2>8. QueryableContracts(knownAtRead, SkipCodes)'
            = QueryableContracts(knownAtRead, SkipCodes)
      BY <2>3 DEF QueryableContracts
    <2>. QED
      BY <2>6, <2>7, <2>8
  <1>4. ASSUME NEW t \in Txs, Insert(t)
        PROVE  ContractsInv'
    BY <1>0, <1>1, <1>4, InsertKeepsSafe DEF Insert, chainVars, QueryableContracts
  <1>5. ASSUME faults' # 0
        PROVE  ContractsInv'
    BY <1>5
  <1>6. CASE Flushed \/ FinalFlush \/ Done
    <2>1. \A t \in Txs : Safe(t) => Safe(t)'
      BY <1>6 DEF Flushed, FinalFlush, Done, tables, locals, Safe, Paying
    <2>. QED
      BY <1>0, <1>1, <1>6, <2>1
      DEF Flushed, FinalFlush, Done, chainVars, locals, QueryableContracts
  <1>7. CASE SnapshotCodes \/ SnapshotCreators \/ SnapshotAdmins
    <2>1. \A t \in Txs : Safe(t) => Safe(t)'
      BY <1>7 DEF SnapshotCodes, SnapshotCreators, SnapshotAdmins, tables, Safe, Paying
    <2>. QED
      BY <1>0, <1>1, <1>7, <2>1
      DEF SnapshotCodes, SnapshotCreators, SnapshotAdmins, chainVars, QueryableContracts
  <1>8. ASSUME NEW s \in Accounts, QuerySender(s)
        PROVE  ContractsInv'
    <2> DEFINE wanted == CreatorTxs(s, StartHeight, cursorHeight, knownCodes)
    <2>1. wanted \in SUBSET Txs /\ Collect(wanted)
      BY <1>8, AnswersAreTxs DEF QuerySender
    <2> HIDE DEF wanted
    <2>2. pending \subseteq pending' /\ (faults' = 0 => faults = 0)
      BY <1>0, <2>1, CollectFacts
    <2>3. \A t \in Txs : Safe(t) => Safe(t)'
      BY <1>8, <2>2 DEF QuerySender, tables, Safe, Paying
    <2>. QED
      BY <1>0, <1>1, <1>8, <2>2, <2>3 DEF QuerySender, chainVars, QueryableContracts
  <1>9. ASSUME NEW c \in Contracts, Discover(c)
        PROVE  ContractsInv'
    <2>1. \A t \in Txs : Safe(t) => Safe(t)'
      BY <1>9 DEF Discover, tables, locals, Safe, Paying
    <2>. QED
      BY <1>0, <1>1, <1>9, <2>1 DEF Discover, chainVars, locals, QueryableContracts
  <1>10. CASE LiveService
    <2>1. UNCHANGED <<pc, locals, faults>>
      BY <1>0, <1>10, LiveFacts
    <2>2. CASE pc \in Running \cup {"done"}
      <3>1. \A c : ContractTxs(c, StartHeight, cursorHeight)'
                     \subseteq ContractTxs(c, StartHeight, cursorHeight)
        BY <1>0, <1>10, <2>2, LiveKeepsScope DEF ContractTxs
      <3>2. \A t \in Txs : Safe(t) => Safe(t)'
        BY <1>0, <1>10, <2>2, LiveKeepsScope
      <3>3. \A c : ContractTxs(c, StartHeight, cursorHeight) \subseteq Txs
        BY AnswersAreTxs
      <3>. QED
        BY <1>0, <2>1, <3>1, <3>2, <3>3 DEF locals, QueryableContracts
    <2>3. CASE pc \notin Running \cup {"done"}
      BY <2>1, <2>3
    <2>. QED
      BY <2>2, <2>3
  <1>11. CASE UNCHANGED vars
    <2>1. \A t \in Txs : Safe(t) => Safe(t)'
      BY <1>11 DEF vars, tables, locals, Safe, Paying
    <2>. QED
      BY <1>0, <1>1, <1>11, <2>1 DEF vars, chainVars, locals, QueryableContracts
  <1>12. Fail \/ (\E t \in Txs : InsertFails(t)) => faults' # 0
    BY <1>t DEF Fail, InsertFails, Fault
  <1>. QED
    BY <1>2, <1>3, <1>4, <1>5, <1>6, <1>7, <1>8, <1>9, <1>10, <1>11, <1>12
    DEF Next, Run

LEMMA SendersNext == IInv /\ [Next]_vars => SendersInv'
  <1> SUFFICES ASSUME IInv, [Next]_vars PROVE SendersInv'
    OBVIOUS
  <1> USE DEF SendersInv
  <1> DEFINE owed(s) == CreatorTxs(s, StartHeight, cursorHeight, KnownCodeIDs(knownAtRead))
  <1>0. TypeOK /\ HeightsInv /\ SendersInv
    BY DEF IInv
  <1>t. /\ known \in SUBSET Contracts /\ knownAtRead \in SUBSET Contracts
        /\ senders \in SUBSET Accounts /\ pending \in SUBSET Txs /\ faults \in Nat
    BY <1>0 DEF TypeOK
  \* What is owed stays the same while the chain and the snapshot do.
  <1>1. ASSUME UNCHANGED <<height, cursorHeight, knownAtRead>>,
               \A t \in Txs : Safe(t) => Safe(t)'
        PROVE  /\ KnownCodeIDs(knownAtRead)' = KnownCodeIDs(knownAtRead)
               /\ Creators(knownAtRead)' = Creators(knownAtRead)
               /\ \A s : (\A t \in owed(s) : Safe(t)) => (\A t \in owed(s) : Safe(t))'
    BY <1>1 DEF KnownCodeIDs, Creators, CreatorTxs, Between
  <1>2. CASE Begin
    BY <1>2 DEF Begin
  <1>3. ASSUME NEW c \in Contracts, QueryContract(c)
        PROVE  SendersInv'
    BY <1>3 DEF QueryContract
  <1>4. ASSUME NEW t \in Txs, Insert(t)
        PROVE  SendersInv'
    <2>1. pc' = pc /\ pc \in {"flush", "final"} /\ knownCodes' = knownCodes
          /\ senders' = senders /\ faults' = faults
          /\ UNCHANGED <<height, cursorHeight, knownAtRead>>
      BY <1>4 DEF Insert, chainVars
    <2>2. \A u \in Txs : Safe(u) => Safe(u)'
      BY <1>0, <1>4, InsertKeepsSafe
    <2>. QED
      BY <1>0, <1>1, <2>1, <2>2
  <1>5. ASSUME NEW t \in Txs, InsertFails(t)
        PROVE  SendersInv'
    <2>1. faults' # 0
      BY <1>t, <1>5 DEF InsertFails, Fault
    <2>2. pc' = pc /\ pc \in {"flush", "final"} /\ knownCodes' = knownCodes
          /\ knownAtRead' = knownAtRead
      BY <1>5 DEF InsertFails
    <2>. QED
      BY <1>0, <2>1, <2>2 DEF KnownCodeIDs
  <1>6. CASE Flushed
    BY <1>6 DEF Flushed
  <1>7. CASE SnapshotCodes
    <2>1. pc' = "creators" /\ knownCodes' = KnownCodeIDs(known) /\ knownAtRead' = knownAtRead
      BY <1>7 DEF SnapshotCodes
    <2>2. KnownCodeIDs(knownAtRead) \subseteq KnownCodeIDs(known)
      BY <1>0, <1>7, <1>t, SnapshotMonotone DEF SnapshotCodes, HeightsInv
    <2>. QED
      BY <2>1, <2>2 DEF KnownCodeIDs
  <1>8. CASE SnapshotCreators
    <2>1. pc = "creators" /\ pc' = "admins" /\ senders' = Creators(known)
          /\ UNCHANGED <<knownCodes, knownAtRead>>
      BY <1>8 DEF SnapshotCreators
    <2>2. Creators(knownAtRead) \subseteq Creators(known)
      BY <1>0, <1>8, <1>t, SnapshotMonotone DEF SnapshotCreators, HeightsInv
    <2>. QED
      BY <1>0, <2>1, <2>2 DEF KnownCodeIDs, Creators
  <1>9. CASE SnapshotAdmins
    <2>1. pc = "admins" /\ pc' = "senders" /\ senders \subseteq senders'
          /\ UNCHANGED <<height, cursorHeight, knownAtRead, knownCodes, faults>>
      BY <1>9 DEF SnapshotAdmins, chainVars
    <2>2. \A t \in Txs : Safe(t) => Safe(t)'
      BY <1>9 DEF SnapshotAdmins, tables, Safe, Paying
    <2>. QED
      BY <1>0, <1>1, <2>1, <2>2
  <1>10. ASSUME NEW s \in Accounts, QuerySender(s)
         PROVE  SendersInv'
    <2> DEFINE wanted == CreatorTxs(s, StartHeight, cursorHeight, knownCodes)
    <2>1. wanted \in SUBSET Txs /\ Collect(wanted)
      BY <1>10, AnswersAreTxs DEF QuerySender
    <2>2. /\ pending \subseteq pending'
          /\ faults' = 0 => faults = 0 /\ wanted \subseteq pending'
      <3> HIDE DEF wanted
      <3>. QED
        BY <1>0, <2>1, CollectFacts
    <2>3. /\ UNCHANGED <<height, cursorHeight, knownAtRead, burns, knownCodes, pc>>
          /\ pc = "senders" /\ senders' = senders \ {s}
      BY <1>10 DEF QuerySender, chainVars, tables
    <2>4. \A t \in Txs : Safe(t) => Safe(t)'
      BY <2>2, <2>3 DEF Safe, Paying
    <2>5. KnownCodeIDs(knownAtRead) # {} /\ KnownCodeIDs(knownAtRead) \subseteq knownCodes
      BY <1>0, <2>3 DEF HeightsInv, KnownCodeIDs, QueryableContracts
    <2>6. owed(s) \subseteq wanted
      BY <2>5 DEF CreatorTxs
    <2>7. faults' = 0 => (\A t \in owed(s) : Safe(t))'
      <3>1. owed(s)' = owed(s)
        BY <2>3 DEF CreatorTxs, Between, KnownCodeIDs
      <3> HIDE DEF owed, wanted
      <3>. QED
        BY <2>2, <2>6, <3>1 DEF Safe
    <2> HIDE DEF wanted
    <2>. QED
      BY <1>0, <1>1, <2>2, <2>3, <2>4, <2>7
  <1>11. CASE FinalFlush \/ Done
    <2>1. /\ pc \in {"senders", "final"} /\ pc' \in {"final", "done"}
          /\ (pc = "senders" => senders = {}) /\ (pc' = "done" => pending' = {})
          /\ UNCHANGED <<height, cursorHeight, knownAtRead, knownCodes, senders, faults>>
      BY <1>11 DEF FinalFlush, Done, chainVars, locals
    <2>2. \A t \in Txs : Safe(t) => Safe(t)'
      BY <1>11 DEF FinalFlush, Done, tables, locals, Safe, Paying
    <2>. QED
      BY <1>0, <1>1, <2>1, <2>2
  <1>12. CASE Fail
    BY <1>12 DEF Fail
  <1>13. ASSUME NEW c \in Contracts, Discover(c)
         PROVE  SendersInv'
    <2>1. \A t \in Txs : Safe(t) => Safe(t)'
      BY <1>13 DEF Discover, tables, locals, Safe, Paying
    <2>. QED
      BY <1>0, <1>1, <1>13, <2>1 DEF Discover, chainVars, locals
  <1>14. CASE LiveService
    <2>1. UNCHANGED <<pc, locals, faults>>
      BY <1>0, <1>14, LiveFacts
    <2>2. CASE pc \in Running \cup {"done"}
      <3>1. \A t \in Txs : Between(t, StartHeight, cursorHeight)'
                             => Between(t, StartHeight, cursorHeight)
        BY <1>0, <1>14, <2>2, LiveKeepsScope
      <3>2. \A s : owed(s)' \subseteq owed(s) /\ owed(s) \subseteq Txs
        BY <2>1, <3>1 DEF CreatorTxs, KnownCodeIDs, locals
      <3>3. \A t \in Txs : Safe(t) => Safe(t)'
        BY <1>0, <1>14, <2>2, LiveKeepsScope
      <3>4. /\ KnownCodeIDs(knownAtRead)' = KnownCodeIDs(knownAtRead)
            /\ Creators(knownAtRead)' = Creators(knownAtRead)
        BY <2>1 DEF locals, KnownCodeIDs, Creators
      <3> HIDE DEF owed
      <3>5. \A s : (\A t \in owed(s) : Safe(t)) => (\A t \in owed(s) : Safe(t))'
        BY <3>2, <3>3
      <3>. QED
        BY <1>0, <2>1, <3>4, <3>5 DEF locals, owed
    <2>3. CASE pc \notin Running \cup {"done"}
      BY <2>1, <2>3
    <2>. QED
      BY <2>2, <2>3
  <1>15. CASE UNCHANGED vars
    <2>1. \A t \in Txs : Safe(t) => Safe(t)'
      BY <1>15 DEF vars, tables, locals, Safe, Paying
    <2>. QED
      BY <1>0, <1>1, <1>15, <2>1 DEF vars, chainVars, locals
  <1>. QED
    BY <1>2, <1>3, <1>4, <1>5, <1>6, <1>7, <1>8, <1>9, <1>10, <1>11, <1>12, <1>13,
       <1>14, <1>15
    DEF Next, Run

LEMMA IInvInit == Init => IInv
  <1> SUFFICES ASSUME Init PROVE IInv
    OBVIOUS
  <1>1. HeightsInv
    <2>1. TypeOK /\ height \in [Txs -> 0 .. tip] /\ cursor = 0
      BY TypeInit DEF Init, L!Init, L!ChainInit
    <2>. QED
      BY <2>1, RunFacts DEF Init, HeightsInv
  <1>2. ContractsInv /\ SendersInv
    BY DEF Init, ContractsInv, SendersInv
  <1>. QED
    BY <1>1, <1>2, TypeInit DEF IInv

\* At every point of the run, all that was to be collected by then is in the batch
\* or in the table, whatever the live service does to the tables meanwhile.
THEOREM BackfillInvariant == Spec => []IInv
  <1>1. IInv /\ [Next]_vars => IInv'
    <2> SUFFICES ASSUME IInv, [Next]_vars PROVE IInv'
      OBVIOUS
    <2>1. TypeOK'
      BY TypeNext DEF IInv
    <2>. QED
      BY <2>1, HeightsNext, ContractsNext, SendersNext DEF IInv
  <1>. QED
    BY IInvInit, <1>1, PTL DEF Spec

\* A backfill in which nothing went wrong leaves no gap.
THEOREM NoGapLeftHolds == Spec => []NoGapLeft
  <1>1. IInv => NoGapLeft
    <2> SUFFICES ASSUME IInv, pc = "done", faults = 0, NEW t \in Txs, InScope(t)
                 PROVE  burns[t] # "absent"
      BY DEF NoGapLeft
    <2>1. pending = {}
      BY DEF IInv, SendersInv
    <2>2. Safe(t)
      <3>1. ASSUME NEW c \in QueryableContracts(knownAtRead, SkipCodes),
                   t \in ContractTxs(c, StartHeight, cursorHeight)
            PROVE  Safe(t)
        BY <3>1 DEF IInv, ContractsInv
      <3>2. ASSUME NEW s \in Creators(knownAtRead),
                   t \in CreatorTxs(s, StartHeight, cursorHeight,
                                    KnownCodeIDs(knownAtRead))
            PROVE  Safe(t)
        BY <3>2 DEF IInv, SendersInv
      <3>. QED
        BY <3>1, <3>2 DEF InScope
    <2>. QED
      BY <2>1, <2>2 DEF Safe, InScope
  <1>. QED
    BY <1>1, BackfillInvariant, PTL

----------------------------------------------------------------------------------
(* Refinement. *)

LEMMA LedgerStep == IInv /\ [Next]_vars => [L!Next]_(L!ledgerVars)
  <1> SUFFICES ASSUME IInv, [Next]_vars PROVE L!Next \/ UNCHANGED L!ledgerVars
    BY DEF L!ledgerVars
  <1> USE DEF L!ledgerVars, L!chainVars, chainVars, tables
  <1>0. TypeOK /\ HeightsInv
    BY DEF IInv
  <1>1. ASSUME NEW t \in Txs, Insert(t)
        PROVE  L!Next \/ UNCHANGED L!ledgerVars
    <2>1. CASE burns[t] = "absent" /\ TxInfo[t].fee > 0
      <3>1. TxInfo[t].ok /\ height[t] \in 1 .. tip
        BY <1>0, <1>1, RunFacts DEF Insert, HeightsInv
      <3>2. L!Record(t)
        BY <1>1, <2>1, <3>1 DEF Insert, L!Record, L!Paying
      <3>. QED
        BY <3>2 DEF L!Next
    <2>2. CASE ~(burns[t] = "absent" /\ TxInfo[t].fee > 0)
      BY <1>1, <2>2 DEF Insert
    <2>. QED
      BY <2>1, <2>2
  <1>2. CASE LiveService
    BY <1>2 DEF LiveService, L!Next
  <1>3. UNCHANGED vars \/ Begin \/ (\E c \in Contracts : QueryContract(c))
          \/ (\E t \in Txs : InsertFails(t)) \/ Flushed \/ SnapshotCodes
          \/ SnapshotCreators \/ SnapshotAdmins \/ (\E s \in Accounts : QuerySender(s))
          \/ FinalFlush \/ Done \/ Fail \/ (\E c \in Contracts : Discover(c))
          => UNCHANGED L!ledgerVars
    BY DEF vars, Begin, QueryContract, InsertFails, Flushed, SnapshotCodes,
           SnapshotCreators, SnapshotAdmins, QuerySender, FinalFlush, Done, Fail,
           Discover
  <1>. QED
    BY <1>1, <1>2, <1>3 DEF Next, Run

\* Two processes write the tables at once, and they still change only as Ledger
\* promises: no row is rewritten, and the backfill leaves the cursor alone.
THEOREM LedgerRefinement == Spec => ImplementsLedger
  <1>1. Init => L!Init
    BY DEF Init
  <1>. QED
    BY <1>1, LedgerStep, BackfillInvariant, PTL DEF Spec, L!Spec, ImplementsLedger
==================================================================================
