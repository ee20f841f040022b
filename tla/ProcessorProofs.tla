----------------------------- MODULE ProcessorProofs -----------------------------
(***************************************************************************)
(* Machine-checked proofs about Processor, for every set of transactions,   *)
(* contracts, accounts and codes and every value of the bounds.             *)
(*                                                                         *)
(* TypeInvariant stands alone.  CycleInvariant shows that IInv is inductive; *)
(* the two action properties, what the cursor claims and the refinement of   *)
(* Ledger follow from it.  The last section puts a backfill beside the        *)
(* processor (Deployment): each turns out to be what the other assumes.       *)
(***************************************************************************)
EXTENDS Deployment, MetadataProofs, TLAPS

USE DEF Phases, Scanning, L!Rows, Rows

\* An answer only has transactions of the chain.
LEMMA AnswersAreTxs ==
    ASSUME NEW c, NEW a, NEW u, NEW K
    PROVE  /\ ContractTxs(c, a, u) \subseteq Txs
           /\ CreatorTxs(c, a, u, K) \subseteq Txs
  BY DEF ContractTxs, CreatorTxs

----------------------------------------------------------------------------------
(* Type correctness. *)

LEMMA TypeInit == Init => TypeOK
  <1> SUFFICES ASSUME Init PROVE TypeOK
    OBVIOUS
  <1>1. ChainTypeOK
    <2>1. tip \in Nat /\ 0 .. tip \subseteq Nat
      BY MaxHeightAssumption DEF Init, ChainInit
    <2>2. height \in [Txs -> 0 .. tip]
      BY DEF Init, ChainInit
    <2>. QED
      BY <2>1, <2>2 DEF ChainTypeOK
  <1>. QED
    BY <1>1 DEF Init, TypeOK, NoCycle, NoClaim

LEMMA CollectType ==
    ASSUME TypeOK, NEW answer \in SUBSET Txs, Collect(answer)
    PROVE  /\ seen' \in SUBSET Txs
           /\ maxHeight' \in Nat
           /\ queryTip' \in Nat
  BY DEF TypeOK, ChainTypeOK, Collect

LEMMA AnsweredType ==
    ASSUME TypeOK, NEW old, NEW now \in SUBSET Txs, Answered(old, now)
    PROVE  /\ seen' \in SUBSET Txs
           /\ maxHeight' \in Nat
           /\ queryTip' \in Nat
           /\ short' \in BOOLEAN
           /\ shorts' \in Nat
  <1>1. PICK answer \in SUBSET now : Collect(answer)
    BY DEF Answered
  <1>2. answer \in SUBSET Txs
    OBVIOUS
  <1>3. \/ short' = short /\ shorts' = shorts
        \/ short' = TRUE /\ shorts' = shorts + 1
    BY Zenon DEF Answered
  <1>4. seen' \in SUBSET Txs /\ maxHeight' \in Nat /\ queryTip' \in Nat
    BY <1>1, <1>2, CollectType
  <1>5. short' \in BOOLEAN
    BY <1>3, Zenon DEF TypeOK
  <1>6. shorts' \in Nat
    BY <1>3 DEF TypeOK
  <1>. QED
    BY <1>4, <1>5, <1>6

LEMMA TypeNext == TypeOK /\ [Next]_vars => TypeOK'
  <1> SUFFICES ASSUME TypeOK, [Next]_vars PROVE TypeOK'
    OBVIOUS
  <1> USE DEF TypeOK, ChainTypeOK
  <1>1. CASE Grow
    BY <1>1 DEF Grow, NewBlock, tables, locals, history, counts
  <1>2. ASSUME NEW rows \in [Txs -> Rows], NEW h \in Nat, Boot(rows, h),
               claim' \in {claim, NoClaim}
        PROVE  TypeOK'
    BY <1>2 DEF Boot, chainVars, locals, history, NoClaim
  <1>3. CASE BootPlain \/ BootReindex \/ BootResetDB
    BY <1>2, <1>3 DEF BootPlain, BootReindex, BootResetDB
  <1>4. ASSUME NEW c \in Contracts, Discover(c)
        PROVE  TypeOK'
    BY <1>4 DEF Discover, chainVars, tables, locals, history, counts
  <1>5. CASE Start
    BY <1>5, StartHeightAssumption
    DEF Start, chainVars, locals, history
  <1>6. CASE ReadCursor
    BY <1>6, SnapshotFacts DEF ReadCursor, chainVars, tables, counts
  <1>7. ASSUME NEW c \in Contracts, QueryContract(c)
        PROVE  TypeOK'
    <2>1. Answered(ContractTxs(c, lastHeight, queryTip), ContractTxs(c, lastHeight, tip))
      BY <1>7 DEF QueryContract
    <2>2. ContractTxs(c, lastHeight, tip) \in SUBSET Txs
      BY AnswersAreTxs
    <2>. QED
      BY <1>7, <2>1, <2>2, AnsweredType DEF QueryContract, chainVars, tables
  <1>8. CASE SnapshotCodes
    BY <1>8, SnapshotFacts DEF SnapshotCodes, chainVars, tables, history, counts
  <1>9. CASE SnapshotCreators
    BY <1>9, SnapshotFacts DEF SnapshotCreators, chainVars, tables, history, counts
  <1>10. CASE SnapshotAdmins
    BY <1>10, SnapshotFacts DEF SnapshotAdmins, chainVars, tables, history, counts
  <1>11. ASSUME NEW s \in Accounts, QuerySender(s)
         PROVE  TypeOK'
    <2>1. Answered(CreatorTxs(s, lastHeight, queryTip, knownCodes),
                   CreatorTxs(s, lastHeight, tip, knownCodes))
      BY <1>11 DEF QuerySender
    <2>2. CreatorTxs(s, lastHeight, tip, knownCodes) \in SUBSET Txs
      BY AnswersAreTxs
    <2>. QED
      BY <1>11, <2>1, <2>2, AnsweredType DEF QuerySender, chainVars, tables
  <1>12. CASE StartInserts
    BY <1>12 DEF StartInserts, chainVars, tables, history, counts
  <1>13. ASSUME NEW t \in Txs, Insert(t)
         PROVE  TypeOK'
    BY <1>13 DEF Insert, chainVars, history, counts
  <1>14. ASSUME NEW t \in Txs, InsertFails(t)
         PROVE  TypeOK'
    BY <1>14 DEF InsertFails, chainVars, tables, history
  <1>15. ASSUME Finish, cursor' \in Nat, dbFaults' \in Nat,
                claim' \in [known : SUBSET Contracts, passed : SUBSET Nat]
         PROVE  TypeOK'
    BY <1>15 DEF Finish, EndCycle, chainVars
  <1>19. CASE Advance
    <2>1. claim' \in [known : SUBSET Contracts, passed : SUBSET Nat]
      BY <1>19 DEF Advance, MoveCursor
    <2>. QED
      BY <1>15, <1>19, <2>1 DEF Advance, MoveCursor
  <1>20. CASE Stay
    BY <1>15, <1>20 DEF Stay
  <1>21. CASE AdvanceFails
    BY <1>15, <1>21 DEF AdvanceFails
  <1>16. CASE ReadCursorFails
    BY <1>16 DEF ReadCursorFails, chainVars, tables, locals, history
  <1>17. CASE Crash
    BY <1>17 DEF Crash, EndCycle, chainVars, tables, counts
  <1>18. CASE UNCHANGED vars
    BY <1>18 DEF vars, chainVars, tables, locals, history, counts
  <1>. QED
    BY <1>1, <1>3, <1>4, <1>5, <1>6, <1>7, <1>8, <1>9, <1>10, <1>11, <1>12, <1>13,
       <1>14, <1>16, <1>17, <1>18, <1>19, <1>20, <1>21
    DEF Next, Work, Faults

\* Every variable of the processor keeps its type: rows are rows, snapshots are
\* sets of contracts, codes and accounts, heights never leave the naturals.
THEOREM TypeInvariant == Spec => []TypeOK
  BY TypeInit, TypeNext, PTL DEF Spec

----------------------------------------------------------------------------------
(* What a cycle owes: IInv is inductive. *)

LEMMA IInvInit == Init => IInv
  <1> SUFFICES ASSUME Init PROVE IInv
    OBVIOUS
  <1>1. TypeOK
    BY TypeInit
  <1>2. \A t \in Txs : height[t] <= tip
    BY MaxHeightAssumption DEF Init, ChainInit
  <1>3. pc = "down" /\ NoCycle /\ cursor <= tip
    BY <1>1 DEF Init, TypeOK, ChainTypeOK
  <1>. QED
    BY <1>1, <1>2, <1>3 DEF IInv, ScanInv, ContractsInv, SendersInv, InsertInv

\* What one answer does to the locals of the cycle.
LEMMA AnsweredFacts ==
    ASSUME TypeOK, NEW old, NEW now \in SUBSET Txs, Answered(old, now)
    PROVE  /\ seen \subseteq seen' /\ seen' \subseteq seen \cup now
           /\ \A t \in seen' : t \in seen \/ height[t] <= maxHeight'
           /\ maxHeight <= maxHeight'
           /\ maxHeight' = maxHeight \/ \E t \in now : maxHeight' = height[t]
           /\ queryTip' = tip
           /\ ~short' => ~short /\ old \subseteq seen'
  <1>1. PICK answer \in SUBSET now :
             /\ Collect(answer)
             /\ \/ old \subseteq answer /\ short' = short
                \/ short' = TRUE
    BY Zenon DEF Answered
  <1>2. ~short' => ~short /\ old \subseteq answer
    BY <1>1, Zenon DEF TypeOK
  <1>. QED
    BY <1>1, <1>2 DEF Collect

\* A new block only places transactions that were in none.
LEMMA GrowFacts ==
    ASSUME TypeOK, Grow
    PROVE  /\ tip' = tip + 1
           /\ \A t \in Txs : \/ height'[t] = height[t]
                             \/ height[t] = 0 /\ height'[t] = tip + 1
  BY DEF Grow, NewBlock, TypeOK, ChainTypeOK

\* So it adds nothing to what a query up to an old tip finds.
LEMMA GrowKeepsPast ==
    ASSUME TypeOK, Grow, tipAtRead <= tip
    PROVE  \A t \in Txs : Between(t, lastHeight, tipAtRead)'
                            <=> Between(t, lastHeight, tipAtRead)
  <1>1. /\ tip \in Nat /\ height \in [Txs -> Nat] /\ lastHeight \in Nat
        /\ tipAtRead \in Nat
    BY DEF TypeOK, ChainTypeOK
  <1>2. lastHeight' = lastHeight /\ tipAtRead' = tipAtRead
    BY DEF Grow, locals, history
  <1>. QED
    BY <1>1, <1>2, GrowFacts DEF Between

LEMMA ScanNext == IInv /\ [Next]_vars => ScanInv'
  <1> SUFFICES ASSUME IInv, [Next]_vars PROVE ScanInv'
    OBVIOUS
  <1> USE DEF ScanInv
  <1>0. TypeOK /\ ScanInv
    BY DEF IInv
  <1>t. /\ height \in [Txs -> Nat] /\ tip \in Nat /\ cursor \in Nat
        /\ lastHeight \in Nat /\ maxHeight \in Nat /\ queryTip \in Nat
        /\ tipAtRead \in Nat /\ seen \in SUBSET Txs
        /\ known \in SUBSET Contracts /\ knownAtRead \in SUBSET Contracts
    BY <1>0 DEF TypeOK, ChainTypeOK
  <1>1. CASE Grow
    BY <1>0, <1>1, <1>t, GrowFacts DEF Grow, NoCycle, tables, locals, history
  <1>2. ASSUME NEW rows, NEW h \in {cursor, 0}, Boot(rows, h)
        PROVE  ScanInv'
    BY <1>0, <1>t, <1>2 DEF Boot, NoCycle, chainVars, locals, history
  <1>3. CASE BootPlain \/ BootReindex \/ BootResetDB
    BY <1>2, <1>3 DEF BootPlain, BootReindex, BootResetDB
  <1>4. ASSUME NEW c \in Contracts, Discover(c)
        PROVE  ScanInv'
    BY <1>0, <1>4 DEF Discover, NoCycle, chainVars, tables, locals, history
  <1>5. CASE Start
    BY <1>0, <1>5 DEF Start, NoCycle, chainVars, locals, history
  <1>6. CASE ReadCursor
    BY <1>0, <1>6, <1>t DEF ReadCursor, NoCycle, chainVars, tables
  <1>7. ASSUME NEW c \in Contracts, QueryContract(c)
        PROVE  ScanInv'
    <2> DEFINE now == ContractTxs(c, lastHeight, tip)
    <2>1. Answered(ContractTxs(c, lastHeight, queryTip), now) /\ now \in SUBSET Txs
      BY <1>7, AnswersAreTxs DEF QueryContract
    <2>2. \A t \in now : TxInfo[t].ok /\ height[t] \in 1 .. tip
      BY <1>t DEF ContractTxs, Between
    <2> HIDE DEF now
    <2>. QED
      BY <1>0, <1>7, <1>t, <2>1, <2>2, AnsweredFacts, AnsweredType
      DEF QueryContract, chainVars, tables
  <1>8. CASE SnapshotCodes
    BY <1>0, <1>8 DEF SnapshotCodes, chainVars, tables, history
  <1>9. CASE SnapshotCreators
    BY <1>0, <1>9 DEF SnapshotCreators, chainVars, tables, history
  <1>10. CASE SnapshotAdmins
    BY <1>0, <1>10, <1>t DEF SnapshotAdmins, chainVars, tables, history
  <1>11. ASSUME NEW s \in Accounts, QuerySender(s)
         PROVE  ScanInv'
    <2> DEFINE now == CreatorTxs(s, lastHeight, tip, knownCodes)
    <2>1. Answered(CreatorTxs(s, lastHeight, queryTip, knownCodes), now)
          /\ now \in SUBSET Txs
      BY <1>11, AnswersAreTxs DEF QuerySender
    <2>2. \A t \in now : TxInfo[t].ok /\ height[t] \in 1 .. tip
      BY <1>t DEF CreatorTxs, Between
    <2> HIDE DEF now
    <2>. QED
      BY <1>0, <1>11, <1>t, <2>1, <2>2, AnsweredFacts, AnsweredType
      DEF QuerySender, chainVars, tables
  <1>12. CASE StartInserts
    BY <1>0, <1>12 DEF StartInserts, chainVars, tables, history
  <1>13. ASSUME NEW t \in Txs, Insert(t)
         PROVE  ScanInv'
    BY <1>0, <1>13 DEF Insert, chainVars, history
  <1>14. ASSUME NEW t \in Txs, InsertFails(t)
         PROVE  ScanInv'
    BY <1>0, <1>14 DEF InsertFails, chainVars, tables, history
  <1>15. ASSUME Finish, cursor' = cursor \/ (cursor' = maxHeight /\ maxHeight > lastHeight)
         PROVE  ScanInv'
    BY <1>0, <1>15, <1>t DEF Finish, EndCycle, NoCycle, chainVars
  <1>16. CASE ReadCursorFails
    BY <1>0, <1>16 DEF ReadCursorFails, NoCycle, chainVars, tables, locals, history
  <1>17. CASE Crash
    BY <1>0, <1>17 DEF Crash, EndCycle, NoCycle, chainVars, tables
  <1>18. CASE UNCHANGED vars
    BY <1>0, <1>18 DEF vars, NoCycle, chainVars, tables, locals, history
  <1>19. CASE Advance
    <2>1. Finish /\ cursor' = maxHeight /\ maxHeight > lastHeight
      BY <1>19 DEF Advance, MoveCursor
    <2>. QED
      BY <1>15, <2>1
  <1>20. CASE Stay \/ AdvanceFails
    <2>1. Finish /\ cursor' = cursor
      BY <1>20 DEF Stay, AdvanceFails
    <2>. QED
      BY <1>15, <2>1
  <1>. QED
    BY <1>1, <1>3, <1>4, <1>5, <1>6, <1>7, <1>8, <1>9, <1>10, <1>11, <1>12, <1>13,
       <1>14, <1>16, <1>17, <1>18, <1>19, <1>20
    DEF Next, Work, Faults

LEMMA ContractsNext == IInv /\ [Next]_vars => ContractsInv'
  <1> SUFFICES ASSUME IInv, [Next]_vars PROVE ContractsInv'
    OBVIOUS
  <1> USE DEF ContractsInv
  <1>0. TypeOK /\ ScanInv /\ ContractsInv
    BY DEF IInv
  <1>t. /\ tip \in Nat /\ lastHeight \in Nat /\ tipAtRead \in Nat
        /\ contracts \in SUBSET Contracts
    BY <1>0 DEF TypeOK, ChainTypeOK
  <1>1. CASE Grow
    <2>1. CASE pc \in Scanning
      <3>1. \A t \in Txs : Between(t, lastHeight, tipAtRead)'
                             <=> Between(t, lastHeight, tipAtRead)
        BY <1>0, <1>1, <1>t, <2>1, GrowKeepsPast DEF ScanInv, TypeOK
      <3>2. \A c : ContractTxs(c, lastHeight, tipAtRead)'
                     = ContractTxs(c, lastHeight, tipAtRead)
        BY <3>1 DEF ContractTxs
      <3>. QED
        BY <1>0, <1>1, <3>2 DEF Grow, tables, locals, history
    <2>2. CASE pc \notin Scanning
      BY <1>1, <2>2 DEF Grow
    <2>. QED
      BY <2>1, <2>2
  <1>4. ASSUME NEW c \in Contracts, Discover(c)
        PROVE  ContractsInv'
    BY <1>0, <1>4 DEF Discover, chainVars, locals, history, ContractTxs, Between
  <1>6. CASE ReadCursor
    BY <1>0, <1>6 DEF ReadCursor
  <1>7. ASSUME NEW c \in Contracts, QueryContract(c)
        PROVE  ContractsInv'
    <2> DEFINE now == ContractTxs(c, lastHeight, tip)
               old == ContractTxs(c, lastHeight, queryTip)
    <2>1. Answered(old, now) /\ now \in SUBSET Txs
      BY <1>7, AnswersAreTxs DEF QueryContract
    <2>2. seen \subseteq seen' /\ (~short' => ~short /\ old \subseteq seen')
      <3> HIDE DEF now, old
      <3>. QED
        BY <1>0, <2>1, AnsweredFacts
    <2>3. pc = "contracts" /\ tipAtRead <= queryTip /\ queryTip \in Nat
      BY <1>0, <1>7 DEF QueryContract, ScanInv, TypeOK
    <2>4. ContractTxs(c, lastHeight, tipAtRead) \subseteq old
      BY <1>0, <1>t, <2>3 DEF ContractTxs, Between, TypeOK, ChainTypeOK
    <2>5. \A d : ContractTxs(d, lastHeight, tipAtRead)'
                   = ContractTxs(d, lastHeight, tipAtRead)
      BY <1>7 DEF QueryContract, chainVars, ContractTxs, Between
    <2> HIDE DEF now, old
    <2>. QED
      BY <1>0, <1>7, <2>2, <2>3, <2>4, <2>5 DEF QueryContract
  <1>8. CASE SnapshotCodes
    BY <1>0, <1>8 DEF SnapshotCodes, chainVars, history, ContractTxs, Between
  <1>9. CASE SnapshotCreators
    BY <1>0, <1>9 DEF SnapshotCreators, chainVars, history, ContractTxs, Between
  <1>10. CASE SnapshotAdmins
    BY <1>0, <1>10 DEF SnapshotAdmins, chainVars, history, ContractTxs, Between
  <1>11. ASSUME NEW s \in Accounts, QuerySender(s)
         PROVE  ContractsInv'
    <2> DEFINE now == CreatorTxs(s, lastHeight, tip, knownCodes)
               old == CreatorTxs(s, lastHeight, queryTip, knownCodes)
    <2>1. Answered(old, now) /\ now \in SUBSET Txs
      BY <1>11, AnswersAreTxs DEF QuerySender
    <2>2. seen \subseteq seen' /\ (~short' => ~short)
      <3> HIDE DEF now, old
      <3>. QED
        BY <1>0, <2>1, AnsweredFacts
    <2>3. \A d : ContractTxs(d, lastHeight, tipAtRead)'
                   = ContractTxs(d, lastHeight, tipAtRead)
      BY <1>11 DEF QuerySender, chainVars, ContractTxs, Between
    <2>. QED
      BY <1>0, <1>11, <2>2, <2>3 DEF QuerySender
  <1>12. CASE StartInserts
    BY <1>0, <1>12 DEF StartInserts, chainVars, history, ContractTxs, Between
  <1>13. ASSUME NEW t \in Txs, Insert(t)
         PROVE  ContractsInv'
    BY <1>0, <1>13 DEF Insert, chainVars, history, ContractTxs, Between
  <1>14. ASSUME NEW t \in Txs, InsertFails(t)
         PROVE  ContractsInv'
    BY <1>0, <1>14 DEF InsertFails, chainVars, history, ContractTxs, Between
  <1>15. ASSUME pc' \notin Scanning
         PROVE  ContractsInv'
    BY <1>15
  <1>16. CASE UNCHANGED vars
    BY <1>0, <1>16 DEF vars, chainVars, locals, history, ContractTxs, Between
  <1>17. BootPlain \/ BootReindex \/ BootResetDB \/ Start \/ Finish
           \/ ReadCursorFails \/ Crash
           => pc' \notin Scanning
    BY DEF BootPlain, BootReindex, BootResetDB, Boot, Start, Finish, ReadCursorFails,
           Crash
  <1>. QED
    BY <1>1, <1>4, <1>6, <1>7, <1>8, <1>9, <1>10, <1>11, <1>12, <1>13, <1>14, <1>15,
       <1>16, <1>17
    DEF Next, Work, Faults, Advance, Stay, AdvanceFails

LEMMA SendersNext == IInv /\ [Next]_vars => SendersInv'
  <1> SUFFICES ASSUME IInv, [Next]_vars PROVE SendersInv'
    OBVIOUS
  <1> USE DEF SendersInv
  <1>0. TypeOK /\ ScanInv /\ SendersInv
    BY DEF IInv
  <1>t. /\ tip \in Nat /\ lastHeight \in Nat /\ tipAtRead \in Nat /\ queryTip \in Nat
        /\ known \in SUBSET Contracts /\ knownAtRead \in SUBSET Contracts
    BY <1>0 DEF TypeOK, ChainTypeOK
  <1>1. CASE Grow
    <2>1. CASE pc \in Scanning
      <3>1. \A t \in Txs : Between(t, lastHeight, tipAtRead)'
                             <=> Between(t, lastHeight, tipAtRead)
        BY <1>0, <1>1, <1>t, <2>1, GrowKeepsPast DEF ScanInv, TypeOK
      <3>2. knownAtRead' = knownAtRead
        BY <1>1 DEF Grow, history
      <3>3. \A s : CreatorTxs(s, lastHeight, tipAtRead, KnownCodeIDs(knownAtRead))'
                     = CreatorTxs(s, lastHeight, tipAtRead, KnownCodeIDs(knownAtRead))
        BY <3>1, <3>2 DEF CreatorTxs, KnownCodeIDs
      <3>. QED
        BY <1>0, <1>1, <3>2, <3>3 DEF Grow, tables, locals, history, KnownCodeIDs, Creators
    <2>2. CASE pc \notin Scanning
      BY <1>1, <2>2 DEF Grow
    <2>. QED
      BY <2>1, <2>2
  \* The sets the invariant is about stay the same while a cycle goes on.
  <1>2. ASSUME height' = height, lastHeight' = lastHeight, tipAtRead' = tipAtRead,
               knownAtRead' = knownAtRead
        PROVE  /\ KnownCodeIDs(knownAtRead)' = KnownCodeIDs(knownAtRead)
               /\ Creators(knownAtRead)' = Creators(knownAtRead)
               /\ \A s : CreatorTxs(s, lastHeight, tipAtRead, KnownCodeIDs(knownAtRead))'
                   = CreatorTxs(s, lastHeight, tipAtRead, KnownCodeIDs(knownAtRead))
    BY <1>2 DEF KnownCodeIDs, Creators, CreatorTxs, Between
  <1>4. ASSUME NEW c \in Contracts, Discover(c)
        PROVE  SendersInv'
    BY <1>0, <1>2, <1>4 DEF Discover, chainVars, locals, history
  <1>6. CASE ReadCursor
    BY <1>6 DEF ReadCursor
  <1>7. ASSUME NEW c \in Contracts, QueryContract(c)
        PROVE  SendersInv'
    BY <1>7 DEF QueryContract
  <1>8. CASE SnapshotCodes
    <2>1. KnownCodeIDs(knownAtRead) \subseteq KnownCodeIDs(known)
      BY <1>0, <1>8, <1>t, SnapshotMonotone DEF SnapshotCodes, ScanInv
    <2>. QED
      BY <1>2, <1>8, <2>1 DEF SnapshotCodes, chainVars, history
  <1>9. CASE SnapshotCreators
    <2>1. Creators(knownAtRead) \subseteq Creators(known)
      BY <1>0, <1>9, <1>t, SnapshotMonotone DEF SnapshotCreators, ScanInv
    <2>. QED
      BY <1>0, <1>2, <1>9, <2>1 DEF SnapshotCreators, chainVars, history
  <1>10. CASE SnapshotAdmins
    BY <1>0, <1>2, <1>10 DEF SnapshotAdmins, chainVars, history
  <1>11. ASSUME NEW s \in Accounts, QuerySender(s)
         PROVE  SendersInv'
    <2> DEFINE now == CreatorTxs(s, lastHeight, tip, knownCodes)
               old == CreatorTxs(s, lastHeight, queryTip, knownCodes)
               owed == CreatorTxs(s, lastHeight, tipAtRead, KnownCodeIDs(knownAtRead))
    <2>1. Answered(old, now) /\ now \in SUBSET Txs
      BY <1>11, AnswersAreTxs DEF QuerySender
    <2>2. seen \subseteq seen' /\ (~short' => ~short /\ old \subseteq seen')
      <3> HIDE DEF now, old
      <3>. QED
        BY <1>0, <2>1, AnsweredFacts
    <2>3. /\ pc = "senders" /\ tipAtRead <= queryTip
          /\ QueryableContracts(knownAtRead, SkipCodes) # {}
          /\ KnownCodeIDs(knownAtRead) \subseteq knownCodes
      BY <1>0, <1>11 DEF QuerySender, ScanInv
    <2>4. KnownCodeIDs(knownAtRead) # {}
      BY <2>3 DEF KnownCodeIDs, QueryableContracts
    <2>5. owed \subseteq old
      <3>1. \A t \in Txs : Between(t, lastHeight, tipAtRead)
                             => Between(t, lastHeight, queryTip)
        BY <1>0, <1>t, <2>3 DEF Between, TypeOK, ChainTypeOK
      <3>. QED
        BY <2>3, <2>4, <3>1 DEF CreatorTxs
    <2>6. /\ height' = height /\ lastHeight' = lastHeight /\ tipAtRead' = tipAtRead
          /\ knownAtRead' = knownAtRead /\ pc' = pc /\ knownCodes' = knownCodes
          /\ senders' = senders \ {s}
      BY <1>11 DEF QuerySender, chainVars
    <2> HIDE DEF now, old
    <2>. QED
      BY <1>0, <1>2, <2>2, <2>3, <2>5, <2>6
  <1>12. CASE StartInserts
    BY <1>0, <1>2, <1>12 DEF StartInserts, chainVars, history
  <1>13. ASSUME NEW t \in Txs, Insert(t)
         PROVE  SendersInv'
    BY <1>0, <1>2, <1>13 DEF Insert, chainVars, history
  <1>14. ASSUME NEW t \in Txs, InsertFails(t)
         PROVE  SendersInv'
    BY <1>0, <1>2, <1>14 DEF InsertFails, chainVars, history
  <1>15. ASSUME pc' \notin Scanning
         PROVE  SendersInv'
    BY <1>15
  <1>16. CASE UNCHANGED vars
    BY <1>0, <1>2, <1>16 DEF vars, chainVars, locals, history
  <1>17. BootPlain \/ BootReindex \/ BootResetDB \/ Start \/ Finish
           \/ ReadCursorFails \/ Crash
           => pc' \notin Scanning
    BY DEF BootPlain, BootReindex, BootResetDB, Boot, Start, Finish, ReadCursorFails,
           Crash
  <1>. QED
    BY <1>1, <1>4, <1>6, <1>7, <1>8, <1>9, <1>10, <1>11, <1>12, <1>13, <1>14, <1>15,
       <1>16, <1>17
    DEF Next, Work, Faults, Advance, Stay, AdvanceFails

LEMMA InsertNext == IInv /\ [Next]_vars => InsertInv'
  <1> SUFFICES ASSUME IInv, [Next]_vars PROVE InsertInv'
    OBVIOUS
  <1> USE DEF InsertInv
  <1>0. TypeOK /\ ScanInv /\ InsertInv
    BY DEF IInv
  <1>1. CASE StartInserts
    <2>1. \A t \in seen : TxInfo[t].ok
      BY <1>0, <1>1 DEF StartInserts, ScanInv
    <2>. QED
      BY <1>0, <1>1, <2>1 DEF StartInserts, Paying, TypeOK
  <1>2. ASSUME NEW t \in Txs, Insert(t)
        PROVE  InsertInv'
    <2>1. burns'[t] # "absent"
      BY <1>0, <1>2 DEF Insert, TypeOK
    <2>2. \A u \in Txs : burns[u] # "absent" => burns'[u] # "absent"
      BY <1>0, <1>2 DEF Insert, TypeOK
    <2>. QED
      BY <1>0, <1>2, <2>1, <2>2 DEF Insert, TypeOK
  <1>3. ASSUME NEW t \in Txs, InsertFails(t)
        PROVE  InsertInv'
    BY <1>0, <1>3 DEF InsertFails, TypeOK
  <1>4. CASE Grow
    BY <1>0, <1>4 DEF Grow, tables, locals
  <1>5. ASSUME NEW c \in Contracts, Discover(c)
        PROVE  InsertInv'
    BY <1>0, <1>5 DEF Discover, tables, locals
  <1>6. ASSUME pc' # "insert"
        PROVE  InsertInv'
    BY <1>6
  <1>7. CASE UNCHANGED vars
    BY <1>0, <1>7 DEF vars, tables, locals
  <1>8. BootPlain \/ BootReindex \/ BootResetDB \/ Start \/ Finish \/ ReadCursor
          \/ (\E c \in Contracts : QueryContract(c)) \/ SnapshotCodes
          \/ SnapshotCreators \/ SnapshotAdmins \/ (\E s \in Accounts : QuerySender(s))
          \/ ReadCursorFails \/ Crash
          => pc' # "insert"
    BY DEF BootPlain, BootReindex, BootResetDB, Boot, Start, Finish, ReadCursor,
           QueryContract, SnapshotCodes, SnapshotCreators, SnapshotAdmins,
           QuerySender, ReadCursorFails, Crash
  <1>. QED
    BY <1>1, <1>2, <1>3, <1>4, <1>5, <1>6, <1>7, <1>8
    DEF Next, Work, Faults, Advance, Stay, AdvanceFails

LEMMA IInvNext == IInv /\ [Next]_vars => IInv'
  <1> SUFFICES ASSUME IInv, [Next]_vars PROVE IInv'
    OBVIOUS
  <1>1. TypeOK'
    BY TypeNext DEF IInv
  <1>. QED
    BY <1>1, ScanNext, ContractsNext, SendersNext, InsertNext DEF IInv

\* At every point of a cycle, all that was to be collected or stored by then has
\* been, as far as the answers and the database allowed.
THEOREM CycleInvariant == Spec => []IInv
  BY IInvInit, IInvNext, PTL DEF Spec

----------------------------------------------------------------------------------
(* The action properties. *)

LEMMA AdvanceHasStored ==
    ASSUME IInv, Advance, NEW t \in seen, Paying(t)
    PROVE  burns[t] # "absent"
  BY DEF IInv, InsertInv, Advance, Finish

\* A cycle that moves the cursor has stored every paying transaction it saw.
THEOREM StoredBeforeAdvanceHolds == Spec => StoredBeforeAdvance
  <1>1. IInv => [Advance => \A t \in seen : Paying(t) => burns[t] # "absent"]_vars
    BY AdvanceHasStored
  <1>. QED
    BY <1>1, CycleInvariant, PTL DEF Spec, StoredBeforeAdvance

\* What a cycle with complete answers owes when it moves the cursor.
LEMMA AdvanceOwesNothing ==
    ASSUME IInv, Advance, ~short, NEW t \in Txs, InScope(t)
    PROVE  burns[t] # "absent"
  <1>1. pc = "insert" /\ batch = {} /\ ~dbErr
    BY DEF Advance, Finish
  <1>2. t \in seen
    <2>1. ASSUME NEW c \in QueryableContracts(knownAtRead, SkipCodes),
                 t \in ContractTxs(c, lastHeight, tipAtRead)
          PROVE  t \in seen
      BY <1>1, <2>1 DEF IInv, ContractsInv
    <2>2. ASSUME NEW s \in Creators(knownAtRead),
                 t \in CreatorTxs(s, lastHeight, tipAtRead, KnownCodeIDs(knownAtRead))
          PROVE  t \in seen
      BY <1>1, <2>2 DEF IInv, SendersInv
    <2>. QED
      BY <2>1, <2>2 DEF InScope, Scope
  <1>. QED
    BY <1>1, <1>2 DEF IInv, InsertInv, InScope, Scope

\* A cycle whose answers were complete leaves nothing behind that was on the
\* chain, and in scope, when it began.
THEOREM NoLossHolds == Spec => NoLossBelowTipAtRead
  <1>1. IInv => [Advance /\ ~short =>
                   \A t \in Txs : InScope(t) => burns[t] # "absent"]_vars
    BY AdvanceOwesNothing
  <1>. QED
    BY <1>1, CycleInvariant, PTL DEF Spec, NoLossBelowTipAtRead

----------------------------------------------------------------------------------
(* What the cursor stands for. *)

\* Some contracts account for a paying transaction, wherever it lies.
Accounted(K, t) ==
    /\ Paying(t)
    /\ \/ \E c \in QueryableContracts(K, SkipCodes) : c \in TxInfo[t].touches
       \/ /\ TxInfo[t].signer \in Creators(K)
          /\ \/ TxInfo[t].op = "upload"
             \/ TxInfo[t].op # "execute" /\ TxInfo[t].code \in KnownCodeIDs(K)

\* The scope of a set of contracts, split into the heights and the rest: whoever has
\* a creator has a code, so the filter of the sender query is never switched off.
LEMMA ScopeIs ==
    ASSUME NEW K \in SUBSET Contracts, NEW after, NEW upto, NEW t \in Txs
    PROVE  t \in Scope(K, after, upto) <=> Between(t, after, upto) /\ Accounted(K, t)
  <1>1. Creators(K) # {} => KnownCodeIDs(K) # {}
    BY DEF Creators, KnownCodeIDs
  <1>2. t \in Scope(K, after, upto) <=>
          /\ Paying(t)
          /\ \/ \E c \in QueryableContracts(K, SkipCodes) : t \in ContractTxs(c, after, upto)
             \/ \E s \in Creators(K) : t \in CreatorTxs(s, after, upto, KnownCodeIDs(K))
    BY DEF Scope
  <1>3. (\E s \in Creators(K) : t \in CreatorTxs(s, after, upto, KnownCodeIDs(K))) <=>
          /\ TxInfo[t].ok /\ Between(t, after, upto)
          /\ TxInfo[t].signer \in Creators(K)
          /\ \/ TxInfo[t].op = "upload"
             \/ TxInfo[t].op # "execute" /\ TxInfo[t].code \in KnownCodeIDs(K)
    BY <1>1 DEF CreatorTxs
  <1>. QED
    BY <1>2, <1>3 DEF Accounted, ContractTxs, Paying

\* More contracts account for more, and none for nothing.
LEMMA AccountedMonotone ==
    ASSUME NEW K \in SUBSET Contracts, NEW M \in SUBSET Contracts, K \subseteq M,
           NEW t \in Txs, Accounted(K, t)
    PROVE  Accounted(M, t) /\ K # {}
  <1>1. KnownCodeIDs(K) \subseteq KnownCodeIDs(M) /\ Creators(K) \subseteq Creators(M)
    BY SnapshotMonotone
  <1>2. QueryableContracts(K, SkipCodes) \subseteq QueryableContracts(M, SkipCodes)
    BY DEF QueryableContracts
  <1>3. K # {}
    BY DEF Accounted, QueryableContracts, Creators
  <1>. QED
    BY <1>1, <1>2, <1>3 DEF Accounted

\* CursorClaim in these terms.
Claimed ==
    \A t \in Txs :
        Between(t, StartHeight, cursor) /\ Accounted(claim.known, t)
            => height[t] \in claim.passed \/ burns[t] # "absent"

LEMMA ClaimIs == TypeOK => (CursorClaim <=> Claimed)
  <1> SUFFICES ASSUME TypeOK PROVE CursorClaim <=> Claimed
    OBVIOUS
  <1>1. claim.known \in SUBSET Contracts
    BY DEF TypeOK
  <1>2. Scope(claim.known, StartHeight, cursor) \subseteq Txs
    BY DEF Scope, ContractTxs, CreatorTxs
  <1>. QED
    BY <1>1, <1>2, ScopeIs DEF CursorClaim, Claimed

LEMMA ClaimInit == Init => CursorClaim
  <1> SUFFICES ASSUME Init PROVE CursorClaim
    OBVIOUS
  <1>1. TypeOK /\ cursor = 0
    BY TypeInit DEF Init
  <1>2. \A t \in Txs : ~Between(t, StartHeight, cursor)
    BY <1>1, StartHeightAssumption DEF Between, TypeOK, ChainTypeOK
  <1>. QED
    BY <1>1, <1>2, ClaimIs DEF Claimed

LEMMA ClaimNext == IInv /\ CursorClaim /\ [Next]_vars => CursorClaim'
  <1> SUFFICES ASSUME IInv, CursorClaim, [Next]_vars PROVE CursorClaim'
    OBVIOUS
  <1>0. TypeOK /\ ScanInv /\ TypeOK'
    BY TypeNext DEF IInv
  <1>t. /\ height \in [Txs -> Nat] /\ tip \in Nat /\ cursor \in Nat
        /\ maxHeight \in Nat /\ lastHeight \in Nat /\ tipAtRead \in Nat
        /\ StartHeight \in Nat
        /\ claim \in [known : SUBSET Contracts, passed : SUBSET Nat]
    BY <1>0, StartHeightAssumption DEF TypeOK, ChainTypeOK
  <1> DEFINE Below(t) == Between(t, StartHeight, cursor)
             Holds(t) == height[t] \in claim.passed \/ burns[t] # "absent"
  <1>a. \A t \in Txs : Below(t) /\ Accounted(claim.known, t) => Holds(t)
    BY <1>0, ClaimIs DEF Claimed
  <1>b. SUFFICES ASSUME NEW t \in Txs, Below(t)', Accounted(claim'.known, t)
                 PROVE  Holds(t)'
    <2>1. (TypeOK => (CursorClaim <=> Claimed))'
      BY ClaimIs, PTL
    <2>. QED
      BY <1>0, <2>1 DEF Claimed, Accounted, Paying
  <1>c. StartHeight < height'[t] /\ height'[t] <= cursor'
    BY <1>b DEF Between
  \* Nothing the claim is about changes, except that rows are added.
  <1>1. ASSUME height' = height, cursor' = cursor, claim' = claim,
               burns[t] # "absent" => burns'[t] # "absent"
        PROVE  Holds(t)'
    BY <1>1, <1>a, <1>b DEF Between
  <1>2. CASE Grow
    <2>1. height'[t] = height[t] \/ height'[t] = tip + 1
      BY <1>0, <1>2, GrowFacts
    <2>2. cursor' = cursor /\ claim' = claim /\ burns' = burns
      BY <1>2 DEF Grow, tables
    <2>3. height'[t] = height[t]
      BY <1>0, <1>c, <1>t, <2>1, <2>2 DEF ScanInv
    <2>. QED
      BY <1>a, <1>b, <2>2, <2>3 DEF Between
  <1>3. CASE BootPlain
    BY <1>1, <1>3 DEF BootPlain, Boot, chainVars
  <1>4. CASE BootReindex \/ BootResetDB
    BY <1>4, <1>0, <1>c, <1>t DEF BootReindex, BootResetDB, Boot, TypeOK, ChainTypeOK
  <1>5. CASE Start
    <2>1. cursor' = cursor \/ cursor' = StartHeight
      BY <1>5 DEF Start
    <2>2. cursor' # StartHeight
      BY <1>0, <1>c, <1>t DEF TypeOK, ChainTypeOK
    <2>. QED
      BY <1>1, <1>5, <2>1, <2>2 DEF Start, chainVars
  <1>6. ASSUME NEW u \in Txs, Insert(u)
        PROVE  Holds(t)'
    <2>1. burns[t] # "absent" => burns'[t] # "absent"
      BY <1>0, <1>6 DEF Insert, TypeOK
    <2>. QED
      BY <1>1, <1>6, <2>1 DEF Insert, chainVars
  <1>7. CASE Advance
    <2>1. /\ height' = height /\ burns' = burns /\ cursor' = maxHeight
          /\ maxHeight > lastHeight /\ lastHeight = cursor /\ MoveCursor
          /\ knownAtRead \in SUBSET Contracts
      BY <1>0, <1>7 DEF Advance, Finish, MoveCursor, ScanInv, TypeOK, chainVars
    <2>2. claim'.known # {}
      BY <1>0, <1>b, AccountedMonotone DEF TypeOK
    <2>3. /\ ~short
          /\ claim'.known \subseteq claim.known /\ claim'.known \subseteq knownAtRead
          /\ claim'.passed = claim.passed \cup (tipAtRead + 1 .. maxHeight)
      BY <2>1, <2>2 DEF MoveCursor
    <2>4. Accounted(claim.known, t) /\ Accounted(knownAtRead, t)
      BY <1>b, <1>t, <2>1, <2>3, AccountedMonotone
    <2>5. CASE height[t] <= cursor
      BY <1>a, <1>c, <2>1, <2>3, <2>4, <2>5 DEF Between
    <2>6. CASE height[t] > lastHeight /\ height[t] <= tipAtRead
      <3>1. InScope(t)
        BY <2>1, <2>4, <2>6, ScopeIs DEF InScope, Between
      <3>. QED
        BY <1>7, <2>1, <2>3, <3>1, AdvanceOwesNothing
    <2>7. CASE height[t] > tipAtRead
      BY <1>c, <1>t, <2>1, <2>3, <2>7
    <2>. QED
      BY <1>t, <2>1, <2>5, <2>6, <2>7
  <1>8. CASE Stay \/ AdvanceFails
    BY <1>1, <1>8 DEF Stay, AdvanceFails, Finish, chainVars
  <1>9. ASSUME NEW c \in Contracts, Discover(c) \/ QueryContract(c)
        PROVE  Holds(t)'
    BY <1>1, <1>9 DEF Discover, QueryContract, chainVars, tables
  <1>10. ASSUME NEW s \in Accounts, QuerySender(s)
         PROVE  Holds(t)'
    BY <1>1, <1>10 DEF QuerySender, chainVars, tables
  <1>11. ASSUME NEW u \in Txs, InsertFails(u)
         PROVE  Holds(t)'
    BY <1>1, <1>11 DEF InsertFails, chainVars, tables
  <1>12. UNCHANGED vars \/ ReadCursor \/ SnapshotCodes \/ SnapshotCreators
           \/ SnapshotAdmins \/ StartInserts \/ ReadCursorFails \/ Crash
           => UNCHANGED <<height, cursor, claim, burns>>
    BY DEF vars, ReadCursor, SnapshotCodes, SnapshotCreators, SnapshotAdmins,
           StartInserts, ReadCursorFails, Crash, chainVars, tables
  <1> HIDE DEF Holds
  <1>. QED
    BY <1>1, <1>2, <1>3, <1>4, <1>5, <1>6, <1>7, <1>8, <1>9, <1>10, <1>11, <1>12
    DEF Next, Work, Faults

\* Below the cursor, from the start height on, nothing is missing that belongs to
\* contracts every cycle began with, if their answers were complete, except in blocks
\* that a cycle passed although they came after it began.
THEOREM CursorClaimHolds == Spec => []CursorClaim
  BY ClaimInit, ClaimNext, CycleInvariant, PTL DEF Spec

----------------------------------------------------------------------------------
(* Refinement. *)

LEMMA LedgerStep == IInv /\ [Next]_vars => [L!Next]_(L!ledgerVars)
  <1> SUFFICES ASSUME IInv, [Next]_vars PROVE L!Next \/ UNCHANGED L!ledgerVars
    BY DEF L!ledgerVars
  <1> USE DEF L!ledgerVars, L!chainVars, L!Next, chainVars, tables
  <1>0. TypeOK /\ ScanInv /\ InsertInv
    BY DEF IInv
  <1>1. CASE Grow
    BY <1>1 DEF Grow, L!Grow, NewBlock, L!NewBlock
  <1>2. CASE BootPlain
    BY <1>2 DEF BootPlain, Boot
  <1>3. CASE BootReindex \/ BootResetDB
    BY <1>3 DEF BootReindex, BootResetDB, Boot, L!Restart, L!Empty
  <1>4. CASE Start
    BY <1>4 DEF Start, L!Advance
  <1>5. ASSUME NEW t \in Txs, Insert(t)
        PROVE  L!Next \/ UNCHANGED L!ledgerVars
    <2>1. CASE burns[t] = "absent"
      <3>1. Paying(t) /\ height[t] \in 1 .. tip
        BY <1>0, <1>5 DEF Insert, InsertInv, ScanInv, TypeOK
      <3>2. L!Record(t)
        BY <1>5, <2>1, <3>1 DEF Insert, L!Record, Paying, L!Paying
      <3>. QED
        BY <3>2
    <2>2. CASE burns[t] # "absent"
      BY <1>5, <2>2 DEF Insert
    <2>. QED
      BY <2>1, <2>2
  <1>6. CASE Advance
    <2>1. cursor' \in cursor + 1 .. tip
      BY <1>0, <1>6 DEF Advance, MoveCursor, Finish, ScanInv, TypeOK, ChainTypeOK
    <2>. QED
      BY <1>6, <2>1 DEF Advance, Finish, L!Advance
  <1>7. CASE Stay \/ AdvanceFails
    BY <1>7 DEF Stay, AdvanceFails, Finish
  <1>8. UNCHANGED vars \/ (\E c \in Contracts : Discover(c)) \/ ReadCursor
          \/ (\E c \in Contracts : QueryContract(c)) \/ SnapshotCodes
          \/ SnapshotCreators \/ SnapshotAdmins \/ (\E s \in Accounts : QuerySender(s))
          \/ StartInserts \/ ReadCursorFails \/ (\E t \in Txs : InsertFails(t)) \/ Crash
          => UNCHANGED L!ledgerVars
    BY DEF vars, Discover, ReadCursor, QueryContract, SnapshotCodes, SnapshotCreators,
           SnapshotAdmins, QuerySender, StartInserts, ReadCursorFails, InsertFails,
           Crash
  <1>. QED
    BY <1>1, <1>2, <1>3, <1>4, <1>5, <1>6, <1>7, <1>8 DEF Next, Work, Faults

\* Whatever the processor does, its tables change as Ledger promises: rows are
\* for paying transactions of the chain, are never rewritten, and the cursor
\* only moves up between two explicit resets.
THEOREM LedgerRefinement == Spec => ImplementsLedger
  <1>1. Init => L!Init
    BY DEF Init, L!Init, L!Empty, ChainInit, L!ChainInit
  <1>. QED
    BY <1>1, LedgerStep, CycleInvariant, PTL DEF Spec, L!Spec, ImplementsLedger

----------------------------------------------------------------------------------
(* The processor with a backfill beside it. *)

\* What Backfill assumes of its constants.
LEMMA BackfillConstants ==
    /\ B!Ops = Ops
    /\ StartHeight \in Nat
    /\ SkipCodes \subseteq Codes
    /\ 200 \in Nat \ {0}
    /\ MaxDBFaults \in Nat
  BY StartHeightAssumption, SkipCodesAssumption, BoundsAssumption DEF B!Ops, Ops

\* All the processor sees of the backfill is rows that appear.
LEMMA BackfillOnlyAddsRows ==
    ASSUME TypeOK, BackfillRun
    PROVE  /\ UNCHANGED <<chainVars, cursor, serviceVars>>
           /\ burns' \in [Txs -> Rows]
           /\ \A t \in Txs : burns[t] # "absent" => burns'[t] # "absent"
  <1>0. UNCHANGED serviceVars /\ B!Run /\ burns \in [Txs -> Rows]
    BY DEF BackfillRun, TypeOK
  <1>1. ASSUME NEW t \in Txs, B!Insert(t)
        PROVE  /\ UNCHANGED <<chainVars, cursor>>
               /\ burns' \in [Txs -> Rows]
               /\ \A u \in Txs : burns[u] # "absent" => burns'[u] # "absent"
    BY <1>0, <1>1 DEF B!Insert, B!chainVars, chainVars
  <1>2. CASE UNCHANGED <<B!chainVars, B!tables>>
    BY <1>0, <1>2 DEF B!chainVars, B!tables, chainVars
  <1>3. (\E t \in Txs : B!Insert(t)) \/ UNCHANGED <<B!chainVars, B!tables>>
    BY <1>0 DEF B!Run, B!Begin, B!QueryContract, B!InsertFails, B!Flushed,
           B!SnapshotCodes, B!SnapshotCreators, B!SnapshotAdmins, B!QuerySender,
           B!FinalFlush, B!Done, B!Fail, B!Discover
  <1>. QED
    BY <1>0, <1>1, <1>2, <1>3

\* More rows only help: what a cycle owes, and what the cursor claims, it still does.
LEMMA MoreRows ==
    ASSUME IInv, CursorClaim, UNCHANGED <<chainVars, cursor, serviceVars>>,
           burns' \in [Txs -> Rows],
           \A t \in Txs : burns[t] # "absent" => burns'[t] # "absent"
    PROVE  IInv' /\ CursorClaim'
  <1> USE DEF serviceVars, chainVars, locals, history, counts
  <1>1. TypeOK /\ TypeOK'
    BY DEF IInv, TypeOK, ChainTypeOK
  <1>2. ScanInv'
    BY DEF IInv, ScanInv, NoCycle
  <1>3. ContractsInv' /\ SendersInv'
    BY DEF IInv, ContractsInv, SendersInv, ContractTxs, CreatorTxs, Between,
           KnownCodeIDs, Creators
  <1>4. InsertInv'
    BY DEF IInv, TypeOK, InsertInv
  <1>5. Claimed'
    <2>1. Claimed
      BY <1>1, ClaimIs
    <2>. QED
      BY <2>1 DEF Claimed, Between, Accounted, Paying
  <1>6. (TypeOK => (CursorClaim <=> Claimed))'
    BY ClaimIs, PTL
  <1>. QED
    BY <1>1, <1>2, <1>3, <1>4, <1>5, <1>6 DEF IInv

LEMMA JointStep == IInv /\ CursorClaim /\ [JointNext]_<<vars, backfillVars>>
                     => IInv' /\ CursorClaim'
  <1> SUFFICES ASSUME IInv, CursorClaim, [JointNext]_<<vars, backfillVars>>
               PROVE  IInv' /\ CursorClaim'
    OBVIOUS
  <1>1. CASE Service \/ UNCHANGED <<vars, backfillVars>>
    <2>1. [Next]_vars
      BY <1>1 DEF Service, Next
    <2>. QED
      BY <2>1, IInvNext, ClaimNext
  <1>2. CASE BackfillRun
    <2>1. TypeOK
      BY DEF IInv
    <2>. QED
      BY <1>2, <2>1, BackfillOnlyAddsRows, MoreRows
  <1>. QED
    BY <1>1, <1>2 DEF JointNext

\* A backfill that inserts into the same table, at any time, takes nothing away from
\* the processor: cycles keep what they owe and the cursor what it claims.
THEOREM JointInvariant == JointSpec => [](IInv /\ CursorClaim)
  <1>1. JointInit => IInv /\ CursorClaim
    BY IInvInit, ClaimInit DEF JointInit
  <1>. QED
    BY <1>1, JointStep, PTL DEF JointSpec

\* Nor does it make the processor move its cursor past something it saw or could
\* have seen and has not stored.
THEOREM JointCursor == JointSpec => StoredBeforeAdvance /\ NoLossBelowTipAtRead
  <1>1. IInv => [Advance => \A t \in seen : Paying(t) => burns[t] # "absent"]_vars
    BY AdvanceHasStored
  <1>2. IInv => [Advance /\ ~short =>
                   \A t \in Txs : InScope(t) => burns[t] # "absent"]_vars
    BY AdvanceOwesNothing
  <1>. QED
    BY <1>1, <1>2, JointInvariant, PTL DEF StoredBeforeAdvance, NoLossBelowTipAtRead

\* A step of the service is one that Backfill allows its live service, or nothing to it.
LEMMA ServiceIsLive ==
    ASSUME IInv, Service
    PROVE  B!LiveService \/ UNCHANGED B!vars
  <1> USE DEF B!vars, B!chainVars, B!tables, chainVars, tables
  <1>0. TypeOK /\ ScanInv /\ InsertInv
    BY DEF IInv
  <1>1. UNCHANGED <<bKnown, bPc, B!locals, faults>>
    BY DEF Service, backfillVars, B!locals
  <1>2. ASSUME \/ B!L!Grow \/ \E t \in Txs : B!L!Record(t)
               \/ B!L!Advance \/ (B!L!Restart /\ UNCHANGED burns)
        PROVE  B!LiveService
    BY <1>1, <1>2 DEF B!LiveService
  <1>3. CASE Grow
    <2>1. B!L!Grow
      BY <1>3 DEF Grow, B!L!Grow, NewBlock, B!L!NewBlock
    <2>. QED
      BY <1>2, <2>1
  <1>4. CASE BootReindex
    <2>1. B!L!Restart /\ UNCHANGED burns
      BY <1>4 DEF BootReindex, Boot, B!L!Restart, B!L!chainVars
    <2>. QED
      BY <1>2, <2>1
  <1>5. CASE Start
    <2>1. B!L!Advance \/ UNCHANGED <<chainVars, tables>>
      BY <1>5 DEF Start, B!L!Advance, B!L!chainVars
    <2>. QED
      BY <1>1, <1>2, <2>1
  <1>6. ASSUME NEW t \in Txs, Insert(t)
        PROVE  B!LiveService \/ UNCHANGED B!vars
    <2>1. CASE burns[t] = "absent"
      <3>1. Paying(t) /\ height[t] \in 1 .. tip
        BY <1>0, <1>6 DEF Insert, InsertInv, ScanInv, TypeOK
      <3>2. B!L!Record(t)
        BY <1>6, <2>1, <3>1
        DEF Insert, B!L!Record, B!L!Rows, Paying, B!L!Paying, B!L!chainVars
      <3>. QED
        BY <1>2, <3>2
    <2>2. CASE burns[t] # "absent"
      BY <1>1, <1>6, <2>2 DEF Insert
    <2>. QED
      BY <2>1, <2>2
  <1>7. CASE Advance
    <2>1. cursor' \in cursor + 1 .. tip
      BY <1>0, <1>7 DEF Advance, MoveCursor, Finish, ScanInv, TypeOK, ChainTypeOK
    <2>2. B!L!Advance
      BY <1>7, <2>1 DEF Advance, Finish, B!L!Advance, B!L!chainVars
    <2>. QED
      BY <1>2, <2>2
  <1>8. BootPlain \/ (\E c \in Contracts : Discover(c)) \/ ReadCursor
          \/ (\E c \in Contracts : QueryContract(c)) \/ SnapshotCodes
          \/ SnapshotCreators \/ SnapshotAdmins \/ (\E s \in Accounts : QuerySender(s))
          \/ StartInserts \/ ReadCursorFails \/ (\E t \in Txs : InsertFails(t)) \/ Crash
          \/ Stay \/ AdvanceFails
          => UNCHANGED <<chainVars, tables>>
    BY DEF BootPlain, Boot, Discover, ReadCursor, QueryContract, SnapshotCodes,
           SnapshotCreators, SnapshotAdmins, QuerySender, StartInserts, ReadCursorFails,
           InsertFails, Crash, Stay, AdvanceFails, Finish
  <1>. QED
    BY <1>1, <1>3, <1>4, <1>5, <1>6, <1>7, <1>8 DEF Service, Work, Faults

\* The service is what Backfill takes its environment to be, so that the two together
\* run as Backfill describes.
THEOREM JointImplementsBackfill == JointSpec => B!Spec
  <1>1. JointInit => B!Init
    BY DEF JointInit
  <1>2. IInv /\ [JointNext]_<<vars, backfillVars>> => [B!Next]_(B!vars)
    <2> SUFFICES ASSUME IInv, [JointNext]_<<vars, backfillVars>>
                 PROVE  B!Next \/ UNCHANGED B!vars
      OBVIOUS
    <2>1. CASE Service
      BY <2>1, ServiceIsLive DEF B!Next
    <2>2. CASE BackfillRun
      BY <2>2 DEF BackfillRun, B!Next
    <2>3. CASE UNCHANGED <<vars, backfillVars>>
      BY <2>3 DEF vars, backfillVars, chainVars, tables, B!vars, B!chainVars, B!tables,
                  B!locals
    <2>. QED
      BY <2>1, <2>2, <2>3 DEF JointNext
  <1>. QED
    BY <1>1, <1>2, JointInvariant, PTL DEF JointSpec, B!Spec

\* A backfill beside the running service leaves no gap, whatever the service does,
\* and however often it is killed and started again.
THEOREM JointNoGapLeft == JointSpec => []B!NoGapLeft
  <1>1. /\ StartHeight \in Nat
        /\ SkipCodes \subseteq Codes
        /\ 200 \in Nat \ {0}
        /\ MaxDBFaults \in Nat
    BY BackfillConstants
  <1>2. TxInfo \in [Txs -> [touches : SUBSET Contracts, signer : Accounts, op : B!Ops,
                           code : Codes, ok : BOOLEAN, fee : Nat]]
    BY BackfillConstants, TxInfoAssumption
  <1>3. B!Spec => []B!NoGapLeft
    BY <1>1, <1>2, MaxHeightAssumption, ContractInfoAssumption, B!NoGapLeftHolds
  <1>. QED
    BY <1>3, JointImplementsBackfill, PTL

\* Both processes together keep what Ledger promises to whoever reads the tables.
THEOREM JointLedger == JointSpec => B!ImplementsLedger
  <1>1. /\ StartHeight \in Nat
        /\ SkipCodes \subseteq Codes
        /\ 200 \in Nat \ {0}
        /\ MaxDBFaults \in Nat
    BY BackfillConstants
  <1>2. TxInfo \in [Txs -> [touches : SUBSET Contracts, signer : Accounts, op : B!Ops,
                           code : Codes, ok : BOOLEAN, fee : Nat]]
    BY BackfillConstants, TxInfoAssumption
  <1>3. B!Spec => B!ImplementsLedger
    BY <1>1, <1>2, MaxHeightAssumption, ContractInfoAssumption, B!LedgerRefinement
  <1>. QED
    BY <1>3, JointImplementsBackfill, PTL
==================================================================================
