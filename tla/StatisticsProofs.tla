----------------------------- MODULE StatisticsProofs ----------------------------
(***************************************************************************)
(* Machine-checked proofs about Statistics: what the totals may lack, how an *)
(* INSERT repairs them, that they change as Totals promises, what /api/stats *)
(* may say of them, and that a walk along the pages skips nothing, for any   *)
(* number of writers, rows and rows on a page.                              *)
(***************************************************************************)
EXTENDS Statistics, FiniteSetTheorems, TLAPS

----------------------------------------------------------------------------------
(* Type correctness. *)

LEMMA TypeInit == Init => TypeOK
  BY DEF Init, TypeOK

LEMMA TypeEnd ==
    ASSUME TypeOK, NEW w \in Writers, End(w)
    PROVE  /\ pc' \in [Writers -> {"idle", "trigger", "update", "commit"}]
           /\ new' \in [Writers -> {{}} \cup {{t} : t \in Txs}]
           /\ seen' \in [Writers -> SUBSET Txs]
           /\ lock' \in SUBSET Writers
  BY DEF TypeOK, End, Goto

\* What an INSERT adds is nothing or one row of Txs.
LEMMA NewIsRow ==
    ASSUME TypeOK, NEW w \in Writers
    PROVE  new[w] \subseteq Txs /\ (new[w] = {} \/ \E t \in Txs : new[w] = {t})
  BY DEF TypeOK

\* The seen rows that are committed are rows by then, which takes StatementInv.
LEMMA TypeStep == TypeOK /\ StatementInv /\ [Next]_vars => TypeOK'
  <1> SUFFICES ASSUME TypeOK, StatementInv, [Next]_vars PROVE TypeOK'
    OBVIOUS
  <1>1. CASE Read
    <2>1. CASE ReadTotals
      BY <2>1 DEF ReadTotals, TypeOK, table, statement
    <2>2. CASE ReadPriced \/ ReadPricedFails \/ BeginWalk
      BY <2>2 DEF ReadPriced, ReadPricedFails, BeginWalk, TypeOK, table, statement
    <2>3. CASE ReadPage
      <3>1. PICK upTo \in Newest(rows, offset + PageSize) :
              \E passed \in Newest(upTo, offset) :
                /\ got' = got \cup (upTo \ passed)
                /\ client' = IF Cardinality(upTo \ passed) = PageSize
                             THEN "walk" ELSE "walked"
        BY <2>3 DEF ReadPage
      <3>2. PICK passed \in Newest(upTo, offset) :
              /\ got' = got \cup (upTo \ passed)
              /\ client' = IF Cardinality(upTo \ passed) = PageSize
                           THEN "walk" ELSE "walked"
        BY <3>1
      <3>3. upTo \subseteq rows /\ rows \subseteq Txs
        BY DEF Newest, TypeOK
      <3>4. offset' \in Nat
        BY <2>3, StatisticsAssumption DEF ReadPage, TypeOK
      <3>. QED
        BY <2>3, <3>2, <3>3, <3>4 DEF ReadPage, TypeOK, table, statement
    <2>4. CASE Answered
      BY <2>4 DEF Answered, TypeOK, table, statement
    <2>. QED
      BY <1>1, <2>1, <2>2, <2>3, <2>4 DEF Read
  <1>2. ASSUME NEW w \in Writers, Write(w)
        PROVE  TypeOK'
    <2>1. CASE Insert(w)
      BY <2>1 DEF Insert, Goto, TypeOK, table, reader
    <2>2. CASE Look(w)
      <3>1. seen' \in [Writers -> SUBSET Txs]
        BY <2>2, NewIsRow DEF Look, TypeOK
      <3>. QED
        BY <2>2, <3>1 DEF Look, Goto, TypeOK, table, reader
    <2>3. CASE Update(w)
      BY <2>3 DEF Update, Goto, TypeOK, table, reader
    <2>4. CASE Commit(w)
      <3>1. new[w] \subseteq Txs /\ seen[w] \subseteq rows \cup new[w]
        BY <2>4, NewIsRow DEF Commit, StatementInv
      <3>2. /\ rows' \in SUBSET Txs /\ priced' \in SUBSET rows'
            /\ totals' \in SUBSET rows' /\ contested' \in SUBSET Txs
        BY <2>4, <3>1 DEF Commit, TypeOK
      <3>3. missed' \in [Writers -> BOOLEAN]
        BY <2>4 DEF Commit
      <3>4. End(w) /\ UNCHANGED reader
        BY <2>4 DEF Commit
      <3>. QED
        BY <3>2, <3>3, <3>4, TypeEnd DEF TypeOK, reader
    <2>5. CASE Abort(w)
      BY <2>5, TypeEnd DEF Abort, TypeOK, table, reader
    <2>. QED
      BY <1>2, <2>1, <2>2, <2>3, <2>4, <2>5 DEF Write
  <1>3. CASE UNCHANGED vars
    BY <1>3 DEF TypeOK, vars, table, statement, reader
  <1>. QED
    BY <1>1, <1>2, <1>3 DEF Next

----------------------------------------------------------------------------------
(* The writers. *)

LEMMA StatementInit == Init => StatementInv
  BY DEF Init, StatementInv, LackOnlyContested

\* A statement that ends without a commit leaves the others alone.
LEMMA StatementAbort ==
    ASSUME TypeOK, StatementInv, NEW w \in Writers, Abort(w)
    PROVE  StatementInv'
  BY DEF Abort, End, Goto, TypeOK, StatementInv, LackOnlyContested, table

LEMMA StatementInsert ==
    ASSUME TypeOK, StatementInv, NEW w \in Writers, Insert(w)
    PROVE  StatementInv'
  <1>1. PICK t \in Txs : /\ \A v \in Writers : t \notin new[v]
                         /\ new' = [new EXCEPT ![w] = {t} \ rows]
    BY DEF Insert
  <1>2. /\ \A v \in Writers : v # w => new'[v] = new[v] /\ pc'[v] = pc[v]
        /\ new'[w] = {t} \ rows /\ pc[w] = "idle" /\ pc'[w] = "trigger"
        /\ UNCHANGED <<rows, totals, seen, lock, missed, contested>>
    BY <1>1 DEF Insert, Goto, TypeOK, table
  <1>3. ASSUME NEW v \in Writers, NEW u \in Writers \ {v}
        PROVE  new'[v] \cap new'[u] = {}
    BY <1>1, <1>2 DEF StatementInv
  <1>. QED
    BY <1>2, <1>3 DEF StatementInv, LackOnlyContested

LEMMA StatementLook ==
    ASSUME TypeOK, StatementInv, NEW w \in Writers, Look(w)
    PROVE  StatementInv'
  BY DEF Look, Goto, TypeOK, StatementInv, LackOnlyContested, table

LEMMA StatementUpdate ==
    ASSUME TypeOK, StatementInv, NEW w \in Writers, Update(w)
    PROVE  StatementInv'
  BY DEF Update, Goto, TypeOK, StatementInv, LackOnlyContested, table

\* A commit: those who have looked miss its row, which is noted twice.
LEMMA StatementCommit ==
    ASSUME TypeOK, StatementInv, NEW w \in Writers, Commit(w)
    PROVE  StatementInv'
  <1>1. /\ rows' = rows \cup new[w] /\ totals' = seen[w] /\ pc[w] = "commit"
        /\ pc'[w] = "idle" /\ new'[w] = {} /\ lock' = lock \ {w}
        /\ contested \subseteq contested'
        /\ \A v \in Writers : v # w =>
             /\ pc'[v] = pc[v] /\ new'[v] = new[v] /\ seen'[v] = seen[v]
             /\ pc[v] \in {"update", "commit"} => missed'[v] /\ new[w] \subseteq contested'
    BY DEF Commit, End, Goto, TypeOK
  <1>2. LackOnlyContested'
    BY <1>1 DEF StatementInv, LackOnlyContested
  <1>3. ASSUME NEW v \in Writers
        PROVE  /\ pc'[v] = "idle" => new'[v] = {}
               /\ new'[v] \cap rows' = {}
               /\ v \in lock' <=> pc'[v] = "commit"
               /\ \A u \in Writers \ {v} : /\ new'[u] \cap new'[v] = {}
                                           /\ ~(v \in lock' /\ u \in lock')
    BY <1>1 DEF StatementInv
  <1>4. ASSUME NEW v \in Writers, pc'[v] \in {"update", "commit"}
        PROVE  /\ new'[v] \subseteq seen'[v] /\ seen'[v] \subseteq rows' \cup new'[v]
               /\ rows' \ seen'[v] \subseteq contested'
               /\ ~missed'[v] => rows' \subseteq seen'[v]
    BY <1>1, <1>4 DEF StatementInv
  <1>. QED
    BY <1>2, <1>3, <1>4 DEF StatementInv

LEMMA StatementStep == TypeOK /\ StatementInv /\ [Next]_vars => StatementInv'
  <1> SUFFICES ASSUME TypeOK, StatementInv, [Next]_vars PROVE StatementInv'
    OBVIOUS
  <1>1. CASE Read
    BY <1>1 DEF Read, ReadTotals, ReadPriced, ReadPricedFails, BeginWalk, ReadPage,
                Answered, StatementInv, LackOnlyContested, table, statement
  <1>2. ASSUME NEW w \in Writers, Write(w)
        PROVE  StatementInv'
    BY <1>2, StatementInsert, StatementLook, StatementUpdate, StatementCommit,
       StatementAbort DEF Write
  <1>3. CASE UNCHANGED vars
    BY <1>3 DEF vars, table, statement, StatementInv, LackOnlyContested
  <1>. QED
    BY <1>1, <1>2, <1>3 DEF Next

----------------------------------------------------------------------------------
(* The readers. *)

\* The newer rows than that of t.
Newer(t) == {u \in rows : TimeOf[u] > TimeOf[t]}

\* Rows only come, so no row moves towards the head of the list.
LEMMA NewerGrows ==
    ASSUME TypeOK, TypeOK', rows \subseteq rows', NEW t \in Txs
    PROVE  /\ Cardinality(Newer(t)) \in Nat /\ Cardinality(Newer(t)') \in Nat
           /\ Cardinality(Newer(t)) <= Cardinality(Newer(t)')
  <1>1. /\ rows' \in SUBSET Txs
        /\ Newer(t)' = {u \in rows' : TimeOf[u] > TimeOf[t]}
        /\ Newer(t) \in SUBSET Newer(t)'
    BY DEF TypeOK, Newer
  <1>. DEFINE N == Newer(t)'
  <1>2. IsFiniteSet(N)
    BY <1>1, StatisticsAssumption, FS_Subset
  <1>3. Newer(t) \in SUBSET N
    BY <1>1
  <1>. HIDE DEF N
  <1>4. /\ IsFiniteSet(Newer(t)) /\ Cardinality(Newer(t)) <= Cardinality(N)
    BY <1>2, <1>3, FS_Subset
  <1>5. Cardinality(Newer(t)) \in Nat /\ Cardinality(N) \in Nat
    BY <1>2, <1>4, FS_CardinalityType
  <1>. QED
    BY <1>4, <1>5 DEF N

LEMMA NewerFinite ==
    ASSUME TypeOK, NEW t \in Txs
    PROVE  Cardinality(Newer(t)) \in Nat
  <1>1. Newer(t) \in SUBSET Txs
    BY DEF Newer, TypeOK
  <1>. QED
    BY <1>1, StatisticsAssumption, FS_Subset, FS_CardinalityType

\* What a page takes: a row that was not passed and is not taken has as many newer
\* ones as the pages so far had places, and the page is full.
LEMMA PageTakes ==
    ASSUME TypeOK, NEW t \in rows, Alone(t),
           Cardinality(Newer(t)) >= offset,
           NEW upTo \in Newest(rows, offset + PageSize),
           NEW passed \in Newest(upTo, offset),
           t \notin upTo \ passed
    PROVE  /\ Cardinality(Newer(t)) >= offset + PageSize
           /\ Cardinality(upTo \ passed) = PageSize
  <1>1. /\ rows \in SUBSET Txs /\ offset \in Nat /\ PageSize \in Nat \ {0}
        /\ offset + PageSize \in Nat
        /\ \A u \in Txs : TimeOf[u] \in Nat
    BY StatisticsAssumption DEF TypeOK
  <1>2. /\ upTo \in SUBSET rows /\ passed \in SUBSET upTo
        /\ \A x \in upTo, y \in rows \ upTo : TimeOf[x] >= TimeOf[y]
        /\ \A x \in passed, y \in upTo \ passed : TimeOf[x] >= TimeOf[y]
    BY DEF Newest
  <1>3. /\ IsFiniteSet(rows) /\ IsFiniteSet(upTo) /\ IsFiniteSet(passed)
        /\ IsFiniteSet(Newer(t))
    <2>1. Newer(t) \in SUBSET Txs /\ upTo \in SUBSET Txs /\ passed \in SUBSET Txs
      BY <1>1, <1>2 DEF Newer
    <2>. QED
      BY <1>1, <2>1, StatisticsAssumption, FS_Subset
  <1>4. /\ Cardinality(rows) \in Nat /\ Cardinality(upTo) \in Nat
        /\ Cardinality(passed) \in Nat /\ Cardinality(Newer(t)) \in Nat
    BY <1>3, FS_CardinalityType
  <1>5. /\ Cardinality(upTo) = IF offset + PageSize < Cardinality(rows)
                               THEN offset + PageSize ELSE Cardinality(rows)
        /\ Cardinality(passed) = IF offset < Cardinality(upTo)
                                 THEN offset ELSE Cardinality(upTo)
    BY DEF Newest
  <1>6. t \notin passed
    <2>. SUFFICES ASSUME t \in passed PROVE FALSE
      OBVIOUS
    <2>1. Newer(t) \in SUBSET (passed \ {t})
      BY <1>1, <1>2 DEF Newer
    <2>2. /\ IsFiniteSet(passed \ {t})
          /\ Cardinality(passed \ {t}) = Cardinality(passed) - 1
      BY <1>3, FS_RemoveElement
    <2>3. Cardinality(Newer(t)) <= Cardinality(passed \ {t})
      BY <2>1, <2>2, FS_Subset
    <2>. QED
      BY <1>1, <1>4, <1>5, <2>2, <2>3
  <1>7. t \notin upTo
    BY <1>6
  <1>8. Cardinality(upTo) = offset + PageSize
    <2>1. upTo # rows
      BY <1>7
    <2>2. Cardinality(upTo) # Cardinality(rows)
      BY <1>2, <1>3, <2>1, FS_Subset
    <2>. QED
      BY <1>5, <2>2
  <1>9. upTo \in SUBSET Newer(t)
    BY <1>1, <1>2, <1>7 DEF Newer, Alone
  <1>10. Cardinality(upTo) <= Cardinality(Newer(t))
    BY <1>3, <1>9, FS_Subset
  <1>11. Cardinality(passed) = offset /\ upTo \cap passed = passed
    BY <1>1, <1>2, <1>5, <1>8
  <1>12. Cardinality(upTo \ passed) = Cardinality(upTo) - Cardinality(upTo \cap passed)
    BY <1>3, FS_Difference
  <1>13. Cardinality(upTo \ passed) = (offset + PageSize) - offset
    BY <1>8, <1>11, <1>12
  <1>14. Cardinality(upTo \ passed) = PageSize
    BY <1>1, <1>13
  <1>. QED
    BY <1>8, <1>10, <1>14

LEMMA ReaderInit == Init => ReaderInv
  BY DEF Init, ReaderInv, NoRowSkipped

LEMMA ReaderStep == IInv /\ TypeOK' /\ [Next]_vars => ReaderInv'
  <1> SUFFICES ASSUME IInv, TypeOK', [Next]_vars PROVE ReaderInv'
    OBVIOUS
  <1>. USE DEF IInv
  <1>1. CASE ReadTotals
    BY <1>1 DEF ReadTotals, ReaderInv, NoRowSkipped, StatementInv, LackOnlyContested,
                TypeOK, table
  <1>2. CASE ReadPriced \/ ReadPricedFails
    BY <1>2 DEF ReadPriced, ReadPricedFails, ReaderInv, NoRowSkipped, TypeOK, table
  <1>3. CASE BeginWalk
    <2>1. \A t \in Txs : Cardinality(Newer(t)) \in Nat
      BY NewerFinite
    <2>2. /\ offset' = 0 /\ rows' = rows /\ before' = rows /\ client' = "walk"
          /\ UNCHANGED <<pricedSeen, counted, contested, got>>
      BY <1>3 DEF BeginWalk, ReaderInv, table
    <2>3. \A t \in Txs : Cardinality(Newer(t)') >= offset'
      BY <2>1, <2>2 DEF Newer
    <2>. QED
      BY <2>2, <2>3 DEF ReaderInv, NoRowSkipped, TypeOK, Newer
  <1>4. CASE ReadPage
    <2>1. PICK upTo \in Newest(rows, offset + PageSize) :
            \E passed \in Newest(upTo, offset) :
              /\ got' = got \cup (upTo \ passed)
              /\ client' = IF Cardinality(upTo \ passed) = PageSize
                           THEN "walk" ELSE "walked"
      BY <1>4 DEF ReadPage
    <2>2. PICK passed \in Newest(upTo, offset) :
            /\ got' = got \cup (upTo \ passed)
            /\ client' = IF Cardinality(upTo \ passed) = PageSize
                         THEN "walk" ELSE "walked"
      BY <2>1
    <2>3. /\ client = "walk" /\ offset' = offset + PageSize
          /\ UNCHANGED <<rows, before, pricedSeen, counted, contested>>
      BY <1>4 DEF ReadPage, table
    <2>4. ASSUME NEW t \in before, Alone(t), t \notin got'
          PROVE  client' = "walk" /\ Cardinality(Newer(t)) >= offset'
      <3>1. t \in rows /\ t \notin got /\ t \notin upTo \ passed
        BY <2>2, <2>4 DEF ReaderInv
      <3>2. Cardinality(Newer(t)) >= offset
        BY <2>3, <2>4, <3>1 DEF ReaderInv, Newer
      <3>. QED
        BY <2>2, <2>3, <2>4, <3>1, <3>2, PageTakes
    <2>5. client' \in {"walk", "walked"}
      BY <2>2
    <2>6. \A t : Newer(t)' = Newer(t) /\ (Alone(t)' <=> Alone(t))
      BY <2>3 DEF Newer, Alone
    <2>. QED
      BY <2>3, <2>4, <2>5, <2>6 DEF ReaderInv, NoRowSkipped, Newer
  <1>5. CASE Answered
    BY <1>5 DEF Answered, ReaderInv, NoRowSkipped, TypeOK, table
  <1>6. ASSUME NEW w \in Writers, Write(w)
        PROVE  ReaderInv'
    <2>1. /\ rows \subseteq rows' /\ contested \subseteq contested' /\ UNCHANGED reader
      BY <1>6 DEF Write, Insert, Look, Update, Commit, Abort, table
    <2>2. ASSUME NEW t \in before, client = "walk", Alone(t), t \notin got
          PROVE  Cardinality(Newer(t)') >= offset
      <3>1. t \in Txs /\ Cardinality(Newer(t)) >= offset /\ offset \in Nat
        BY <2>2 DEF ReaderInv, TypeOK, Newer
      <3>. QED
        BY <2>1, <3>1, NewerGrows
    <2>. QED
      BY <2>1, <2>2 DEF reader, ReaderInv, NoRowSkipped, Newer, Alone
  <1>7. CASE UNCHANGED vars
    BY <1>7 DEF vars, table, statement, reader, ReaderInv, NoRowSkipped
  <1>. QED
    BY <1>1, <1>2, <1>3, <1>4, <1>5, <1>6, <1>7 DEF Next, Read

----------------------------------------------------------------------------------
(* Theorems. *)

\* What the writers' triggers have seen and what readers still have to get are
\* accounted for at every step.
THEOREM StatisticsInvariant == Spec => []IInv
  <1>1. Init => IInv
    BY TypeInit, StatementInit, ReaderInit DEF IInv
  <1>2. IInv /\ [Next]_vars => IInv'
    BY TypeStep, StatementStep, ReaderStep DEF IInv
  <1>. QED
    BY <1>1, <1>2, PTL DEF Spec

\* Only concurrent writers make the totals lack a row.
THEOREM LackOnlyContestedHolds == Spec => []LackOnlyContested
  <1>1. IInv => LackOnlyContested
    BY DEF IInv, StatementInv
  <1>. QED
    BY <1>1, StatisticsInvariant, PTL

\* /api/stats counts as priced only what it counts at all, but for what changed
\* between its two reads or was lost to a concurrent INSERT.
THEOREM PricedWithinCountedHolds == Spec => []PricedWithinCounted
  <1>1. IInv => PricedWithinCounted
    BY DEF IInv, ReaderInv, PricedWithinCounted
  <1>. QED
    BY <1>1, StatisticsInvariant, PTL

\* A walk along the pages skips no row of its beginning whose timestamp is its own.
THEOREM NoRowSkippedHolds == Spec => []NoRowSkipped
  <1>1. IInv => NoRowSkipped
    BY DEF IInv, ReaderInv
  <1>. QED
    BY <1>1, StatisticsInvariant, PTL

\* An INSERT that nobody else's commit fell into leaves exact totals.
THEOREM LoneInsertRepairsHolds == Spec => LoneInsertRepairs
  <1>1. IInv /\ [Next]_vars
          => [\A w \in Writers : Commit(w) /\ ~missed[w] => totals' = rows']_vars
    <2>. SUFFICES ASSUME IInv, NEW w \in Writers, Commit(w), ~missed[w]
                  PROVE  totals' = rows'
      OBVIOUS
    <2>1. /\ new[w] \subseteq seen[w] /\ seen[w] \subseteq rows \cup new[w]
          /\ rows \subseteq seen[w]
      BY DEF IInv, StatementInv, Commit
    <2>. QED
      BY <2>1 DEF Commit
  <1>. QED
    BY <1>1, StatisticsInvariant, PTL DEF Spec, LoneInsertRepairs

\* The trigger, with any number of writers, keeps what Totals promises readers.
THEOREM TotalsRefinement == Spec => ImplementsTotals
  <1>1. Init => T!Init
    BY DEF Init, T!Init
  <1>2. IInv /\ [Next]_vars => [T!Next]_<<rows, totals>>
    <2>. SUFFICES ASSUME IInv, [Next]_vars
                  PROVE  [T!Next]_<<rows, totals>>
      OBVIOUS
    <2>1. CASE Read
      BY <2>1 DEF Read, ReadTotals, ReadPriced, ReadPricedFails, BeginWalk, ReadPage,
                  Answered, table
    <2>2. ASSUME NEW w \in Writers, Write(w)
          PROVE  [T!Next]_<<rows, totals>>
      <3>1. CASE Commit(w)
        <4>1. /\ rows' = rows \cup new[w] /\ totals' = seen[w]
              /\ new[w] \subseteq seen[w] /\ seen[w] \subseteq rows \cup new[w]
          BY <3>1 DEF Commit, IInv, StatementInv
        <4>2. T!Insert(new[w])
          BY <4>1 DEF T!Insert
        <4>3. new[w] = {} \/ \E t \in Txs : new[w] = {t}
          BY NewIsRow DEF IInv
        <4>. QED
          BY <4>2, <4>3 DEF T!Next
      <3>2. CASE ~Commit(w)
        BY <2>2, <3>2 DEF Write, Insert, Look, Update, Abort, table
      <3>. QED
        BY <3>1, <3>2
    <2>3. CASE UNCHANGED vars
      BY <2>3 DEF vars, table
    <2>. QED
      BY <2>1, <2>2, <2>3 DEF Next
  <1>. QED
    BY <1>1, <1>2, StatisticsInvariant, PTL DEF Spec, ImplementsTotals, T!Spec

==================================================================================
