-------------------------------- MODULE Statistics -------------------------------
(***************************************************************************)
(* The totals of /api/stats and the pages of /api/transactions, while rows   *)
(* are written: schema.go's trigger, db.go's readers, server.go's handlers.  *)
(*                                                                         *)
(* Each INSERT into processed_burns is a transaction of its own.  Its        *)
(* trigger recomputes the only row of stats_cache from all rows it can see.  *)
(* PostgreSQL's part, at its default level READ COMMITTED, is what is needed  *)
(* of it: a command of the trigger sees what was committed when the command   *)
(* began, and its own transaction's row; an UPDATE waits for a transaction    *)
(* that changed the row before it, and then goes on with what it saw; an      *)
(* INSERT waits for a transaction that inserted the same key.                *)
(*                                                                         *)
(* Sums and counts are functions of the rows they are taken over, so a total  *)
(* is that set of rows.                                                     *)
(***************************************************************************)
EXTENDS FiniteSets, Integers

CONSTANTS
    Writers,        \* connections that insert: a service, a backfill
    Txs,            \* the transactions that pay a fee
    TimeOf,         \* the timestamp of each
    PageSize        \* limit of a client of /api/transactions

ASSUME StatisticsAssumption ==
    /\ IsFiniteSet(Txs) /\ TimeOf \in [Txs -> Nat]
    /\ PageSize \in Nat \ {0}

VARIABLES
    \* what is committed
    rows,           \* the transactions that have a row in processed_burns
    priced,         \* those whose row has a price
    totals,         \* the rows that stats_cache sums up
    \* the statements under way
    pc,
    new,            \* the row it inserts, uncommitted; empty if there was one already
    seen,           \* the rows the trigger's UPDATE sees
    lock,           \* the writers that have updated the row of stats_cache
    \* one client at a time: a request for the statistics or a walk along the pages
    client,
    counted,        \* the rows of the answer's totals
    pricedSeen,     \* the rows its PricedTxCount counts
    offset,
    got,            \* the rows of the pages so far
    \* history: only properties read these
    before,         \* the rows when the client began
    missed,         \* someone committed since the writer's trigger looked
    contested       \* rows committed while another trigger had already looked

table     == <<rows, priced, totals>>
statement == <<pc, new, seen, lock, missed>>
reader    == <<client, counted, pricedSeen, offset, got, before>>
vars      == <<table, statement, reader, contested>>

TypeOK ==
    /\ rows \in SUBSET Txs /\ priced \in SUBSET rows /\ totals \in SUBSET rows
    /\ pc \in [Writers -> {"idle", "trigger", "update", "commit"}]
    /\ new \in [Writers -> {{}} \cup {{t} : t \in Txs}]
    /\ seen \in [Writers -> SUBSET Txs]
    /\ lock \in SUBSET Writers
    /\ client \in {"idle", "totals", "stats", "walk", "walked"}
    /\ counted \in SUBSET Txs /\ pricedSeen \in SUBSET Txs
    /\ offset \in Nat
    /\ got \in SUBSET Txs /\ before \in SUBSET Txs
    /\ missed \in [Writers -> BOOLEAN]
    /\ contested \in SUBSET Txs

Init ==
    /\ rows = {} /\ priced = {} /\ totals = {}
    /\ pc = [w \in Writers |-> "idle"]
    /\ new = [w \in Writers |-> {}]
    /\ seen = [w \in Writers |-> {}]
    /\ lock = {}
    /\ client = "idle"
    /\ counted = {} /\ pricedSeen = {}
    /\ offset = 0 /\ got = {}
    /\ before = {}
    /\ missed = [w \in Writers |-> FALSE]
    /\ contested = {}

----------------------------------------------------------------------------------
(* One INSERT. *)

Goto(w, phase) == pc' = [pc EXCEPT ![w] = phase]

\* The statement ends, its locks are free.
End(w) ==
    /\ Goto(w, "idle")
    /\ new' = [new EXCEPT ![w] = {}]
    /\ seen' = [seen EXCEPT ![w] = {}]
    /\ lock' = lock \ {w}

\* Mutant of Insert: without UNIQUE (tx_hash).
InsertAgain(w) ==
    /\ pc[w] = "idle"
    /\ \E t \in Txs : new' = [new EXCEPT ![w] = {t}]
    /\ Goto(w, "trigger")
    /\ UNCHANGED <<table, seen, lock, missed, reader, contested>>

\* The fee of some transaction is to be written: ON CONFLICT (tx_hash) DO NOTHING,
\* once no other transaction is about to commit or to abort the same key.  The
\* trigger is one per statement: it runs for a row that was there already as well.
Insert(w) ==
    /\ pc[w] = "idle"
    /\ \E t \in Txs : /\ \A v \in Writers : t \notin new[v]
                      /\ new' = [new EXCEPT ![w] = {t} \ rows]
    /\ Goto(w, "trigger")
    /\ UNCHANGED <<table, seen, lock, missed, reader, contested>>

\* Mutants of Look: a trigger BEFORE INSERT; one FOR EACH ROW.
LookBefore(w) ==
    /\ pc[w] = "trigger"
    /\ seen' = [seen EXCEPT ![w] = rows]
    /\ missed' = [missed EXCEPT ![w] = FALSE]
    /\ Goto(w, "update")
    /\ UNCHANGED <<table, new, lock, reader, contested>>

LookForEachRow(w) ==
    /\ pc[w] = "trigger"
    /\ seen' = [seen EXCEPT ![w] = IF new[w] = {} THEN totals ELSE rows \cup new[w]]
    /\ missed' = [missed EXCEPT ![w] = FALSE]
    /\ Goto(w, "update")
    /\ UNCHANGED <<table, new, lock, reader, contested>>

\* The trigger's UPDATE begins.
Look(w) ==
    /\ pc[w] = "trigger"
    /\ seen' = [seen EXCEPT ![w] = rows \cup new[w]]
    /\ missed' = [missed EXCEPT ![w] = FALSE]
    /\ Goto(w, "update")
    /\ UNCHANGED <<table, new, lock, reader, contested>>

\* It changes the row of stats_cache, once no other transaction holds it.
Update(w) ==
    /\ pc[w] = "update"
    /\ lock = {}
    /\ lock' = {w}
    /\ Goto(w, "commit")
    /\ UNCHANGED <<table, new, seen, missed, reader, contested>>

\* The row was written with a price or without one.
Commit(w) ==
    /\ pc[w] = "commit"
    /\ rows' = rows \cup new[w]
    /\ priced' \in {priced, priced \cup new[w]}
    /\ totals' = seen[w]
    /\ missed' = [v \in Writers |-> v # w /\ (missed[v] \/ pc[v] \in {"update", "commit"})]
    /\ contested' = IF \E v \in Writers \ {w} : pc[v] \in {"update", "commit"}
                    THEN contested \cup new[w] ELSE contested
    /\ End(w)
    /\ UNCHANGED reader

\* Mutant of Abort: the transaction is left open.
AbortOpen(w) ==
    /\ pc[w] # "idle"
    /\ Goto(w, "idle")
    /\ UNCHANGED <<table, new, seen, lock, missed, reader, contested>>

\* An error, a lost connection, the end of the process.
Abort(w) ==
    /\ pc[w] # "idle"
    /\ End(w)
    /\ UNCHANGED <<table, missed, reader, contested>>

----------------------------------------------------------------------------------
(* handleStats: GetStats reads twice, each time what is committed by then. *)

ReadTotals ==
    /\ client = "idle"
    /\ counted' = totals
    /\ before' = rows
    /\ client' = "totals"
    /\ UNCHANGED <<table, statement, pricedSeen, offset, got, contested>>

ReadPriced ==
    /\ client = "totals"
    /\ pricedSeen' = priced
    /\ client' = "stats"
    /\ UNCHANGED <<table, statement, counted, offset, got, before, contested>>

\* An error of the second query is dropped: the answer says that no row is priced.
ReadPricedFails ==
    /\ client = "totals"
    /\ client' = "stats"
    /\ UNCHANGED <<table, statement, counted, pricedSeen, offset, got, before,
                   contested>>

(* handleTransactions, asked page after page by a client that goes on while *)
(* pages are full.                                                         *)

BeginWalk ==
    /\ client = "idle"
    /\ before' = rows
    /\ client' = "walk"
    /\ UNCHANGED <<table, statement, counted, pricedSeen, offset, got, contested>>

\* Mutant of Newest: without ORDER BY.
AnyOf(S, n) ==
    {N \in SUBSET S : Cardinality(N) = IF n < Cardinality(S) THEN n ELSE Cardinality(S)}

\* What the first n rows of S may be, ORDER BY timestamp DESC; rows of the same
\* timestamp come in any order.
Newest(S, n) ==
    {N \in SUBSET S :
        /\ Cardinality(N) = IF n < Cardinality(S) THEN n ELSE Cardinality(S)
        /\ \A x \in N, y \in S \ N : TimeOf[x] >= TimeOf[y]}

\* GetRecentBurns takes the rows from offset on; the total that it counts before is
\* only reported.
ReadPage ==
    /\ client = "walk"
    /\ \E upTo \in Newest(rows, offset + PageSize) :
       \E passed \in Newest(upTo, offset) :
         /\ got' = got \cup (upTo \ passed)
         /\ client' = IF Cardinality(upTo \ passed) = PageSize THEN "walk" ELSE "walked"
    /\ offset' = offset + PageSize
    /\ UNCHANGED <<table, statement, counted, pricedSeen, before, contested>>

\* The answer is sent; the client may ask anew.
Answered ==
    /\ client \in {"stats", "walked"}
    /\ client' = "idle"
    /\ counted' = {} /\ pricedSeen' = {} /\ before' = {}
    /\ offset' = 0 /\ got' = {}
    /\ UNCHANGED <<table, statement, contested>>

----------------------------------------------------------------------------------

Write(w) == Insert(w) \/ Look(w) \/ Update(w) \/ Commit(w) \/ Abort(w)

Read == \/ ReadTotals \/ ReadPriced \/ ReadPricedFails
        \/ BeginWalk \/ ReadPage
        \/ Answered

Next == Read \/ \E w \in Writers : Write(w)

Spec == Init /\ [][Next]_vars

\* PostgreSQL goes on with a statement, and lets those who wait for a row or a key
\* have it in their turn.
FairSpec ==
    /\ Spec
    /\ \A w \in Writers : /\ WF_vars(Look(w) \/ Commit(w))
                          /\ SF_vars(Update(w))

----------------------------------------------------------------------------------
(* Properties. *)

\* The totals change as Totals promises.
T == INSTANCE Totals WITH rows <- rows, totals <- totals
ImplementsTotals == T!Spec

\* What the totals lack are rows whose commit fell between the look and the commit
\* of another INSERT, never a row of a single writer.
LackOnlyContested == rows \ totals \subseteq contested

\* "the current aggregate statistics" (db.go, comment on GetStats): with no INSERT
\* under way, they are the totals of all rows.
StatisticsCurrent == (\A w \in Writers : pc[w] = "idle") => totals = rows

\* An INSERT during which nobody else committed makes the totals exact again, also
\* if its own row was there already.
LoneInsertRepairs ==
    [][\A w \in Writers : Commit(w) /\ ~missed[w] => totals' = rows']_vars

\* /api/stats is not ahead of itself but by what was committed between its two
\* reads, or lost to a concurrent INSERT: PricedTxCount is else at most
\* TransactionCount.
PricedWithinCounted ==
    client = "stats" => pricedSeen \ counted \subseteq contested \cup (rows \ before)

\* The timestamp of t is no other's.
Alone(t) == \A u \in Txs \ {t} : TimeOf[u] # TimeOf[t]

\* A walk along the pages of a list that grows under it passes over no row that
\* was there when it began, but for rows of the same timestamp.
NoRowSkipped == client = "walked" => \A t \in before : Alone(t) => t \in got

\* Why they hold.
StatementInv ==
    /\ \A w \in Writers :
        /\ pc[w] = "idle" => new[w] = {}
        /\ new[w] \cap rows = {}
        /\ pc[w] \in {"update", "commit"} =>
              /\ new[w] \subseteq seen[w] /\ seen[w] \subseteq rows \cup new[w]
              /\ rows \ seen[w] \subseteq contested
              /\ ~missed[w] => rows \subseteq seen[w]
        /\ w \in lock <=> pc[w] = "commit"
        /\ \A v \in Writers \ {w} : new[v] \cap new[w] = {} /\ ~(w \in lock /\ v \in lock)
    /\ LackOnlyContested

\* A row that was there and is not got yet stands behind offset, whatever was
\* inserted before it.
ReaderInv ==
    /\ before \subseteq rows /\ pricedSeen \subseteq rows
    /\ client \in {"totals", "stats"} => before \ counted \subseteq contested
    /\ client \in {"idle", "totals", "stats"} => offset = 0
    /\ client = "walk" =>
         \A t \in before : Alone(t) /\ t \notin got =>
             Cardinality({u \in rows : TimeOf[u] > TimeOf[t]}) >= offset
    /\ NoRowSkipped

IInv == TypeOK /\ StatementInv /\ ReaderInv

\* No writer waits for ever, for the row of stats_cache.
StatementsEnd == \A w \in Writers : pc[w] # "idle" ~> pc[w] = "idle"
==================================================================================
