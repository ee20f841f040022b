-------------------------------- MODULE MCBackfill -------------------------------
(* A small instance of Backfill for TLC. *)
EXTENDS Backfill, TLC

CONSTANTS t1, t2, t3, c1, c2, a1, a2, k1, k2

Tx(touched, who, what, k) ==
    [touches |-> touched, signer |-> who, op |-> what, code |-> k, ok |-> TRUE, fee |-> 1]

\* One transaction of both contracts, one that only its contract accounts for,
\* and one that only the sender query finds.
MCTxInfo ==
    t1 :> Tx({c1, c2}, a2, "execute", k1) @@ t2 :> Tx({c2}, a2, "execute", k2) @@
    t3 :> Tx({}, a1, "deploy", k2)

MCContractInfo ==
    c1 :> [code |-> k1, creator |-> a1, admin |-> a2] @@
    c2 :> [code |-> k2, creator |-> a1, admin |-> NoAdmin]
==================================================================================
