-------------------------------- MODULE MCTxQuery --------------------------------
(* Small instances of TxQuery for TLC. *)
EXTENDS TxQuery, TLC

CONSTANTS t1, t2, t3, t4, t5, c1, a1, a2, k1, k2

Tx(touched, what, k, good) ==
    [touches |-> touched, signer |-> a1, op |-> what, code |-> k, ok |-> good, fee |-> 1]

\* Four deployments of the contract by its creator, the first two of which
\* failed on chain and the third of which is of an unknown code, and an upload.
MCTxInfo ==
    t1 :> Tx({c1}, "deploy", k1, FALSE) @@ t2 :> Tx({c1}, "deploy", k1, FALSE) @@
    t3 :> Tx({c1}, "deploy", k2, TRUE) @@ t4 :> Tx({c1}, "deploy", k1, TRUE) @@
    t5 :> Tx({}, "upload", k1, TRUE)

MCContractInfo == c1 :> [code |-> k1, creator |-> a1, admin |-> NoAdmin]

MCRank == t1 :> 1 @@ t2 :> 2 @@ t3 :> 3 @@ t4 :> 4 @@ t5 :> 5

\* t3 carries the events of two prefixes, t4 only that of the later one.
MCFinds ==
    [m \in Modes |->
        IF m = "contract"
        THEN t1 :> {1} @@ t2 :> {1} @@ t3 :> {1, 2} @@ t4 :> {2} @@ t5 :> {}
        ELSE t1 :> {2} @@ t2 :> {2} @@ t3 :> {2} @@ t4 :> {2} @@ t5 :> {1}]
==================================================================================
