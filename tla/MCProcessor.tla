------------------------------- MODULE MCProcessor -------------------------------
(* Small instances of Processor for TLC. *)
EXTENDS Processor, TLC

CONSTANTS t1, t2, t3, c1, c2, a1, a2, k1, k2

Execute(touched, who, paid) ==
    [touches |-> touched, signer |-> who, op |-> "execute", code |-> k1,
     ok |-> TRUE, fee |-> paid]

Upload(who) ==
    [touches |-> {}, signer |-> who, op |-> "upload", code |-> k1,
     ok |-> TRUE, fee |-> 1]

Deploy(who, k) ==
    [touches |-> {}, signer |-> who, op |-> "deploy", code |-> k,
     ok |-> TRUE, fee |-> 1]

\* a1 created c1, a2 administers it and created c2.
MCContractInfo ==
    c1 :> [code |-> k1, creator |-> a1, admin |-> a2] @@
    c2 :> [code |-> k2, creator |-> a2, admin |-> NoAdmin]

\* One execution, one deployment that only the sender query finds, and one
\* transaction that paid nothing but moves the cursor.
MCTxInfo ==
    t1 :> Execute({c1}, a2, 1) @@ t2 :> Deploy(a1, k2) @@ t3 :> Execute({c1, c2}, a1, 0)

\* Three transactions that one contract and two senders account for.
MCRaceTxInfo ==
    t1 :> Execute({c1}, a1, 1) @@ t2 :> Execute({c2}, a1, 1) @@ t3 :> Upload(a2)
==================================================================================
