-------------------------------- MODULE ContractMap ------------------------------
(***************************************************************************)
(* Discovery as those see it that read its map while it works: Processor's   *)
(* and Backfill's Boot and Discover are the steps of this module.  A process  *)
(* starts with whatever its first search made of the table; from then on the  *)
(* map gains contracts one by one and loses none, whatever fails.            *)
(***************************************************************************)
CONSTANTS Contracts

VARIABLES
    running,        \* the map is in use
    known           \* Discovery.contracts

Init == running = FALSE /\ known = {}

Start ==
    /\ ~running
    /\ running' = TRUE
    /\ known' \in SUBSET Contracts

Discover ==
    /\ running /\ running' = TRUE
    /\ \E c \in Contracts : known' = known \cup {c}

Stop ==
    /\ running' = FALSE
    /\ known' = {}

Next == Start \/ Discover \/ Stop

Spec == Init /\ [][Next]_<<running, known>>
==================================================================================
