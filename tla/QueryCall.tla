--------------------------------- MODULE QueryCall --------------------------------
(***************************************************************************)
(* One call of QueryContractTxs or QueryCreatorTxs as its callers take it:   *)
(* a single answer, after any number of blocks.  What the chain had when the *)
(* call was made is in it; what has come since may be.  Only a call in which *)
(* a request failed, or whose node caps its answers, may come back short,    *)
(* and it says neither.                                                     *)
(***************************************************************************)
EXTENDS Chain

CONSTANTS
    Contract,       \* the contract a "contract" call asks about
    Sender,         \* the account a "creator" call asks about
    KnownCodes      \* the known code ids it is given

VARIABLES
    mode,           \* which of the two functions is called
    capped,         \* the node caps its answers
    afterHeight,    \* the argument of the call
    tipAtCall,      \* the tip when the call is made
    trouble,        \* a request has failed
    returned, answer

request  == <<mode, capped, afterHeight, tipAtCall>>
callVars == <<chainVars, request, trouble, returned, answer>>

\* What the call is asked for, up to some tip.
Asked(upto) ==
    IF mode = "contract" THEN ContractTxs(Contract, afterHeight, upto)
    ELSE CreatorTxs(Sender, afterHeight, upto, KnownCodes)

Init ==
    /\ ChainInit
    /\ mode \in {"contract", "creator"} /\ capped \in BOOLEAN
    /\ afterHeight \in 0 .. tip
    /\ tipAtCall = tip
    /\ trouble = FALSE /\ returned = FALSE /\ answer = {}

Grow ==
    /\ ~returned
    /\ NewBlock
    /\ UNCHANGED <<request, trouble, returned, answer>>

Trouble ==
    /\ ~returned
    /\ trouble' = TRUE
    /\ UNCHANGED <<chainVars, request, returned, answer>>

Return ==
    /\ ~returned
    /\ returned' = TRUE
    /\ trouble' \in {trouble, TRUE}
    /\ answer' \in SUBSET Asked(tip)
    /\ Asked(tipAtCall) \subseteq answer' \/ trouble' \/ capped
    /\ UNCHANGED <<chainVars, request>>

Next == Grow \/ Trouble \/ Return

Spec == Init /\ [][Next]_callVars
==================================================================================
