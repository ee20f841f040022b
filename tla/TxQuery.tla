---------------------------------- MODULE TxQuery --------------------------------
(***************************************************************************)
(* One call of QueryContractTxs or QueryCreatorTxs (internal/chain/         *)
(* client.go), request by request.                                         *)
(*                                                                         *)
(* A call is a list of parts, asked one after the other: four event         *)
(* prefixes for a contract, six message types for a sender.  Each part is   *)
(* collected page by page.  The node either hands out a key to continue     *)
(* with, or caps the answer and does not: then a full page makes the client *)
(* ask again from the highest block it has parsed.  The chain goes on       *)
(* growing between the requests, and any request may fail.                 *)
(*                                                                         *)
(* Processor takes such a call as one step: QueryCall is what it may rely   *)
(* on, and ImplementsCall that it may.                                     *)
(***************************************************************************)
EXTENDS Chain

CONSTANTS
    Contract,       \* the contract a "contract" call asks about
    Sender,         \* the account a "creator" call asks about
    KnownCodes,     \* the known code ids it is given
    N,              \* the number of parts of a call
    FilteredParts,  \* the parts of a "creator" call whose answer is filtered by code
    Finds,          \* Finds[mode][t]: the parts that find transaction t
    Rank,           \* the order of the transactions within a block
    Limit,          \* the page size
    NoKey           \* the empty pageKey

Modes == {"contract", "creator"}
Parts == 1 .. N

ASSUME PartsAssumption ==
    /\ N \in Nat \ {0} /\ Limit \in Nat \ {0}
    /\ FilteredParts \subseteq Parts
    /\ IsFiniteSet(Txs)
    /\ Rank \in [Txs -> Nat]
    /\ \A t, u \in Txs : Rank[t] = Rank[u] => t = u
    /\ NoKey \notin Txs
    /\ Contract \in Contracts /\ Sender \in Accounts /\ KnownCodes \subseteq Codes

\* Together the parts find what the call is about, and the filtered ones are
\* those of the filtered message types.
ASSUME FindsAssumption ==
    /\ Finds \in [Modes -> [Txs -> SUBSET Parts]]
    /\ \A t \in Txs :
         /\ Finds["contract"][t] # {} <=> Contract \in TxInfo[t].touches
         /\ Finds["creator"][t] # {} <=> /\ TxInfo[t].signer = Sender
                                         /\ TxInfo[t].op # "execute"
         /\ Finds["creator"][t] \subseteq
              IF TxInfo[t].op = "deploy" THEN FilteredParts ELSE Parts \ FilteredParts

VARIABLES
    mode,           \* which of the two functions runs
    capped,         \* the node never returns a nextKey
    afterHeight,    \* the argument of the call
    part,           \* the part under way, N + 1 when the call has returned
    cursor,         \* the height the current query starts above
    pageKey,        \* the key of the next page: the last transaction returned
    txs,            \* what this part has collected so far
    allTxs,         \* what each finished part has added to the answer
    \* history: only properties read these
    tipAtCall,      \* the tip when the call was made
    failed          \* the parts a request of which failed

callVars == <<mode, capped, afterHeight, tipAtCall>>
vars == <<chainVars, callVars, part, cursor, pageKey, txs, allTxs, failed>>

TypeOK ==
    /\ ChainTypeOK
    /\ mode \in Modes /\ capped \in BOOLEAN
    /\ afterHeight \in Nat /\ tipAtCall \in Nat
    /\ part \in 1 .. N + 1
    /\ cursor \in Nat
    /\ pageKey \in Txs \cup {NoKey}
    /\ txs \in SUBSET Txs
    /\ allTxs \in [Parts -> SUBSET Txs]
    /\ failed \in SUBSET Parts

Init ==
    /\ ChainInit
    /\ mode \in Modes /\ capped \in BOOLEAN
    /\ afterHeight \in 0 .. tip
    /\ tipAtCall = tip
    /\ part = 1
    /\ cursor = afterHeight /\ pageKey = NoKey /\ txs = {}
    /\ allTxs = [p \in Parts |-> {}]
    /\ failed = {}

----------------------------------------------------------------------------------
(* The node. *)

\* ORDER_BY_ASC: by block, and by position within the block.
Before(t, u) ==
    \/ height[t] < height[u]
    \/ height[t] = height[u] /\ Rank[t] < Rank[u]

\* The transactions a part's query stands for, failed ones included.
Matches(p) == {t \in Txs : p \in Finds[mode][t] /\ height[t] > 0}

\* What the node has left to return: matches above the cursor, behind the key.
Rest ==
    {t \in Matches(part) :
        height[t] > cursor /\ (pageKey = NoKey \/ Before(pageKey, t))}

\* The next page: the first Limit of them.
IsPage(page) ==
    /\ page \subseteq Rest
    /\ Cardinality(page) <= Limit
    /\ page # Rest => Cardinality(page) = Limit
    /\ \A t \in page : \A u \in Rest \ page : Before(t, u)

----------------------------------------------------------------------------------
(* The client. *)

\* Mutant of Parsed: the code of a transaction is not looked at.
ParsedAll(page) == page

\* extractContractTxs drops the failed ones, QueryCreatorTxs those whose code is
\* not known; an empty set of known codes switches that filter off.
Parsed(page) == {t \in page : TxInfo[t].ok}

Kept(page) ==
    {t \in Parsed(page) :
        \/ mode = "contract" \/ part \notin FilteredParts
        \/ KnownCodes = {} \/ TxInfo[t].code \in KnownCodes}

\* The highest block parsed from a page, 0 if nothing was.
IsMaxHeight(h, page) ==
    /\ h \in {0} \cup {height[t] : t \in Parsed(page)}
    /\ \A t \in Parsed(page) : height[t] <= h

\* Mutants of AskAgain: an off-by-one in the page size; no test for progress.
AskAgainBeyond(page, maxHeight) == Cardinality(page) > Limit /\ maxHeight > cursor
AskAgainAlways(page, maxHeight) == Cardinality(page) >= Limit

\* Without a nextKey a full page is taken for a capped answer.
AskAgain(page, maxHeight) == Cardinality(page) >= Limit /\ maxHeight > cursor

\* Mutant of EndPart: the next part begins where this one ended.
EndPartOnward(found) ==
    /\ allTxs' = [allTxs EXCEPT ![part] = found \ UNION {allTxs[p] : p \in Parts}]
    /\ part' = part + 1
    /\ pageKey' = NoKey
    /\ txs' = {}
    /\ UNCHANGED cursor

\* The part is over; what it found is added unless an earlier part had it.
EndPart(found) ==
    /\ allTxs' = [allTxs EXCEPT ![part] = found \ UNION {allTxs[p] : p \in Parts}]
    /\ part' = part + 1
    /\ cursor' = afterHeight
    /\ pageKey' = NoKey
    /\ txs' = {}

\* The node has more and says so: go on behind the last transaction returned.
NextPage(page) ==
    /\ page # Rest /\ ~capped
    /\ txs' = txs \cup Kept(page)
    /\ pageKey' \in page
    /\ \A t \in page \ {pageKey'} : Before(t, pageKey')
    /\ UNCHANGED <<chainVars, callVars, part, cursor, allTxs, failed>>

FullPage(page, maxHeight) ==
    /\ page = Rest \/ capped
    /\ AskAgain(page, maxHeight)
    /\ txs' = txs \cup Kept(page)
    /\ cursor' = maxHeight
    /\ pageKey' = NoKey
    /\ UNCHANGED <<chainVars, callVars, part, allTxs, failed>>

LastPage(page, maxHeight) ==
    /\ page = Rest \/ capped
    /\ ~AskAgain(page, maxHeight)
    /\ EndPart(txs \cup Kept(page))
    /\ UNCHANGED <<chainVars, callVars, failed>>

\* A request fails: queryByPrefix returns nothing for the whole part, while
\* QueryCreatorTxs keeps the pages it has.  Either way the call goes on.
RequestFails ==
    /\ part <= N
    /\ failed' = failed \cup {part}
    /\ EndPart(IF mode = "contract" THEN {} ELSE txs)
    /\ UNCHANGED <<chainVars, callVars>>

Grow ==
    /\ part <= N
    /\ NewBlock
    /\ UNCHANGED <<callVars, part, cursor, pageKey, txs, allTxs, failed>>

\* Mutant of Receive: the loop over the parts does not end.
ReceivePastEnd ==
    \E page \in SUBSET Rest, maxHeight \in 0 .. tip :
         /\ IsPage(page) /\ IsMaxHeight(maxHeight, page)
         /\ NextPage(page) \/ FullPage(page, maxHeight) \/ LastPage(page, maxHeight)

Receive ==
    /\ part <= N
    /\ \E page \in SUBSET Rest, maxHeight \in 0 .. tip :
         /\ IsPage(page) /\ IsMaxHeight(maxHeight, page)
         /\ NextPage(page) \/ FullPage(page, maxHeight) \/ LastPage(page, maxHeight)

Next == Receive \/ RequestFails \/ Grow

Spec == Init /\ [][Next]_vars

\* Every request is answered sooner or later.
FairSpec == Spec /\ WF_vars(Receive \/ RequestFails)

----------------------------------------------------------------------------------
(* Properties. *)

\* What the call is asked for, up to some tip: Processor's complete answer.
Asked(upto) ==
    IF mode = "contract" THEN ContractTxs(Contract, afterHeight, upto)
    ELSE CreatorTxs(Sender, afterHeight, upto, KnownCodes)

Answer == UNION {allTxs[p] : p \in Parts}

\* Nothing is returned that was not asked for, and nothing twice.
AnswerSound ==
    /\ Answer \cup txs \subseteq Asked(tip)
    /\ \A p, q \in Parts : p # q => allTxs[p] \cap allTxs[q] = {}

\* A block in which the part finds another transaction besides t: a page of a
\* capped node may end between the two.
Crowded(p, t) == \E u \in Matches(p) \ {t} : height[u] = height[t]

\* A full page of transactions that failed on chain lies before t: nothing is
\* parsed from it, so no higher block is known to ask again from.
Barren(p, t) ==
    Limit <= Cardinality({u \in Matches(p) : /\ ~TxInfo[u].ok
                                             /\ height[u] > afterHeight
                                             /\ Before(u, t)})

Lost(p, t) == capped /\ (Crowded(p, t) \/ Barren(p, t))

\* A transaction that was on the chain when the call was made is in the answer,
\* unless each part that finds it failed, or was answered by a capped node in
\* one of these two situations.
AnswerComplete ==
    part = N + 1 =>
        \A t \in Asked(tipAtCall) \ Answer : \A p \in Finds[mode][t] :
            p \in failed \/ Lost(p, t)

\* Why they hold: the part under way has what is asked for, or still has it before
\* it, or has lost it already.
CallInv ==
    /\ \A t \in Txs : height[t] <= tip
    /\ afterHeight <= tipAtCall /\ tipAtCall <= tip
    /\ afterHeight <= cursor
    /\ capped => pageKey = NoKey
    /\ pageKey # NoKey => height[pageKey] > 0
    /\ \A p \in Parts : p >= part => allTxs[p] = {}

FoundInv ==
    \A t \in Asked(tipAtCall), p \in Parts : p \in Finds[mode][t] =>
        /\ p < part => p \in failed \/ t \in Answer \/ Lost(p, t)
        /\ p = part => t \in txs \/ t \in Rest \/ Lost(p, t)

IInv == TypeOK /\ CallInv /\ AnswerSound /\ FoundInv

\* All these requests are one call to whoever made it: a single answer, complete as
\* of the moment the call was made unless a request failed or the node caps.
C == INSTANCE QueryCall WITH
        trouble  <- failed # {},
        returned <- part = N + 1,
        answer   <- IF part = N + 1 THEN Answer ELSE {}

ImplementsCall == C!Spec

\* The next request asks for something later than this one did: for a later part, or
\* from a higher block on, or behind a later transaction of the same query.
Ahead ==
    \/ part' > part
    \/ part' = part /\ cursor' > cursor
    \/ /\ part' = part /\ cursor' = cursor
       /\ pageKey' # NoKey
       /\ pageKey = NoKey \/ Before(pageKey, pageKey')

\* No request is made twice: a call cannot go round in circles on full pages of a
\* capped node, where nothing but "maxHeight > cursor" keeps it from doing so
\* (client.go:200 and 528).
NeverAsksTwice == [][part <= N => Grow \/ Ahead]_vars

\* The call returns: asking again always makes progress.
Terminates == <>(part = N + 1)
==================================================================================
