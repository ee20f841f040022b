------------------------------ MODULE TxQueryProofs ------------------------------
(***************************************************************************)
(* What a call of QueryContractTxs or QueryCreatorTxs returns, for every    *)
(* chain, page size and list of parts.  The invariant follows a transaction  *)
(* that is asked for through the part under way: collected, still to come,   *)
(* or lost in one of the ways AnswerComplete names.                         *)
(***************************************************************************)
EXTENDS TxQuery, FiniteSetTheorems, TLAPS

\* What a page adds was asked for.
LEMMA KeptIsAsked ==
    ASSUME TypeOK, CallInv, part \in Parts, NEW page \in SUBSET Rest
    PROVE  Kept(page) \subseteq Asked(tip)
<1> SUFFICES ASSUME NEW t \in Kept(page) PROVE t \in Asked(tip)
  OBVIOUS
<1>1. /\ t \in Txs /\ TxInfo[t].ok /\ part \in Finds[mode][t]
      /\ Between(t, afterHeight, tip)
  BY DEF Kept, Parsed, Rest, Matches, Between, CallInv, TypeOK, ChainTypeOK
<1>2. CASE mode = "contract"
  BY <1>1, <1>2, FindsAssumption DEF Asked, ContractTxs
<1>3. CASE mode = "creator"
  <2>1. /\ TxInfo[t].signer = Sender /\ TxInfo[t].op # "execute"
        /\ Finds["creator"][t] \subseteq
              IF TxInfo[t].op = "deploy" THEN FilteredParts ELSE Parts \ FilteredParts
    BY <1>1, <1>3, FindsAssumption
  <2>2. TxInfo[t].op \in Ops
    BY <1>1, TxInfoAssumption
  <2>3. part \notin FilteredParts \/ KnownCodes = {} \/ TxInfo[t].code \in KnownCodes
    BY <1>3 DEF Kept
  <2>4. TxInfo[t].op = "upload" \/ part \in FilteredParts
    BY <1>1, <1>3, <2>1, <2>2 DEF Ops
  <2>. QED  BY <1>1, <1>3, <2>1, <2>3, <2>4 DEF Asked, CreatorTxs
<1>. QED  BY <1>2, <1>3 DEF TypeOK, Modes

\* What was asked for and came with a page is kept.
LEMMA AskedIsKept ==
    ASSUME TypeOK, NEW page \in SUBSET Rest, NEW t \in page, t \in Asked(tipAtCall)
    PROVE  t \in Kept(page)
<1>1. t \in Txs /\ part \in Finds[mode][t]
  BY DEF Rest, Matches
<1>2. TxInfo[t].ok
  BY DEF Asked, ContractTxs, CreatorTxs
<1>3. ASSUME mode = "creator", part \in FilteredParts
      PROVE  KnownCodes = {} \/ TxInfo[t].code \in KnownCodes
  <2>1. TxInfo[t].op = "deploy"
    BY <1>1, <1>3, FindsAssumption
  <2>. QED  BY <1>3, <2>1 DEF Asked, CreatorTxs
<1>. QED  BY <1>2, <1>3 DEF Kept, Parsed, TypeOK, Modes

\* Asking a capped node again from the highest block parsed passes over what stands
\* behind the page only within that block; to stop, although the page was full and
\* there was more, takes a page of which nothing was parsed.
LEMMA BehindCappedPage ==
    ASSUME TypeOK, CallInv, part \in Parts,
           NEW page \in SUBSET Rest, NEW maxHeight \in Nat,
           IsPage(page), IsMaxHeight(maxHeight, page),
           NEW t \in Rest \ page
    PROVE  /\ AskAgain(page, maxHeight) => height[t] > maxHeight \/ Crowded(part, t)
           /\ ~AskAgain(page, maxHeight) => Barren(part, t)
<1>1. /\ t \in Txs /\ height[t] \in Nat /\ cursor \in Nat /\ afterHeight \in Nat
      /\ afterHeight <= cursor
  BY DEF Rest, Matches, TypeOK, ChainTypeOK, CallInv
<1>2. ASSUME NEW u \in page
      PROVE  /\ u \in Txs /\ height[u] \in Nat /\ u \in Matches(part)
             /\ height[u] > cursor /\ Before(u, t) /\ height[u] <= height[t]
  <2>1. u \in Rest /\ Before(u, t)
    BY DEF IsPage
  <2>2. u \in Txs /\ height[u] \in Nat
    BY <2>1 DEF Rest, Matches, TypeOK, ChainTypeOK
  <2>. QED  BY <2>1, <2>2, <1>1 DEF Before, Rest
<1>3. ASSUME AskAgain(page, maxHeight), ~(height[t] > maxHeight)
      PROVE  Crowded(part, t)
  <2>1. PICK u \in Parsed(page) : height[u] = maxHeight
    BY <1>1, <1>3 DEF AskAgain, IsMaxHeight
  <2>2. u \in page
    BY DEF Parsed
  <2>3. height[u] = height[t]
    BY <1>1, <1>2, <1>3, <2>1, <2>2
  <2>. QED  BY <1>2, <2>2, <2>3 DEF Crowded
<1>4. ASSUME ~AskAgain(page, maxHeight)
      PROVE  Barren(part, t)
  <2> DEFINE Failed == {u \in Matches(part) : /\ ~TxInfo[u].ok
                                              /\ height[u] > afterHeight
                                              /\ Before(u, t)}
  <2>1. Cardinality(page) = Limit
    BY DEF IsPage
  <2>2. maxHeight <= cursor
    BY <1>1, <1>4, <2>1, PartsAssumption DEF AskAgain
  <2>3. ASSUME NEW u \in page
        PROVE  ~TxInfo[u].ok
    BY <1>1, <1>2, <2>2 DEF Parsed, IsMaxHeight
  <2>4. page \subseteq Failed
    BY <1>1, <1>2, <2>3
  <2>5. IsFiniteSet(Failed)
    BY PartsAssumption, FS_Subset DEF Matches
  <2>6. Cardinality(page) <= Cardinality(Failed)
    BY <2>4, <2>5, FS_Subset
  <2>. QED  BY <2>1, <2>6 DEF Barren
<1>. QED  BY <1>3, <1>4

----------------------------------------------------------------------------------
(* Steps. *)

\* The part ends with what was asked for, with nothing, or with less.
LEMMA EndPartStep ==
    ASSUME IInv, part \in Parts, UNCHANGED <<chainVars, callVars>>,
           NEW found \in SUBSET Asked(tip), EndPart(found),
           failed' \in SUBSET Parts, failed \subseteq failed',
           \A t \in Asked(tipAtCall) : part \in Finds[mode][t] =>
               t \in found \/ part \in failed' \/ Lost(part, t)
    PROVE  IInv'
<1> USE DEF chainVars, callVars
<1>1. /\ Asked(tip)' = Asked(tip) /\ Asked(tipAtCall)' = Asked(tipAtCall)
      /\ \A p, t : Lost(p, t)' = Lost(p, t)
      /\ Asked(tip) \subseteq Txs /\ Asked(tipAtCall) \subseteq Txs
  BY DEF Asked, ContractTxs, CreatorTxs, Between, Lost, Crowded, Barren, Matches, Before
<1>2. allTxs[part] = {} /\ part \in Nat /\ N \in Nat /\ part <= N
  BY PartsAssumption DEF IInv, CallInv, Parts
<1>3. /\ allTxs' \in [Parts -> SUBSET Txs]
      /\ allTxs'[part] = found \ Answer
      /\ \A p \in Parts \ {part} : allTxs'[p] = allTxs[p]
      /\ Answer' = Answer \cup found
  <2>1. allTxs' = [allTxs EXCEPT ![part] = found \ Answer]
    BY DEF EndPart, Answer
  <2>2. Answer \subseteq Txs /\ found \subseteq Txs
    BY <1>1 DEF Answer, IInv, TypeOK
  <2>3. /\ allTxs' \in [Parts -> SUBSET Txs]
        /\ allTxs'[part] = found \ Answer
        /\ \A p \in Parts \ {part} : allTxs'[p] = allTxs[p]
    BY <2>1, <2>2 DEF IInv, TypeOK
  <2>. QED  BY <1>2, <2>3 DEF Answer
<1>4. TypeOK'
  BY <1>2, <1>3 DEF IInv, TypeOK, ChainTypeOK, EndPart
<1>5. CallInv'
  BY <1>2, <1>3 DEF IInv, TypeOK, CallInv, EndPart, Parts
<1>6. AnswerSound'
  <2>1. (Answer \cup txs)' \subseteq Asked(tip)'
    BY <1>1, <1>3 DEF IInv, AnswerSound, EndPart
  <2>2. ASSUME NEW p \in Parts, NEW q \in Parts, p # q
        PROVE  allTxs'[p] \cap allTxs'[q] = {}
    <3>1. allTxs[p] \cap allTxs[q] = {} /\ allTxs[p] \subseteq Answer
          /\ allTxs[q] \subseteq Answer
      BY <2>2 DEF IInv, AnswerSound, Answer
    <3>. QED  BY <1>3, <2>2, <3>1
  <2>. QED  BY <2>1, <2>2 DEF AnswerSound
<1>7. FoundInv'
  <2> SUFFICES ASSUME NEW t \in Asked(tipAtCall), NEW p \in Parts, p \in Finds[mode][t]
               PROVE  /\ p < part' => p \in failed' \/ t \in Answer' \/ Lost(p, t)
                      /\ p = part' => t \in Rest'
    BY <1>1 DEF FoundInv
  <2>1. part' = part + 1 /\ p \in Nat
    BY DEF EndPart, Parts
  <2>2. ASSUME p < part
        PROVE  p \in failed' \/ t \in Answer' \/ Lost(p, t)
    BY <1>3, <2>2 DEF IInv, FoundInv
  <2>3. ASSUME p = part
        PROVE  p \in failed' \/ t \in Answer' \/ Lost(p, t)
    BY <1>3, <2>3
  <2>4. ASSUME p = part'
        PROVE  t \in Rest'
    <3>1. t \in Txs /\ height[t] > afterHeight /\ height[t] \in Nat /\ afterHeight \in Nat
      BY <1>1 DEF Asked, ContractTxs, CreatorTxs, Between, IInv, TypeOK, ChainTypeOK
    <3>. QED  BY <2>4, <3>1 DEF Rest, Matches, EndPart
  <2>. QED  BY <1>2, <2>1, <2>2, <2>3, <2>4
<1>. QED  BY <1>4, <1>5, <1>6, <1>7 DEF IInv

\* A page that is not the part's last keeps what is asked for in sight.
LEMMA PageStep ==
    ASSUME IInv, part \in Parts, NEW page \in SUBSET Rest, NEW maxHeight \in Nat,
           IsPage(page), IsMaxHeight(maxHeight, page),
           NextPage(page) \/ FullPage(page, maxHeight)
    PROVE  IInv'
<1> USE DEF chainVars, callVars
<1>0. UNCHANGED <<chainVars, callVars, part, allTxs, failed>> /\ txs' = txs \cup Kept(page)
  BY DEF NextPage, FullPage
<1>1. /\ Asked(tip)' = Asked(tip) /\ Asked(tipAtCall)' = Asked(tipAtCall)
      /\ \A p, t : Lost(p, t)' = Lost(p, t)
      /\ Answer' = Answer
      /\ Asked(tip) \subseteq Txs
  BY <1>0 DEF Asked, ContractTxs, CreatorTxs, Between, Lost, Crowded, Barren, Matches,
              Before, Answer
<1>2. Kept(page) \subseteq Asked(tip)
  BY KeptIsAsked DEF IInv
<1>3. page \subseteq Txs /\ \A t \in page : height[t] > 0
  BY DEF Rest, Matches
<1>4. NoKey \notin Txs
  BY PartsAssumption
<1>5. TypeOK'
  <2>1. txs' \in SUBSET Txs
    BY <1>0, <1>1, <1>2 DEF IInv, TypeOK
  <2>2. cursor' \in Nat /\ pageKey' \in Txs \cup {NoKey}
    BY <1>3 DEF NextPage, FullPage, IInv, TypeOK
  <2>. QED  BY <1>0, <2>1, <2>2 DEF IInv, TypeOK, ChainTypeOK
<1>6. CallInv'
  <2>1. afterHeight <= cursor'
    BY DEF NextPage, FullPage, AskAgain, IInv, TypeOK, CallInv
  <2>2. /\ capped => pageKey' = NoKey
        /\ pageKey' # NoKey => height[pageKey'] > 0
    BY <1>3 DEF NextPage, FullPage
  <2>. QED  BY <1>0, <2>1, <2>2 DEF IInv, CallInv
<1>7. AnswerSound'
  BY <1>0, <1>1, <1>2 DEF IInv, AnswerSound
<1>8. FoundInv'
  <2> SUFFICES ASSUME NEW t \in Asked(tipAtCall), NEW p \in Parts, p \in Finds[mode][t]
               PROVE  /\ p < part => p \in failed \/ t \in Answer \/ Lost(p, t)
                      /\ p = part => t \in txs' \/ t \in Rest' \/ Lost(p, t)
    BY <1>0, <1>1 DEF FoundInv
  <2>1. p < part => p \in failed \/ t \in Answer \/ Lost(p, t)
    BY DEF IInv, FoundInv
  <2>2. ASSUME p = part, t \in Rest
        PROVE  t \in txs' \/ t \in Rest' \/ Lost(p, t)
    <3>1. CASE t \in page
      BY <1>0, <3>1, AskedIsKept DEF IInv
    <3>2. CASE t \notin page /\ NextPage(page)
      <4>1. pageKey' \in page /\ Before(pageKey', t) /\ cursor' = cursor
        BY <2>2, <3>2 DEF NextPage, IsPage
      <4>2. Before(pageKey, t)' /\ t \in Matches(part)' /\ height'[t] > cursor'
        BY <1>0, <2>2, <4>1 DEF Before, Rest, Matches
      <4>. QED  BY <4>2 DEF Rest
    <3>3. CASE t \notin page /\ FullPage(page, maxHeight)
      <4>1. capped /\ AskAgain(page, maxHeight) /\ cursor' = maxHeight /\ pageKey' = NoKey
        BY <2>2, <3>3 DEF FullPage
      <4>2. height[t] > maxHeight \/ Crowded(part, t)
        BY <2>2, <3>3, <4>1, BehindCappedPage DEF IInv
      <4>3. ASSUME height[t] > maxHeight PROVE t \in Rest'
        BY <1>0, <2>2, <4>1, <4>3 DEF Rest, Matches
      <4>. QED  BY <2>2, <4>1, <4>2, <4>3 DEF Lost
    <3>. QED  BY <3>1, <3>2, <3>3
  <2>. QED  BY <1>0, <2>1, <2>2 DEF IInv, FoundInv
<1>. QED  BY <1>5, <1>6, <1>7, <1>8 DEF IInv

\* With the last page, what is missing is lost.
LEMMA LastPageStep ==
    ASSUME IInv, part \in Parts, NEW page \in SUBSET Rest, NEW maxHeight \in Nat,
           IsPage(page), IsMaxHeight(maxHeight, page), LastPage(page, maxHeight)
    PROVE  IInv'
<1>1. UNCHANGED <<chainVars, callVars, failed>> /\ EndPart(txs \cup Kept(page))
  BY DEF LastPage
<1>2. txs \cup Kept(page) \in SUBSET Asked(tip)
  BY KeptIsAsked DEF IInv, AnswerSound
<1>3. ASSUME NEW t \in Asked(tipAtCall), part \in Finds[mode][t]
      PROVE  t \in txs \cup Kept(page) \/ part \in failed' \/ Lost(part, t)
  <2>1. t \in txs \/ t \in Rest \/ Lost(part, t)
    BY <1>3 DEF IInv, FoundInv
  <2>2. ASSUME t \in page PROVE t \in Kept(page)
    BY <2>2, AskedIsKept DEF IInv
  <2>3. ASSUME t \in Rest \ page PROVE Lost(part, t)
    <3>1. capped /\ ~AskAgain(page, maxHeight)
      BY <2>3 DEF LastPage
    <3>2. Barren(part, t)
      BY <2>3, <3>1, BehindCappedPage DEF IInv
    <3>. QED  BY <3>1, <3>2 DEF Lost
  <2>. QED  BY <2>1, <2>2, <2>3
<1>. QED
  <2>1. failed' \in SUBSET Parts /\ failed \subseteq failed'
    BY <1>1 DEF IInv, TypeOK
  <2>. HIDE DEF EndPart, IInv
  <2>. QED  BY <1>1, <1>2, <1>3, <2>1, EndPartStep

\* Blocks only add what is above the tip of the call.
LEMMA GrowStep ==
    ASSUME IInv, part \in Parts, Grow
    PROVE  IInv'
<1> USE DEF callVars
<1>1. /\ tip' = tip + 1 /\ tip \in Nat /\ tipAtCall \in Nat /\ afterHeight \in Nat
      /\ height \in [Txs -> Nat] /\ height' \in [Txs -> Nat]
      /\ \A t \in Txs : \/ height'[t] = height[t]
                        \/ height[t] = 0 /\ height'[t] = tip + 1
      /\ UNCHANGED <<callVars, part, cursor, pageKey, txs, allTxs, failed>>
  BY DEF Grow, NewBlock, IInv, TypeOK, ChainTypeOK
<1>2. /\ \A t \in Txs : height[t] <= tip /\ height[t] \in Nat
      /\ afterHeight <= tipAtCall /\ tipAtCall <= tip
  BY <1>1 DEF IInv, CallInv
<1>3. Asked(tip) \subseteq Asked(tip)'
  <2>1. ASSUME NEW t \in Txs, Between(t, afterHeight, tip)
        PROVE  Between(t, afterHeight, tip)'
    BY <1>1, <1>2, <2>1 DEF Between
  <2>. QED  BY <1>1, <2>1 DEF Asked, ContractTxs, CreatorTxs
<1>4. Asked(tipAtCall)' \subseteq Asked(tipAtCall)
  <2>1. ASSUME NEW t \in Txs, Between(t, afterHeight, tipAtCall)'
        PROVE  Between(t, afterHeight, tipAtCall)
    BY <1>1, <1>2, <2>1 DEF Between
  <2>. QED  BY <1>1, <2>1 DEF Asked, ContractTxs, CreatorTxs
<1>5. ASSUME NEW t \in Asked(tipAtCall)
      PROVE  t \in Txs /\ height[t] > 0 /\ height'[t] = height[t]
  BY <1>1, <1>2 DEF Asked, ContractTxs, CreatorTxs, Between
<1>6. ASSUME NEW t \in Asked(tipAtCall), NEW p \in Parts, Lost(p, t)
      PROVE  Lost(p, t)'
  <2>1. ASSUME NEW u \in Matches(p)
        PROVE  u \in Matches(p)' /\ u \in Txs /\ height'[u] = height[u]
    BY <1>1, <1>2 DEF Matches
  <2>2. Crowded(p, t) => Crowded(p, t)'
    BY <1>5, <2>1 DEF Crowded
  <2>3. Barren(p, t) => Barren(p, t)'
    <3>1. ASSUME NEW u \in Matches(p)', Before(u, t)'
          PROVE  u \in Matches(p) /\ Before(u, t)
      <4>1. u \in Txs /\ height[u] \in Nat /\ height'[u] \in Nat
        BY <1>1 DEF Matches
      <4>2. height'[u] = height[u]
        BY <1>1, <1>2, <1>5, <3>1, <4>1 DEF Before
      <4>. QED  BY <1>1, <1>5, <3>1, <4>1, <4>2 DEF Matches, Before
    <3>2. ASSUME NEW u \in Matches(p), Before(u, t)
          PROVE  Before(u, t)'
      BY <1>5, <2>1, <3>2 DEF Before
    <3>3. {u \in Matches(p) : /\ ~TxInfo[u].ok
                              /\ height[u] > afterHeight
                              /\ Before(u, t)}
          = {u \in Matches(p)' : /\ ~TxInfo[u].ok
                                 /\ height'[u] > afterHeight'
                                 /\ Before(u, t)'}
      BY <1>1, <2>1, <3>1, <3>2
    <3>. QED  BY <3>3 DEF Barren
  <2>. QED  BY <1>1, <1>6, <2>2, <2>3 DEF Lost
<1>7. ASSUME NEW t \in Asked(tipAtCall), t \in Rest
      PROVE  t \in Rest'
  <2>1. t \in Matches(part)' /\ height'[t] > cursor'
    BY <1>1, <1>5, <1>7 DEF Rest, Matches
  <2>2. ASSUME pageKey # NoKey PROVE Before(pageKey, t)'
    <3>1. pageKey \in Txs /\ height[pageKey] > 0 /\ Before(pageKey, t)
      BY <1>7, <2>2 DEF IInv, TypeOK, CallInv, Rest
    <3>2. height'[pageKey] = height[pageKey]
      BY <1>1, <1>2, <3>1
    <3>. QED  BY <1>1, <1>5, <3>1, <3>2 DEF Before
  <2>. QED  BY <1>1, <2>1, <2>2 DEF Rest, Before
<1>8. TypeOK'
  BY <1>1 DEF IInv, TypeOK, ChainTypeOK
<1>9. CallInv'
  <2>1. pageKey # NoKey => height'[pageKey] > 0
    BY <1>1, <1>2 DEF IInv, TypeOK, CallInv
  <2>2. \A t \in Txs : height'[t] <= tip'
    BY <1>1, <1>2
  <2>. QED  BY <1>1, <1>2, <2>1, <2>2 DEF IInv, CallInv
<1>10. AnswerSound'
  BY <1>1, <1>3 DEF IInv, AnswerSound, Answer
<1>11. FoundInv'
  <2> SUFFICES ASSUME NEW t \in Asked(tipAtCall), NEW p \in Parts, p \in Finds[mode][t]
               PROVE  /\ p < part => p \in failed \/ t \in Answer \/ Lost(p, t)'
                      /\ p = part => t \in txs \/ t \in Rest' \/ Lost(p, t)'
    BY <1>1, <1>4 DEF FoundInv, Answer
  <2>. QED  BY <1>6, <1>7 DEF IInv, FoundInv
<1>. QED  BY <1>8, <1>9, <1>10, <1>11 DEF IInv

----------------------------------------------------------------------------------
(* Theorems. *)

\* A call begins with every part still to come.
LEMMA InitIInv == Init => IInv
<1> SUFFICES ASSUME Init PROVE IInv
  OBVIOUS
<1> USE DEF Init
<1>1. /\ tip \in Nat /\ height \in [Txs -> 0 .. tip] /\ afterHeight \in 0 .. tip
      /\ N \in Nat \ {0}
  BY MaxHeightAssumption, PartsAssumption DEF ChainInit
<1>2. TypeOK
  BY <1>1 DEF TypeOK, ChainTypeOK, Parts
<1>3. CallInv
  BY <1>1 DEF CallInv
<1>4. AnswerSound
  BY DEF AnswerSound, Answer
<1>5. FoundInv
  <2> SUFFICES ASSUME NEW t \in Asked(tipAtCall), NEW p \in Parts, p \in Finds[mode][t]
               PROVE  ~(p < part) /\ (p = part => t \in Rest)
    BY DEF FoundInv
  <2>1. t \in Txs /\ height[t] \in Nat /\ height[t] > afterHeight
    BY <1>1 DEF Asked, ContractTxs, CreatorTxs, Between
  <2>. QED  BY <1>1, <2>1 DEF Parts, Rest, Matches
<1>. QED  BY <1>2, <1>3, <1>4, <1>5 DEF IInv

\* Every answer, failure and block keeps it.
LEMMA StepIInv == IInv /\ [Next]_vars => IInv'
<1> SUFFICES ASSUME IInv, [Next]_vars PROVE IInv'
  OBVIOUS
<1>0. part <= N => part \in Parts
  BY PartsAssumption DEF IInv, TypeOK, Parts
<1>1. ASSUME Receive PROVE IInv'
  <2>1. PICK page \in SUBSET Rest : \E maxHeight \in 0 .. tip :
           /\ IsPage(page) /\ IsMaxHeight(maxHeight, page)
           /\ NextPage(page) \/ FullPage(page, maxHeight) \/ LastPage(page, maxHeight)
    BY <1>1 DEF Receive
  <2>2. PICK maxHeight \in 0 .. tip :
           /\ IsPage(page) /\ IsMaxHeight(maxHeight, page)
           /\ NextPage(page) \/ FullPage(page, maxHeight) \/ LastPage(page, maxHeight)
    BY <2>1
  <2>3. maxHeight \in Nat /\ part \in Parts
    BY <1>0, <1>1 DEF Receive
  <2>. QED  BY <2>2, <2>3, PageStep, LastPageStep
<1>2. ASSUME RequestFails PROVE IInv'
  <2> DEFINE found == IF mode = "contract" THEN {} ELSE txs
  <2>1. /\ part \in Parts /\ failed' = failed \cup {part} /\ EndPart(found)
        /\ UNCHANGED <<chainVars, callVars>>
    BY <1>0, <1>2 DEF RequestFails
  <2>2. found \in SUBSET Asked(tip)
    BY DEF IInv, AnswerSound
  <2>3. failed' \in SUBSET Parts /\ failed \subseteq failed' /\ part \in failed'
    BY <2>1 DEF IInv, TypeOK
  <2>. HIDE DEF found
  <2>. QED  BY <2>1, <2>2, <2>3, EndPartStep
<1>3. ASSUME Grow PROVE IInv'
  BY <1>0, <1>3, GrowStep DEF Grow
<1>4. ASSUME UNCHANGED vars PROVE IInv'
  BY <1>4 DEF vars, chainVars, callVars, IInv, TypeOK, ChainTypeOK, CallInv, AnswerSound,
              FoundInv, Answer, Asked, ContractTxs, CreatorTxs, Between, Lost, Crowded,
              Barren, Matches, Before, Rest
<1>. QED  BY <1>1, <1>2, <1>3, <1>4 DEF Next

\* The inductive invariant of a call: it rests on the parts finding together what
\* the call is about and on a page being the first Limit of what is left.
THEOREM TxQueryInvariant == Spec => []IInv
  BY InitIInv, StepIInv, PTL DEF Spec

\* Nothing is returned that was not asked for, and nothing twice.
THEOREM AnswerSoundHolds == Spec => []AnswerSound
<1>1. IInv => AnswerSound
  BY DEF IInv
<1>. QED  BY <1>1, TxQueryInvariant, PTL

\* What the chain had when the call was made is in the answer, but for failed parts
\* and the two gaps a capped node leaves: whatever the page size, the order of the
\* parts and the blocks that arrive meanwhile.
THEOREM AnswerCompleteHolds == Spec => []AnswerComplete
<1>1. IInv => AnswerComplete
  <2> SUFFICES ASSUME IInv, part = N + 1, NEW t \in Asked(tipAtCall) \ Answer,
                      NEW p \in Finds[mode][t]
               PROVE  p \in failed \/ Lost(p, t)
    BY DEF AnswerComplete
  <2>1. t \in Txs
    BY DEF Asked, ContractTxs, CreatorTxs
  <2>2. p \in Parts
    BY <2>1, FindsAssumption DEF IInv, TypeOK
  <2>3. p < part
    BY <2>2, PartsAssumption DEF Parts
  <2>. QED  BY <2>2, <2>3 DEF IInv, FoundInv
<1>. QED  BY <1>1, TxQueryInvariant, PTL

----------------------------------------------------------------------------------
(* Requests, and the call they make. *)

\* Whatever comes with a page, the next request goes further than this one.
THEOREM NeverAsksTwiceHolds == Spec => NeverAsksTwice
<1>1. IInv /\ [Next]_vars => [part <= N => Grow \/ Ahead]_vars
  <2> SUFFICES ASSUME IInv, Receive \/ RequestFails PROVE Ahead
    BY DEF Next
  <2>0. part \in Nat /\ cursor \in Nat
    BY PartsAssumption DEF IInv, TypeOK
  <2>1. ASSUME NEW found, EndPart(found) PROVE Ahead
    BY <2>0, <2>1 DEF EndPart, Ahead
  <2>2. CASE RequestFails
    BY <2>1, <2>2 DEF RequestFails
  <2>3. CASE Receive
    <3>1. PICK page \in SUBSET Rest : \E maxHeight \in 0 .. tip :
             NextPage(page) \/ FullPage(page, maxHeight) \/ LastPage(page, maxHeight)
      BY <2>3 DEF Receive
    <3>2. PICK maxHeight \in 0 .. tip :
             NextPage(page) \/ FullPage(page, maxHeight) \/ LastPage(page, maxHeight)
      BY <3>1
    <3>3. CASE NextPage(page)
      <4>1. pageKey' \in Rest /\ pageKey' \in Txs
        BY <3>3 DEF NextPage, Rest, Matches
      <4>. QED  BY <3>3, <4>1, PartsAssumption DEF NextPage, Ahead, Rest
    <3>4. CASE FullPage(page, maxHeight)
      BY <3>4 DEF FullPage, AskAgain, Ahead
    <3>5. CASE LastPage(page, maxHeight)
      BY <2>1, <3>5 DEF LastPage
    <3>. QED  BY <3>2, <3>3, <3>4, <3>5
  <2>. QED  BY <2>2, <2>3
<1>. QED  BY <1>1, TxQueryInvariant, PTL DEF Spec, NeverAsksTwice

\* The last part hands out an answer that has what was asked for, unless a request
\* failed or the node caps.
LEMMA ReturnStep ==
    ASSUME IInv, IInv', part \in Parts, UNCHANGED <<chainVars, callVars>>,
           part' = N + 1, failed' \in {failed, failed \cup {part}}
    PROVE  C!Return
<1> USE DEF chainVars, callVars
<1>1. N \in Nat /\ part # N + 1
  BY PartsAssumption DEF Parts
<1>2. /\ Asked(tip)' = C!Asked(tip) /\ Asked(tipAtCall)' = C!Asked(tipAtCall)
  BY DEF Asked, ContractTxs, CreatorTxs, Between,
         C!Asked, C!ContractTxs, C!CreatorTxs, C!Between
<1>3. Answer' \in SUBSET C!Asked(tip)
  BY <1>2 DEF IInv, AnswerSound
<1>4. ASSUME failed' = {}, ~capped
      PROVE  C!Asked(tipAtCall) \subseteq Answer'
  <2> SUFFICES ASSUME NEW t \in C!Asked(tipAtCall) PROVE t \in Answer'
    OBVIOUS
  <2>1. t \in Txs /\ t \in Asked(tipAtCall)'
    BY <1>2 DEF C!Asked, C!ContractTxs, C!CreatorTxs
  <2>2. Finds[mode][t] # {}
    <3>1. CASE mode = "contract"
      <4>1. Contract \in TxInfo[t].touches
        BY <3>1 DEF C!Asked, C!ContractTxs
      <4>. QED  BY <2>1, <3>1, <4>1, FindsAssumption
    <3>2. CASE mode = "creator"
      <4>1. TxInfo[t].signer = Sender /\ TxInfo[t].op # "execute"
        BY <3>2 DEF C!Asked, C!CreatorTxs
      <4>2. Finds["creator"][t] # {}
        BY <2>1, <4>1, FindsAssumption
      <4>. QED  BY <3>2, <4>2
    <3>. QED  BY <3>1, <3>2 DEF IInv, TypeOK, Modes
  <2>3. Finds[mode][t] \in SUBSET Parts
    BY <2>1, FindsAssumption DEF IInv, TypeOK
  <2>4. PICK p \in Parts : p \in Finds[mode][t]
    BY <2>2, <2>3
  <2>5. p < part'
    BY <1>1, <2>4 DEF Parts
  <2>6. p \in failed' \/ t \in Answer' \/ Lost(p, t)'
    BY <2>1, <2>4, <2>5 DEF IInv, FoundInv
  <2>. QED  BY <1>4, <2>6 DEF Lost
<1>5. C!Asked(tipAtCall) \subseteq Answer' \/ failed' # {} \/ capped
  BY <1>4 DEF IInv, TypeOK
<1>6. (failed' # {}) \in {failed # {}, TRUE}
  OBVIOUS
<1>. QED  BY <1>1, <1>3, <1>5, <1>6 DEF C!Return, C!chainVars, C!request

LEMMA CallStep == IInv /\ IInv' /\ [Next]_vars => [C!Next]_(C!callVars)
<1> SUFFICES ASSUME IInv, IInv', [Next]_vars PROVE C!Next \/ UNCHANGED C!callVars
  BY DEF C!callVars
<1> USE DEF C!callVars, C!chainVars, C!request, chainVars, callVars
<1>1. N \in Nat /\ part \in 1 .. N + 1 /\ (part <= N <=> part \in Parts)
  BY PartsAssumption DEF IInv, TypeOK, Parts
<1>2. CASE UNCHANGED vars
  BY <1>2 DEF vars, Answer
<1>3. CASE Grow
  <2>1. part # N + 1 /\ C!NewBlock
    BY <1>1, <1>3 DEF Grow, NewBlock, C!NewBlock
  <2>. QED  BY <1>3, <2>1 DEF Grow, Answer, C!Grow, C!Next
\* A part that is not the last hands out nothing.
<1>4. ASSUME NEW found, part \in Parts, EndPart(found), UNCHANGED <<chainVars, callVars>>,
             failed' \in {failed, failed \cup {part}}
      PROVE  C!Next \/ UNCHANGED C!callVars
  <2>1. part' = part + 1 /\ part # N + 1
    BY <1>1, <1>4 DEF EndPart, Parts
  <2>2. CASE part' = N + 1
    BY <1>4, <2>2, ReturnStep DEF C!Next
  <2>3. CASE part' # N + 1 /\ (failed # {} <=> failed' # {})
    BY <1>4, <2>1, <2>3
  <2>4. CASE part' # N + 1 /\ failed = {} /\ failed' # {}
    <3>1. C!Trouble
      BY <1>4, <2>1, <2>4 DEF C!Trouble
    <3>. QED  BY <3>1 DEF C!Next
  <2>. QED  BY <1>4, <2>2, <2>3, <2>4
<1>5. CASE RequestFails
  BY <1>1, <1>4, <1>5 DEF RequestFails
<1>6. CASE Receive
  <2>1. PICK page \in SUBSET Rest : \E maxHeight \in 0 .. tip :
           NextPage(page) \/ FullPage(page, maxHeight) \/ LastPage(page, maxHeight)
    BY <1>6 DEF Receive
  <2>2. PICK maxHeight \in 0 .. tip :
           NextPage(page) \/ FullPage(page, maxHeight) \/ LastPage(page, maxHeight)
    BY <2>1
  <2>3. part \in Parts /\ part # N + 1
    BY <1>1, <1>6 DEF Receive
  <2>4. CASE NextPage(page) \/ FullPage(page, maxHeight)
    BY <2>3, <2>4 DEF NextPage, FullPage
  <2>5. CASE LastPage(page, maxHeight)
    BY <1>4, <2>3, <2>5 DEF LastPage
  <2>. QED  BY <2>2, <2>4, <2>5
<1>. QED  BY <1>2, <1>3, <1>5, <1>6 DEF Next

\* All the requests of a call, with the blocks and the failures between them, are to
\* its caller one answer, complete as of the moment the call was made.
THEOREM CallRefinement == Spec => ImplementsCall
<1>1. Init => C!Init
  <2> SUFFICES ASSUME Init PROVE C!Init
    OBVIOUS
  <2>1. part # N + 1
    BY PartsAssumption DEF Init
  <2>. QED  BY <2>1 DEF Init, Modes, ChainInit, C!Init, C!ChainInit
<1>. QED  BY <1>1, CallStep, TxQueryInvariant, PTL DEF Spec, C!Spec, ImplementsCall
==================================================================================
