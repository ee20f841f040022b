---------------------------------- MODULE Chain ----------------------------------
(***************************************************************************)
(* The Cosmos node the tracker reads, as the code in internal/chain uses    *)
(* it: a growing chain of blocks and the transactions in them.  The node    *)
(* itself is external to the repository; what a finished query returns for  *)
(* a given state of the chain (ContractTxs, CreatorTxs) is what             *)
(* internal/chain/client.go asks for and keeps of the answer.  How the      *)
(* answer is collected page by page, and when part of it is lost, is the    *)
(* subject of TxQuery; the metadata of the contracts are in Metadata.       *)
(***************************************************************************)
EXTENDS Metadata, Integers, FiniteSets

CONSTANTS
    Txs,            \* every transaction that may appear on the chain
    TxInfo,         \* the immutable attributes of each transaction
    MaxHeight       \* bound: the last height the chain reaches

\* An "upload" stands for the three message types that are always kept
\* (MsgStoreCode, MsgUpdateAdmin, MsgClearAdmin), a "deploy" for those that are
\* filtered by code id (MsgInstantiateContract, -Contract2, MsgMigrateContract),
\* an "execute" for everything the sender query does not ask for.
Ops == {"execute", "upload", "deploy"}

ASSUME TxInfoAssumption ==
    TxInfo \in [Txs -> [touches : SUBSET Contracts, signer : Accounts,
                        op : Ops, code : Codes, ok : BOOLEAN, fee : Nat]]

ASSUME MaxHeightAssumption == MaxHeight \in Nat

VARIABLES
    height,         \* the block of each transaction, 0 while it is in none
    tip             \* the height of the latest block

chainVars == <<height, tip>>

ChainTypeOK ==
    /\ height \in [Txs -> Nat]
    /\ tip \in Nat

\* Some of the transactions may lie in blocks older than the tracker.
ChainInit ==
    /\ tip \in 0 .. MaxHeight
    /\ height \in [Txs -> 0 .. tip]

\* The chain commits a block with any of the transactions still waiting.
NewBlock ==
    /\ tip < MaxHeight
    /\ tip' = tip + 1
    /\ \E included \in SUBSET {t \in Txs : height[t] = 0} :
         height' = [t \in Txs |-> IF t \in included THEN tip + 1 ELSE height[t]]

\* A transaction whose fee the tracker wants: extractContractTxs keeps only
\* successful ones, the insert loops skip those without a positive uatom fee.
Paying(t) == TxInfo[t].ok /\ TxInfo[t].fee > 0

\* Blocks strictly above one height and not above another: the query says
\* "tx.height > cursor", and the node knows nothing above its tip.
Between(t, after, upto) == after < height[t] /\ height[t] <= upto

\* What QueryContractTxs collects when nothing goes wrong.
ContractTxs(c, after, upto) ==
    {t \in Txs : /\ TxInfo[t].ok
                 /\ c \in TxInfo[t].touches
                 /\ Between(t, after, upto)}

\* What QueryCreatorTxs collects for one sender when nothing goes wrong: an
\* empty set of known codes disables the filter.
CreatorTxs(s, after, upto, knownCodes) ==
    {t \in Txs : /\ TxInfo[t].ok
                 /\ TxInfo[t].signer = s
                 /\ TxInfo[t].op # "execute"
                 /\ \/ TxInfo[t].op = "upload"
                    \/ knownCodes = {}
                    \/ TxInfo[t].code \in knownCodes
                 /\ Between(t, after, upto)}
==================================================================================
