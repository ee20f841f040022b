--------------------------------- MODULE Metadata --------------------------------
(***************************************************************************)
(* The static metadata of the contracts, and the snapshots that             *)
(* internal/chain/discovery.go computes from the contracts in its map.      *)
(***************************************************************************)
CONSTANTS
    Contracts,      \* every contract that may exist
    Accounts,       \* addresses that create, administer and sign
    Codes,          \* code ids
    NoAdmin,        \* the empty admin of a contract without one
    ContractInfo    \* code, creator and admin of each contract

ASSUME ContractInfoAssumption ==
    /\ NoAdmin \notin Accounts
    /\ ContractInfo \in [Contracts -> [code : Codes, creator : Accounts,
                                       admin : Accounts \cup {NoAdmin}]]

KnownCodeIDs(known) == {ContractInfo[c].code : c \in known}

Creators(known) == {ContractInfo[c].creator : c \in known}

Admins(known) ==
    {ContractInfo[c].admin : c \in known} \ (Creators(known) \cup {NoAdmin})

QueryableContracts(known, skip) == {c \in known : ContractInfo[c].code \notin skip}
==================================================================================
