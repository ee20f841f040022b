------------------------------ MODULE MetadataProofs -----------------------------
(* Facts about the snapshots of discovery that the proofs of several components *)
(* rest on.                                                                     *)
EXTENDS Metadata, TLAPS

\* The snapshots discovery hands out are sets of the right things.
LEMMA SnapshotFacts ==
    ASSUME NEW K \in SUBSET Contracts, NEW skip
    PROVE  /\ KnownCodeIDs(K) \in SUBSET Codes
           /\ Creators(K) \in SUBSET Accounts
           /\ Admins(K) \in SUBSET Accounts
           /\ QueryableContracts(K, skip) \in SUBSET Contracts
  BY ContractInfoAssumption
     DEF KnownCodeIDs, Creators, Admins, QueryableContracts

\* They grow with the contracts they are taken from.
LEMMA SnapshotMonotone ==
    ASSUME NEW K \in SUBSET Contracts, NEW M \in SUBSET Contracts, K \subseteq M
    PROVE  /\ KnownCodeIDs(K) \subseteq KnownCodeIDs(M)
           /\ Creators(K) \subseteq Creators(M)
  BY DEF KnownCodeIDs, Creators

\* One more contract adds its code and its creator.
LEMMA SnapshotAdd ==
    ASSUME NEW K \in SUBSET Contracts, NEW c \in Contracts
    PROVE  /\ KnownCodeIDs(K \cup {c}) = KnownCodeIDs(K) \cup {ContractInfo[c].code}
           /\ Creators(K \cup {c}) = Creators(K) \cup {ContractInfo[c].creator}
  BY DEF KnownCodeIDs, Creators
==================================================================================
