------------------------------- MODULE MCDiscovery -------------------------------
(* Small instances of Discovery for TLC. *)
EXTENDS Discovery, TLC

CONSTANTS s1, s2, r, q, x, a1, a2, a3, k1, k2, k3, k4

\* r shares the code of the seed s1, q the creator of r; x has nothing in common
\* with them but that a1, the creator of s1, administers it.
Info ==
    s1 :> [code |-> k1, creator |-> a1, admin |-> NoAdmin] @@
    s2 :> [code |-> k2, creator |-> a1, admin |-> NoAdmin] @@
    r  :> [code |-> k1, creator |-> a2, admin |-> NoAdmin] @@
    q  :> [code |-> k3, creator |-> a2, admin |-> NoAdmin] @@
    x  :> [code |-> k4, creator |-> a3, admin |-> a1]

\* An instance may do without some of the contracts.
MCContractInfo == [c \in Contracts |-> Info[c]]
==================================================================================
