---------------------------------- MODULE Totals ---------------------------------
(***************************************************************************)
(* What readers of stats_cache may rely on, whoever inserts: the totals are  *)
(* always those of some set of rows that are really there, and a row is in   *)
(* them from the moment it is visible.  A row that was in them may drop out   *)
(* again, and come back.                                                    *)
(***************************************************************************)
CONSTANTS Txs       \* the paying transactions

VARIABLES
    rows,           \* processed_burns: the transactions that have a row
    totals          \* stats_cache: the rows it sums and counts

Init == rows = {} /\ totals = {}

\* An INSERT, of a new row or of none (ON CONFLICT DO NOTHING).
Insert(new) ==
    /\ rows' = rows \cup new
    /\ new \subseteq totals' /\ totals' \subseteq rows'

Next == Insert({}) \/ \E t \in Txs : Insert({t})

Spec == Init /\ [][Next]_<<rows, totals>>
==================================================================================
