---------------------------------- MODULE Ledger ---------------------------------
(***************************************************************************)
(* What the tracker promises about its two tables, whoever writes them:     *)
(*                                                                         *)
(*  - processed_burns only grows, one row per paying transaction that is on *)
(*    the chain, and a row once written is never rewritten: the price it    *)
(*    carries is the one of the writer that came first;                     *)
(*  - the cursor of sync_state moves up, never beyond the chain, unless it   *)
(*    is reset on purpose;                                                  *)
(*  - both are emptied only together, by an explicit reset.                 *)
(***************************************************************************)
EXTENDS Chain

CONSTANTS StartHeight   \* contract.start_height of the configuration

VARIABLES
    burns,      \* the row of each transaction in processed_burns
    cursor      \* sync_state.last_processed_event_id

Rows == {"absent", "unpriced", "priced"}

ledgerVars == <<chainVars, burns, cursor>>

Empty == [t \in Txs |-> "absent"]

Init ==
    /\ ChainInit
    /\ burns = Empty
    /\ cursor = 0

\* One new row, for a paying transaction the chain has.
Record(t) ==
    /\ Paying(t) /\ height[t] \in 1 .. tip
    /\ burns[t] = "absent"
    /\ \E r \in Rows \ {"absent"} : burns' = [burns EXCEPT ![t] = r]
    /\ UNCHANGED <<chainVars, cursor>>

\* The cursor moves up to the height of a block that exists, or from 0 to the
\* configured start.
Advance ==
    /\ \/ cursor' \in cursor + 1 .. tip
       \/ cursor = 0 /\ cursor' = StartHeight
    /\ UNCHANGED <<chainVars, burns>>

\* Start over from 0, keeping the rows (--reindex) or not (--reset-db).
Restart ==
    /\ cursor' = 0
    /\ burns' \in {burns, Empty}
    /\ UNCHANGED chainVars

Grow == NewBlock /\ UNCHANGED <<burns, cursor>>

Next ==
    \/ Grow
    \/ \E t \in Txs : Record(t)
    \/ Advance
    \/ Restart

Spec == Init /\ [][Next]_ledgerVars
==================================================================================
