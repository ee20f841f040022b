------------------------------ MODULE MCStatistics -------------------------------
(* Small instances of Statistics for TLC. *)
EXTENDS Statistics, TLC

CONSTANTS t1, t2

\* t1 is the newer one.
MCTimeOf == t1 :> 2 @@ t2 :> 1
==================================================================================
