-------------------------------- MODULE Deployment -------------------------------
(***************************************************************************)
(* The service with a --backfill run beside it: two processes, one chain and *)
(* one database.  Backfill takes of the service only what Ledger promises;   *)
(* here its place is taken by Processor itself, so that neither process is    *)
(* an assumption any more.                                                  *)
(*                                                                         *)
(* They share the chain and the two tables; everything else is each one's    *)
(* own.  The service may be killed and restarted meanwhile, with --reindex or *)
(* without, but not with --reset-db, which takes the rows of both.           *)
(***************************************************************************)
EXTENDS Processor

\* The state of the backfill process; the names are those of Backfill.
VARIABLES bKnown, bPc, cursorHeight, bContracts, sinceFlush, bKnownCodes, bSenders,
          pending, bKnownAtRead, faults

\* Backfill, with its theorems.
B == INSTANCE BackfillProofs WITH
        known <- bKnown, pc <- bPc, contracts <- bContracts,
        knownCodes <- bKnownCodes, senders <- bSenders, knownAtRead <- bKnownAtRead,
        FlushEvery <- 200, MaxFaults <- MaxDBFaults

serviceVars  == <<known, pc, locals, history, claim, counts>>
backfillVars == <<bKnown, bPc, cursorHeight, bContracts, sinceFlush, bKnownCodes,
                  bSenders, pending, bKnownAtRead, faults>>

JointInit == Init /\ B!Init

Service ==
    /\ \/ Grow
       \/ BootPlain \/ BootReindex
       \/ \E c \in Contracts : Discover(c)
       \/ Work
       \/ Faults
    /\ UNCHANGED backfillVars

BackfillRun == B!Run /\ UNCHANGED serviceVars

JointNext == Service \/ BackfillRun

JointSpec == JointInit /\ [][JointNext]_<<vars, backfillVars>>
==================================================================================
