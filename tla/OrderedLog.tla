----------------------------- MODULE OrderedLog -----------------------------
(***************************************************************************)
(* What an event log read with cursors promises: every reader gets, in     *)
(* order, without loss and without repetition, a prefix of what was        *)
(* logged, and the n-th event logged carries the number n.  A log may      *)
(* break; from then on no reader is given anything, and nothing is said of *)
(* what it holds.                                                          *)
(***************************************************************************)
EXTENDS Naturals, Sequences

VARIABLES
    logged,     \* sequence numbers of the events in the log
    received,   \* sequence numbers one reader has been given
    broken

logVars == <<logged, received, broken>>

LogInit == logged = << >> /\ received = << >> /\ broken = FALSE

Log == ~ broken /\ logged' = Append(logged, Len(logged) + 1) /\ UNCHANGED <<received, broken>>

Receive ==
    /\ ~ broken
    /\ \E n \in Len(received) .. Len(logged) : received' = SubSeq(logged, 1, n)
    /\ UNCHANGED <<logged, broken>>

Break == broken' = TRUE /\ UNCHANGED received

LogSpec == LogInit /\ [][Log \/ Receive \/ Break]_logVars
=============================================================================
