----------------------------- MODULE JobContract -----------------------------
(***************************************************************************)
(* What the job store promises about the end of a job, whoever ends it:    *)
(* the outcome is decided once, a success or a failure is collectable at   *)
(* the moment it is decided, and a stop becomes collectable later.         *)
(***************************************************************************)
VARIABLES outcome, collected

contractVars == <<outcome, collected>>

ContractInit == outcome = "open" /\ collected = "no"

Finish ==
    /\ outcome = "open"
    /\ outcome' \in {"succeeded", "failed"}
    /\ collected' = "yes"

\* The result of a worker that died between its two writes may already exist.
Stop ==
    /\ outcome = "open"
    /\ outcome' = "stopped"
    /\ collected' \in {"no", "yes"}

Collect ==
    /\ outcome = "stopped" /\ collected = "no"
    /\ collected' = "yes"
    /\ UNCHANGED outcome

ContractNext == Finish \/ Stop \/ Collect

ContractSpec == ContractInit /\ [][ContractNext]_contractVars
=============================================================================
