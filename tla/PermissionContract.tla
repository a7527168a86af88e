------------------------- MODULE PermissionContract -------------------------
(***************************************************************************)
(* What the owner-decision protocol promises for every permission request  *)
(* of a provider: one decision at most, taken before the job ended; an     *)
(* answer given once; and an allow only where the owner decided allow.     *)
(***************************************************************************)
CONSTANT Requests

VARIABLES
    decided,    \* request -> the decision an owner was told is accepted
    answer,     \* request -> what the provider got
    phase       \* "open", "ending" (somebody claimed the end), "ended"

contractVars == <<decided, answer, phase>>

ContractInit ==
    /\ decided = [r \in Requests |-> "none"]
    /\ answer = [r \in Requests |-> "none"]
    /\ phase = "open"

Decide(r, d) ==
    /\ decided[r] = "none" /\ phase # "ended"
    /\ decided' = [decided EXCEPT ![r] = d]
    /\ UNCHANGED <<answer, phase>>

\* Without a decision a request can be withdrawn, and refused once the job is
\* on its way to the end.
Answers(r) ==
    {"cancelled"} \cup ({decided[r]} \ {"none"})
                  \cup (IF phase = "open" THEN {} ELSE {"reject"})

Answer(r) ==
    /\ answer[r] = "none"
    /\ \E a \in Answers(r) : answer' = [answer EXCEPT ![r] = a]
    /\ UNCHANGED <<decided, phase>>

End ==
    /\ \/ phase = "open" /\ phase' \in {"ending", "ended"}
       \/ phase = "ending" /\ phase' = "ended"
    /\ UNCHANGED <<decided, answer>>

ContractNext ==
    \/ \E r \in Requests : Answer(r) \/ \E d \in {"allow", "reject"} : Decide(r, d)
    \/ End

ContractSpec == ContractInit /\ [][ContractNext]_contractVars
=============================================================================
