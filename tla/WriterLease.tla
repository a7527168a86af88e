----------------------------- MODULE WriterLease -----------------------------
(***************************************************************************)
(* The durable development-writer lease (writer_lease.py).                 *)
(*                                                                         *)
(* One JSON file per canonical workspace path, all of them read and        *)
(* written under one flock, so every public operation of WriterLeaseStore  *)
(* is one atomic action here.  A lease for a path also covers the paths    *)
(* below it.  External damage to a file, the passing of time and the       *)
(* durable state of the jobs that own leases are the environment.          *)
(***************************************************************************)
EXTENDS Naturals

CONSTANTS
    Paths,      \* canonical workspace paths
    Ancestor,   \* pairs <<p, q>>: p is a proper ancestor directory of q
    Jobs,       \* durable job identifiers
    NoJob,      \* a lease whose owner id is not a job identifier
    MaxTokens   \* bound on the number of leases ever granted

ASSUME AncestorAssumption ==
    Ancestor \in SUBSET {pq \in Paths \X Paths : pq[1] # pq[2]}
ASSUME NoJobAssumption == NoJob \notin Jobs
ASSUME MaxTokensAssumption == MaxTokens \in Nat

VARIABLES
    leases,     \* path -> content of its lease file
    issued,     \* how many tokens were handed out; tokens are 1 .. issued
    jobState    \* job -> what _external_job_state says of its directory

vars == <<leases, issued, jobState>>

-----------------------------------------------------------------------------
(* Owner kinds reclaimed by age, and the ages that matter: 1 is beyond the *)
(* root-integration threshold, 2 beyond the store's own stale_after_sec.   *)
AgeKinds == {"pending_dev", "local", "root_integration"}
OwnerKinds == AgeKinds \cup {"external_job", "other"}
Ages == 0 .. 2
StaleAge(kind) == IF kind = "root_integration" THEN 1 ELSE 2

ExternalStates == {"missing", "corrupt", "nonterminal", "terminal",
                   "terminal_cleanup_pending"}

LeaseFile == [kind : OwnerKinds \cup {"none", "corrupt"},
              token : 0 .. MaxTokens,
              job : Jobs \cup {NoJob},
              age : Ages]

Absent == [kind |-> "none", token |-> 0, job |-> NoJob, age |-> 0]
Unreadable == [kind |-> "corrupt", token |-> 0, job |-> NoJob, age |-> 0]

Readable(l) == l.kind \in OwnerKinds

\* An owner id that names no job is classified like an unreadable job record.
ExternalJobState(l) ==
    IF l.job = NoJob THEN "corrupt" ELSE jobState[l.job]

Stale(l) == l.age >= StaleAge(l.kind)

-----------------------------------------------------------------------------
(* _reconcile_locked: what every acquire, and the reconcile command, drops. *)
\* Mutants: the pending cleanup is overlooked; only finished jobs are dropped.
ReclaimableUnflagged(l) ==
    \/ l.kind = "external_job" /\ ExternalJobState(l) \in {"terminal", "terminal_cleanup_pending"}
    \/ l.kind \in AgeKinds /\ Stale(l)
ReclaimableIfFinished(l) == l.kind = "external_job" /\ ExternalJobState(l) = "terminal"

Reclaimable(l) ==
    \/ l.kind = "external_job" /\ ExternalJobState(l) = "terminal"
    \/ l.kind \in AgeKinds /\ Stale(l)

Reconciled == [p \in Paths |-> IF Reclaimable(leases[p]) THEN Absent ELSE leases[p]]

Overlap(p, q) == p = q \/ <<p, q>> \in Ancestor \/ <<q, p>> \in Ancestor

\* Mutant: acquire looks at its own file only.
GrantableByOwnFile(ls, p) == ls[p].kind = "none"

\* A lease may be granted for p only when every file is readable and none
\* overlaps p; the path's own file is the case q = p.
Grantable(ls, p) ==
    \A q \in Paths : /\ ls[q].kind # "corrupt"
                     /\ Overlap(p, q) => ls[q].kind = "none"

TypeOK ==
    /\ leases \in [Paths -> LeaseFile]
    /\ issued \in 0 .. MaxTokens
    /\ jobState \in [Jobs -> ExternalStates]

Init ==
    /\ leases = [p \in Paths |-> Absent]
    /\ issued = 0
    /\ jobState = [j \in Jobs |-> "missing"]

-----------------------------------------------------------------------------
(* WriterLeaseStore *)

Reconcile ==
    /\ leases' = Reconciled
    /\ UNCHANGED <<issued, jobState>>

Acquire(p, kind, owner) ==
    /\ Grantable(Reconciled, p)
    /\ issued < MaxTokens
    /\ issued' = issued + 1
    /\ leases' = [Reconciled EXCEPT ![p] =
                    [kind |-> kind, token |-> issued + 1, job |-> owner, age |-> 0]]
    /\ UNCHANGED jobState

\* writer_busy and writer_lease_corrupt: the reconciliation still happened.
AcquireRefused(p) ==
    /\ ~Grantable(Reconciled, p)
    /\ leases' = Reconciled
    /\ UNCHANGED <<issued, jobState>>

Holds(p, t) == Readable(leases[p]) /\ leases[p].token = t

Attach(t, j) ==
    \E p \in Paths :
        /\ Holds(p, t)
        /\ leases' = [leases EXCEPT ![p] =
                        [kind |-> "external_job", token |-> t, job |-> j, age |-> 0]]
        /\ UNCHANGED <<issued, jobState>>

Heartbeat(t) ==
    \E p \in Paths :
        /\ Holds(p, t)
        /\ leases' = [leases EXCEPT ![p].age = 0]
        /\ UNCHANGED <<issued, jobState>>

Release(t) ==
    \E p \in Paths :
        /\ Holds(p, t)
        /\ leases' = [leases EXCEPT ![p] = Absent]
        /\ UNCHANGED <<issued, jobState>>

\* The operator's acknowledged recovery; cleanupAck is the acknowledgement
\* that also admits a terminal job whose provider cleanup is unconfirmed.
Recoverable(l, cleanupAck) ==
    /\ l.kind = "external_job"
    /\ \/ ExternalJobState(l) \in {"missing", "corrupt"}
       \/ cleanupAck /\ ExternalJobState(l) = "terminal_cleanup_pending"

Recover(p, cleanupAck) ==
    /\ Recoverable(leases[p], cleanupAck)
    /\ leases' = [leases EXCEPT ![p] = Absent]
    /\ UNCHANGED <<issued, jobState>>

-----------------------------------------------------------------------------
(* Environment *)

GrowOlder(p) ==
    /\ Readable(leases[p]) /\ leases[p].age < 2
    /\ leases' = [leases EXCEPT ![p].age = @ + 1]
    /\ UNCHANGED <<issued, jobState>>

Damage(p) ==
    /\ Readable(leases[p])
    /\ leases' = [leases EXCEPT ![p] = Unreadable]
    /\ UNCHANGED <<issued, jobState>>

JobMoves ==
    /\ jobState' \in [Jobs -> ExternalStates]
    /\ UNCHANGED <<leases, issued>>

Step ==
    \/ Reconcile
    \/ \E p \in Paths, kind \in AgeKinds \cup {"other"} : Acquire(p, kind, NoJob)
    \/ \E p \in Paths, owner \in Jobs \cup {NoJob} : Acquire(p, "external_job", owner)
    \/ \E p \in Paths : AcquireRefused(p)
    \/ \E t \in 1 .. MaxTokens, j \in Jobs : Attach(t, j)
    \/ \E t \in 1 .. MaxTokens : Heartbeat(t) \/ Release(t)
    \/ \E p \in Paths, cleanupAck \in BOOLEAN : Recover(p, cleanupAck)
    \/ \E p \in Paths : GrowOlder(p) \/ Damage(p)

Next == Step \/ JobMoves

Spec == Init /\ [][Next]_vars

\* Time passes, and somebody who wants the workspace retries acquire (or the
\* operator runs reconcile): both drop what is reclaimable.
Fairness ==
    /\ \A p \in Paths : WF_vars(GrowOlder(p))
    /\ WF_vars(Reconcile)

FairSpec == Spec /\ Fairness

-----------------------------------------------------------------------------
(* Properties *)

\* Two lease files never cover a common directory, whatever order acquires,
\* recoveries, late releases and damage happen in: the nested-workspace scan
\* of acquire and the reconciliation in front of it leave at most one writer.
NoOverlap ==
    \A p, q \in Paths :
        leases[p].kind # "none" /\ leases[q].kind # "none" /\ Overlap(p, q) => p = q

\* Every readable lease has a token of its own, so a late release or heartbeat
\* by a holder whose lease was reclaimed cannot reach the lease of the next
\* owner ("never another owner").
TokensDistinct ==
    \A p, q \in Paths :
        Readable(leases[p]) /\ Readable(leases[q]) /\ leases[p].token = leases[q].token
            => p = q

\* While any lease file is unreadable nobody is granted a lease anywhere, not
\* even for an unrelated workspace: the unknown owner may cover it.
FailClosed ==
    [][(\E p \in Paths : leases[p].kind = "corrupt")
          => \A q \in Paths : leases[q].kind = "none" => leases'[q].kind = "none"]_vars

\* The lease of an external job whose record is nonterminal, missing, corrupt
\* or still waiting for provider cleanup changes hands for nobody else's
\* acquire: it leaves only by its own token, by acknowledged recovery or by
\* damage to the file.
ExternalNeverReclaimed ==
    [][\A p \in Paths :
          /\ leases[p].kind = "external_job"
          /\ ExternalJobState(leases[p]) # "terminal"
          => \/ Readable(leases'[p]) /\ leases'[p].token = leases[p].token
             \/ leases'[p].kind = "corrupt"
             \/ Release(leases[p].token)
             \/ Recover(p, TRUE)]_vars

\* A crashed controller never strands a workspace: a pending, local or
\* root-integration lease that stays for ever is one that is heartbeaten for
\* ever.
AbandonedReclaimed ==
    \A p \in Paths :
        <>[](leases[p].kind \in AgeKinds)
            => []<><<Heartbeat(leases[p].token)>>_vars

=============================================================================
