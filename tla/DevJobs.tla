------------------------------- MODULE DevJobs -------------------------------
(***************************************************************************)
(* A development job and the writer lease it owns: agent_start acquires a  *)
(* pending lease, creates the durable job, hands the lease over to it and  *)
(* runs it (server.py, start_claude_job); the job's lifecycle gives the    *)
(* lease back by token; everybody else's acquire drops what the job's two  *)
(* files say is over.                                                      *)
(*                                                                         *)
(* JobLifecycle is composed with WriterLease through the state of the job  *)
(* that _external_job_state reads, an expression over the job's files.     *)
(* JobLifecycle's steps leave the leases alone except the two that release *)
(* the writer lease.                                                       *)
(***************************************************************************)
EXTENDS Naturals

CONSTANTS
    Worker, Watchdog, Reapers, Stoppers, Retriers, Home, Backends, NoActor,
    MaxFaults,                                  \* of JobLifecycle
    Paths, Ancestor, Job, NoJob, MaxTokens,     \* of WriterLease
    Workspace                                   \* the job's directory

ASSUME WorkspaceAssumption == Workspace \in Paths

VARIABLES
    status, claim, cleanup, result, lock, provider, session, handle, deadline, pc,
    verdict, evidence, backend, faults,
    leases, issued,
    phase,      \* how far agent_start got
    token       \* the writer_lease_token of the request, then of meta.json

jobVars == <<status, claim, cleanup, result, lock, provider, session, handle, deadline,
             pc, verdict, evidence, backend, faults>>
leaseVars == <<leases, issued>>
startVars == <<phase, token>>
devVars == <<jobVars, leaseVars, startVars>>

J == INSTANCE JobLifecycle

\* Mutants: whatever is not running is over; a stop is not a terminal status.
NotRunningIsOver ==
    IF phase \in {"asked", "acquired", "refused"} THEN "missing"
    ELSE IF status = "running" THEN "nonterminal"
    ELSE IF cleanup = "pending" THEN "terminal_cleanup_pending" ELSE "terminal"
StopIsNotOver ==
    IF phase \in {"asked", "acquired", "refused"} THEN "missing"
    ELSE IF ~J!Collectable \/ status = "stopped" THEN "nonterminal"
    ELSE IF cleanup = "pending" THEN "terminal_cleanup_pending" ELSE "terminal"

\* _external_job_state, read off the job's directory.
ExternalState ==
    IF phase \in {"asked", "acquired", "refused"} THEN "missing"
    ELSE IF ~J!Collectable THEN "nonterminal"
    ELSE IF cleanup = "pending" THEN "terminal_cleanup_pending" ELSE "terminal"

L == INSTANCE WriterLease WITH Jobs <- {Job},
                               jobState <- [j \in {Job} |-> ExternalState]

\* What the two components ask of their constants.
ASSUME LifecycleAssumptions ==
    J!ActorsAssumption /\ J!BackendsAssumption /\ J!MaxFaultsAssumption
ASSUME LeaseAssumptions ==
    L!AncestorAssumption /\ L!NoJobAssumption /\ L!MaxTokensAssumption

-----------------------------------------------------------------------------
\* A start that fails is "refused" before and "orphaned" after the job exists.
Phases == {"asked", "acquired", "created", "attached", "running", "refused",
           "orphaned"}
StartGone == IF phase = "acquired" THEN "refused" ELSE "orphaned"

TypeOK ==
    /\ J!TypeOK
    /\ L!TypeOK
    /\ phase \in Phases
    /\ token \in 0 .. MaxTokens

Init ==
    /\ J!Init
    /\ leases = [p \in Paths |-> L!Absent]
    /\ issued = 0
    /\ phase = "asked"
    /\ token = 0

\* release: by token, and nothing happens if it is not there.
GiveBack ==
    \/ \E p \in Paths : /\ L!Holds(p, token)
                        /\ leases' = [leases EXCEPT ![p] = L!Absent]
    \/ ~(\E p \in Paths : L!Holds(p, token)) /\ UNCHANGED leases

-----------------------------------------------------------------------------
(* agent_start for a development task *)

StartAcquires ==
    /\ phase = "asked"
    /\ token' = issued + 1
    /\ phase' = "acquired"
    /\ UNCHANGED jobVars
    /\ L!Acquire(Workspace, "pending_dev", NoJob)

\* create_job: from here on the job can be seen, and nothing else has moved.
CreateJob ==
    /\ phase = "acquired"
    /\ phase' = "created"
    /\ UNCHANGED <<jobVars, leaseVars, token>>

\* Mutant: the lease is written to its path whoever's it is by now.
AttachByPath ==
    /\ phase = "created"
    /\ phase' = "attached"
    /\ leases' = [leases EXCEPT ![Workspace] =
                    [kind |-> "external_job", token |-> token, job |-> Job, age |-> 0]]
    /\ UNCHANGED <<jobVars, issued, token>>

\* _attach_writer_lease writes the lease first ...
AttachLease ==
    /\ phase = "created"
    /\ phase' = "attached"
    /\ UNCHANGED <<jobVars, token>>
    /\ L!Attach(token, Job)

\* Mutant: a lost lease does not stop the start.
AttachLossIgnored ==
    /\ phase = "created"
    /\ ~\E p \in Paths : L!Holds(p, token)
    /\ phase' = "attached"
    /\ UNCHANGED <<jobVars, leaseVars, token>>

\* ... and fails the start when somebody reclaimed the pending lease meanwhile.
AttachFails ==
    /\ phase = "created"
    /\ ~\E p \in Paths : L!Holds(p, token)
    /\ phase' = StartGone
    /\ UNCHANGED <<jobVars, leaseVars, token>>

\* The token reaches meta.json; the adapter launches the provider next.
RecordToken ==
    /\ phase = "attached"
    /\ phase' = "running"
    /\ UNCHANGED <<jobVars, leaseVars, token>>

\* The finally of _handle gives a lease back that no job took over.
StartFails ==
    /\ phase = "acquired"
    /\ phase' = StartGone
    /\ GiveBack
    /\ UNCHANGED <<jobVars, issued, token>>

\* The server dies while it starts the job, which it does once.
StartCrashes ==
    /\ phase \in {"acquired", "created", "attached"}
    /\ phase' = StartGone
    /\ UNCHANGED <<jobVars, leaseVars, token>>

-----------------------------------------------------------------------------
(* The running job *)

Releases ==
    /\ phase = "running"
    /\ \/ \E a \in J!Actors : J!ReleaseLease(a)
       \/ \E t \in Retriers : J!RetryReleasesLease(t)
    /\ GiveBack
    /\ UNCHANGED <<issued, startVars>>

LifecycleStep(a) ==
    \/ J!DeadlineStep(a) \/ J!StopStep(a)
    \/ J!SetResultRejected(a) \/ J!SetResult(a) \/ J!PublishStatus(a)
    \/ J!MarkCleanupPending(a) \/ J!RecordCleanupFlags(a)
    \/ J!RetryRequested(a) \/ J!RecordTerminalCleanupRetry(a) \/ J!RecordRetryFlags(a)
    \/ \E seen \in J!Seen : J!RetryCancel(a, seen)

JobStep ==
    /\ phase = "running"
    /\ \/ J!WorkerStep
       \/ \E a \in J!Actors : LifecycleStep(a)
       \/ J!Environment
    /\ UNCHANGED <<leaseVars, startVars>>

-----------------------------------------------------------------------------
(* Other writers and the operator.  The age of a job's own lease is never    *)
(* looked at, so only leases of the aged kinds grow older here.              *)

OtherWriter ==
    /\ UNCHANGED <<jobVars, startVars>>
    /\ \/ L!Reconcile
       \/ \E p \in Paths : L!Acquire(p, "local", NoJob) \/ L!AcquireRefused(p)
       \/ \E t \in 1 .. MaxTokens : t # token /\ L!Release(t)
       \/ \E p \in Paths, ack \in BOOLEAN : L!Recover(p, ack)
       \/ \E p \in Paths : leases[p].kind \in L!AgeKinds /\ L!GrowOlder(p)

Start == \/ StartAcquires \/ CreateJob \/ AttachLease \/ AttachFails
         \/ RecordToken \/ StartFails \/ StartCrashes

Next == Start \/ JobStep \/ Releases \/ OtherWriter

Spec == Init /\ [][Next]_devVars

\* The fairness of JobLifecycle for whoever is publishing, and a next writer
\* that keeps asking for the workspace.
Publishes(a) ==
    /\ phase = "running"
    /\ \/ J!SetResultRejected(a) \/ J!SetResult(a) \/ J!PublishStatus(a)
       \/ J!MarkCleanupPending(a) \/ J!RecordCleanupFlags(a)
    /\ UNCHANGED <<leaseVars, startVars>>

Fairness ==
    /\ \A a \in J!Actors : WF_devVars(Publishes(a))
    /\ WF_devVars(Releases)
    /\ WF_devVars(UNCHANGED <<jobVars, startVars>> /\ L!Reconcile)

FairSpec == Spec /\ Fairness

-----------------------------------------------------------------------------
(* Properties *)

Attached ==
    /\ leases[Workspace].kind = "external_job"
    /\ leases[Workspace].token = token

Intruder == \E p \in Paths : /\ L!Overlap(Workspace, p)
                             /\ L!Readable(leases[p])
                             /\ leases[p].token # token

\* A cleanup that the job's files call confirmed is the truth where the
\* evidence is gathered after the job was marked, as for an ACP child: the
\* lease that goes with it leaves nobody behind.
ConfirmedMeansQuiet == J!ConfirmedMeansQuiet

\* From launch until its result can be collected a development job holds its
\* workspace: no crash between attach and metadata, no slow start whose
\* pending lease was reclaimed, no recovery and no other writer's acquire
\* leaves a job running without the lease it was admitted with.
LeaseUntilResult ==
    phase = "running" /\ ~J!Collectable => Attached

\* Another writer gets a workspace in which the job's provider still writes
\* only after a stop, or after a result that admits it could not confirm the
\* cleanup: completion, failure and deadline with confirmed cleanup are safe
\* in every interleaving with acquires, recoveries and crashes.
IntruderOnlyAfterUnproven ==
    provider = "writing" /\ Intruder /\ phase = "running"
        => status = "stopped" \/ result.cleanup = "unconfirmed"

\* The lease of a job flagged cleanup_pending outlives every acquire and every
\* late publisher without proof: it goes with somebody's confirmed cleanup or
\* by acknowledged recovery.
FlaggedLeaseRetained ==
    [][phase = "running" /\ Attached /\ cleanup = "pending" /\ ~Attached'
          => \/ \E a \in J!Actors : pc[a] \in {"lease", "retryLease"}
                                    /\ evidence[a] = "confirmed" /\ pc'[a] # pc[a]
             \/ L!Recover(Workspace, TRUE)]_devVars

\* A job whose cleanup nobody doubts gives its workspace up for the next
\* writer even if the publisher dies before it releases the lease, or a stop
\* finds a result that is not its own and leaves the lease alone.
LeaseFreedOrFlagged ==
    phase = "running" /\ J!Collectable /\ cleanup = "clear"
        ~> ~Attached \/ cleanup = "pending"

\* Seen through _external_job_state the composition is the lease store alone:
\* no step of a job changes a lease in a way the store has no operation for,
\* and a token the job kept too long reaches nobody's lease but its own.
ImplementsWriterLease == L!Spec

\* Unknown process state is no proof of death: from the moment a job has a
\* result with unconfirmed cleanup its lease goes only with a retry that
\* confirmed it or by acknowledged recovery.
RetainedUntilConfirmed ==
    [][phase = "running" /\ Attached /\ result.cleanup = "unconfirmed" /\ ~Attached'
          => \/ \E t \in Retriers : J!RetryReleasesLease(t)
             \/ L!Recover(Workspace, TRUE)]_devVars
=============================================================================
