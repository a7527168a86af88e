--------------------------- MODULE DevJobs_proofs ---------------------------
(***************************************************************************)
(* A development job and its lease, for any paths, any callers in any      *)
(* processes and any number of faults.  The job's steps are those of       *)
(* JobLifecycle and its use of the lease files is that of WriterLease, so  *)
(* what is proved of these two holds of the composition; they are          *)
(* instantiated here once more with their proofs.                          *)
(***************************************************************************)
EXTENDS DevJobs, TLAPS

Lifecycle == INSTANCE JobLifecycle_proofs
Store == INSTANCE WriterLease_proofs
            WITH Jobs <- {Job}, jobState <- [j \in {Job} |-> ExternalState]

-----------------------------------------------------------------------------
(* The job is a job                                                        *)

\* Two instances of one module with the same parameters: their definitions
\* expand to the same formula.
LEMMA SameJobInit == J!Init => Lifecycle!Init
  BY DEF J!Init, Lifecycle!Init, J!NoResult, Lifecycle!NoResult, J!Actors, Lifecycle!Actors

LEMMA SameJobNext == [J!Next]_(J!vars) => [Lifecycle!Next]_(Lifecycle!vars)
  BY Z3
     DEF J!Next, J!WorkerStep, J!DeadlineStep, J!PublishStep, J!StopStep, J!RetryStep,
         J!Environment, J!vars, J!meta, J!local, J!world, J!LaunchSucceeds,
         J!RecordSession, J!StartMonitor, J!AwaitInput, J!MonitorYields, J!LaunchFails,
         J!RollBackLaunch, J!WorkerFails, J!TurnEnds, J!DeadlineSeen, J!ReapScan,
         J!ClaimTerminalization, J!CancelProvider, J!SetResultRejected, J!SetResult,
         J!PublishStatus, J!ReleaseLease, J!MarkCleanupPending, J!RecordCleanupFlags,
         J!StopRequested, J!StopMark, J!SetStoppedResult, J!StopCancel, J!StopTerminate,
         J!RetryRequested, J!RecordTerminalCleanupRetry, J!RecordRetryFlags,
         J!RetryReleasesLease, J!RetryCancel, J!TimePasses, J!WatchdogDismissed, J!Crash,
         J!WriteFails, J!Actors, J!Open, J!Terminal, J!Goto, J!ProviderAfter, J!OwnerOf,
         J!Rest, J!Rejected, J!SetStages, J!AfterLease, J!LeaseDone, J!Processes, J!Seen,
         Lifecycle!Next, Lifecycle!WorkerStep, Lifecycle!DeadlineStep,
         Lifecycle!PublishStep, Lifecycle!StopStep, Lifecycle!RetryStep,
         Lifecycle!Environment, Lifecycle!vars, Lifecycle!meta, Lifecycle!local,
         Lifecycle!world, Lifecycle!LaunchSucceeds, Lifecycle!RecordSession,
         Lifecycle!StartMonitor, Lifecycle!AwaitInput, Lifecycle!MonitorYields,
         Lifecycle!LaunchFails, Lifecycle!RollBackLaunch, Lifecycle!WorkerFails,
         Lifecycle!TurnEnds, Lifecycle!DeadlineSeen, Lifecycle!ReapScan,
         Lifecycle!ClaimTerminalization, Lifecycle!CancelProvider,
         Lifecycle!SetResultRejected, Lifecycle!SetResult, Lifecycle!PublishStatus,
         Lifecycle!ReleaseLease, Lifecycle!MarkCleanupPending,
         Lifecycle!RecordCleanupFlags, Lifecycle!StopRequested, Lifecycle!StopMark,
         Lifecycle!SetStoppedResult, Lifecycle!StopCancel, Lifecycle!StopTerminate,
         Lifecycle!RetryRequested, Lifecycle!RecordTerminalCleanupRetry,
         Lifecycle!RecordRetryFlags, Lifecycle!RetryReleasesLease, Lifecycle!RetryCancel,
         Lifecycle!TimePasses, Lifecycle!WatchdogDismissed, Lifecycle!Crash,
         Lifecycle!WriteFails, Lifecycle!Actors, Lifecycle!Open, Lifecycle!Terminal,
         Lifecycle!Goto, Lifecycle!ProviderAfter, Lifecycle!OwnerOf, Lifecycle!Rest,
         Lifecycle!Rejected, Lifecycle!SetStages, Lifecycle!AfterLease,
         Lifecycle!LeaseDone, Lifecycle!Processes, Lifecycle!Seen

LEMMA JobSteps == [Next]_devVars => [J!Next]_(J!vars)
<1> SUFFICES ASSUME [Next]_devVars PROVE [J!Next]_(J!vars)
  OBVIOUS
<1>1. CASE UNCHANGED jobVars
  BY <1>1 DEF jobVars, J!vars, J!meta, J!local, J!world
<1>2. CASE JobStep
  BY <1>2 DEF JobStep, LifecycleStep, J!Next, J!PublishStep, J!RetryStep
<1>3. CASE Releases
  BY <1>3 DEF Releases, J!Next, J!PublishStep, J!RetryStep, J!Actors
<1> QED
  BY <1>1, <1>2, <1>3
     DEF Next, devVars, Start, StartAcquires, CreateJob, AttachLease, AttachFails, RecordToken,
         StartFails, StartCrashes, OtherWriter

\* Between acquire and hand-over nothing of the job moves, and what moves it
\* afterwards are the steps of JobLifecycle.
THEOREM IsALifecycle == Spec => J!Spec
<1>1. Init => J!Init
  BY DEF Init
<1> QED BY <1>1, JobSteps, PTL DEF Spec, J!Spec

JobInv == Lifecycle!IInv /\ Lifecycle!FlagInv /\ Lifecycle!EndInv

LEMMA JobInvariance == Spec => []JobInv
<1>1. Init => J!Init
  BY DEF Init
<1>2. Lifecycle!Init => JobInv
  BY LifecycleAssumptions, Lifecycle!InitIInv, Lifecycle!InitFlags, Lifecycle!InitEnd
     DEF JobInv, J!Actors, Lifecycle!Actors
<1>3. JobInv /\ [Lifecycle!Next]_(Lifecycle!vars) => JobInv'
  BY LifecycleAssumptions, Lifecycle!NextIInv, Lifecycle!NextFlags, Lifecycle!NextEnd
     DEF JobInv, J!Actors, Lifecycle!Actors
<1> QED
  BY <1>1, <1>2, <1>3, SameJobInit, SameJobNext, JobSteps, PTL DEF Spec

-----------------------------------------------------------------------------
(* The lease is used as the store allows                                   *)

\* The token of the job is one that was issued to it.
TokenIsIssued ==
    /\ phase \in Phases
    /\ phase = "asked" => token = 0
    /\ phase # "asked" => token \in 1 .. issued

\* Nothing happens to a job that does not run.
NotRunYet == phase # "running" => status = "running"

\* The job's token is to be found at its workspace, if at all.
TokenAtWorkspace ==
    phase # "asked" => \A p \in Paths : L!Holds(p, token) => p = Workspace

\* The leases of external jobs are the job's.
OwnLeases == \A p \in Paths : leases[p].kind = "external_job" => leases[p].job = Job

\* Once attached, the lease names the job until the job can be collected.
Held == phase \in {"attached", "running"} /\ ~J!Collectable => Attached

StoreInv ==
    /\ leases \in [Paths -> L!LeaseFile]
    /\ issued \in 0 .. MaxTokens
    /\ L!NoOverlap /\ L!TokensDistinct
    /\ \A p \in Paths : leases[p].token <= issued

DevInv == TokenIsIssued /\ NotRunYet /\ TokenAtWorkspace /\ OwnLeases /\ Held

LEMMA OneState ==
    ExternalState \in L!ExternalStates /\ ExternalState' \in L!ExternalStates
  BY DEF ExternalState, L!ExternalStates

\* What leaves the leases alone is a move of the job in the store's eyes.
LEMMA JobMoves == ASSUME UNCHANGED leaseVars PROVE L!JobMoves
  BY OneState DEF leaseVars, L!JobMoves

\* A job that was not looked at stays what it was for the store.
LEMMA SameState ==
    ASSUME UNCHANGED <<status, cleanup, result>>,
           UNCHANGED phase \/ (phase = "asked" /\ phase' = "acquired")
                           \/ (phase = "acquired" /\ phase' = "refused")
    PROVE  ExternalState' = ExternalState
  BY DEF ExternalState, J!Collectable, J!Exists, J!Terminal

LEMMA GiveBackReleases ==
    ASSUME GiveBack, ExternalState' = ExternalState, UNCHANGED issued
    PROVE  L!Release(token) \/ UNCHANGED leases
  BY DEF GiveBack, L!Release

LEMMA StoreSteps ==
    ASSUME TokenIsIssued, StoreInv, [Next]_devVars
    PROVE  [L!Next]_(L!vars)
<1>0. phase # "asked" => token \in 1 .. MaxTokens
  BY LeaseAssumptions DEF TokenIsIssued, StoreInv
<1>1. CASE UNCHANGED leaseVars
  BY <1>1, JobMoves DEF L!Next
<1>2. CASE StartAcquires
  BY <1>2, WorkspaceAssumption DEF StartAcquires, L!Next, L!Step, L!AgeKinds
<1>3. CASE AttachLease
  BY <1>0, <1>3 DEF AttachLease, L!Next, L!Step
<1>4. CASE StartFails
  <2>1. ExternalState' = ExternalState
    BY <1>4, SameState DEF StartFails, StartGone, jobVars
  <2> QED
    BY <1>0, <1>1, <1>4, <2>1, GiveBackReleases DEF StartFails, leaseVars, L!Next, L!Step
<1>5. CASE Releases
  <2>1. UNCHANGED <<status, cleanup, result, phase>>
    BY <1>5 DEF Releases, startVars, J!ReleaseLease, J!RetryReleasesLease, J!meta
  <2> QED
    BY <1>0, <1>1, <1>5, <2>1, SameState, GiveBackReleases
       DEF Releases, leaseVars, L!Next, L!Step
<1>6. CASE OtherWriter
  BY <1>6 DEF OtherWriter, L!Next, L!Step, L!AgeKinds
<1> QED
  BY <1>1, <1>2, <1>3, <1>4, <1>5, <1>6
     DEF Next, devVars, Start, CreateJob, AttachFails, RecordToken, StartCrashes, JobStep

LEMMA SameStoreNext == [L!Next]_(L!vars) => [Store!Next]_(Store!vars)
  BY DEF L!Next, L!Step, L!JobMoves, L!vars, L!Reconcile, L!Acquire, L!AcquireRefused,
         L!Attach, L!Heartbeat, L!Release, L!Recover, L!GrowOlder, L!Damage, L!Holds,
         L!Recoverable, L!Grantable, L!Reconciled, L!Reclaimable, L!Overlap, L!Stale,
         L!StaleAge, L!ExternalJobState, L!Readable, L!Absent, L!Unreadable,
         L!ExternalStates, L!AgeKinds, L!OwnerKinds, Store!Next, Store!Step,
         Store!JobMoves, Store!vars, Store!Reconcile, Store!Acquire, Store!AcquireRefused,
         Store!Attach, Store!Heartbeat, Store!Release, Store!Recover, Store!GrowOlder,
         Store!Damage, Store!Holds, Store!Recoverable, Store!Grantable, Store!Reconciled,
         Store!Reclaimable, Store!Overlap, Store!Stale, Store!StaleAge,
         Store!ExternalJobState, Store!Readable, Store!Absent, Store!Unreadable,
         Store!ExternalStates, Store!AgeKinds, Store!OwnerKinds

LEMMA SameStoreInv == (StoreInv <=> Store!IInv) /\ (StoreInv <=> Store!IInv)'
  BY OneState
     DEF StoreInv, Store!IInv, Store!TypeOK, Store!TokensIssued, L!LeaseFile, Store!LeaseFile,
         L!NoOverlap, Store!NoOverlap, L!TokensDistinct, Store!TokensDistinct, L!Overlap,
         Store!Overlap, L!Readable, Store!Readable, L!AgeKinds, Store!AgeKinds, L!OwnerKinds,
         Store!OwnerKinds, L!Ages, Store!Ages, L!ExternalStates, Store!ExternalStates

LEMMA KeepsStore == ASSUME TokenIsIssued, StoreInv, [Next]_devVars PROVE StoreInv'
  BY LeaseAssumptions, StoreSteps, SameStoreNext, SameStoreInv, Store!NextIInv

-----------------------------------------------------------------------------
(* The lease stays until the result                                        *)

LEMMA CollectableStays ==
    ASSUME JobInv, [Next]_devVars, J!Collectable PROVE J!Collectable'
<1>1. Lifecycle!Collectable
  BY DEF J!Collectable, J!Terminal, J!Exists, Lifecycle!Collectable, Lifecycle!Terminal,
         Lifecycle!Exists
<1>2. [Lifecycle!Next]_(Lifecycle!vars)
  BY JobSteps, SameJobNext
<1>3. /\ status \in Lifecycle!Terminal => status' = status
      /\ Lifecycle!Collectable => result'.outcome = result.outcome /\ result'.by = result.by
  BY <1>2, LifecycleAssumptions, Lifecycle!EndIsFinal DEF JobInv, J!Actors, Lifecycle!Actors
<1> QED
  BY <1>1, <1>3 DEF J!Collectable, J!Terminal, J!Exists, Lifecycle!Collectable,
                    Lifecycle!Terminal, Lifecycle!Exists

LEMMA ReleasesCollectable == ASSUME JobInv, Releases PROVE J!Collectable
<1>1. \A a \in Lifecycle!Actors :
         pc[a] \in {"lease", "retryMeta", "retryLease"} => Lifecycle!Collectable
  BY DEF JobInv, Lifecycle!EndInv, Lifecycle!Ended
<1>2. \E a \in Lifecycle!Actors : pc[a] \in {"lease", "retryLease"}
  BY DEF Releases, J!ReleaseLease, J!RetryReleasesLease, J!Actors, Lifecycle!Actors
<1> QED
  BY <1>1, <1>2 DEF J!Collectable, J!Terminal, J!Exists, Lifecycle!Collectable,
                    Lifecycle!Terminal, Lifecycle!Exists

\* Reconciliation keeps a lease or takes it; of a job that is not over it keeps it.
LEMMA Reconciling ==
    ASSUME StoreInv
    PROVE  /\ L!Reconciled \in [Paths -> L!LeaseFile]
           /\ \A p \in Paths : L!Reconciled[p] = leases[p] \/ L!Reconciled[p] = L!Absent
           /\ \A p \in Paths :
                 /\ leases[p].kind = "external_job" /\ leases[p].job = Job
                 /\ ExternalState \in {"nonterminal", "terminal_cleanup_pending"}
                 => L!Reconciled[p] = leases[p]
<1>1. /\ L!Absent \in L!LeaseFile /\ Job # NoJob
      /\ "external_job" \notin L!AgeKinds
  BY LeaseAssumptions DEF L!Absent, L!LeaseFile, L!Ages, L!AgeKinds
<1>2. \A p \in Paths : L!Reconciled[p] = IF L!Reclaimable(leases[p]) THEN L!Absent ELSE leases[p]
  BY DEF L!Reconciled
<1>3. L!Reconciled \in [Paths -> L!LeaseFile]
  BY <1>1 DEF L!Reconciled, StoreInv
<1> QED
  BY <1>1, <1>2, <1>3 DEF L!Reclaimable, L!ExternalJobState

\* With the lease of a job that is not finally over at the workspace, nobody
\* else gets the workspace but by acknowledged recovery.
LEMMA OthersKeepAttached ==
    ASSUME StoreInv, OwnLeases, OtherWriter, Attached,
           ExternalState \in {"nonterminal", "terminal_cleanup_pending"}
    PROVE  \/ leases'[Workspace] = leases[Workspace]
           \/ ExternalState = "terminal_cleanup_pending" /\ L!Recover(Workspace, TRUE)
<1>1. /\ leases[Workspace].kind = "external_job" /\ leases[Workspace].token = token
      /\ leases[Workspace].job = Job /\ Workspace \in Paths /\ Job # NoJob
  BY WorkspaceAssumption, LeaseAssumptions DEF OwnLeases, Attached
<1>2. L!Reconciled[Workspace] = leases[Workspace] /\ L!Reconciled \in [Paths -> L!LeaseFile]
  BY <1>1, Reconciling
<1>3. CASE L!Reconcile \/ \E p \in Paths : L!AcquireRefused(p)
  BY <1>2, <1>3 DEF L!Reconcile, L!AcquireRefused
<1>4. ASSUME NEW p \in Paths, L!Acquire(p, "local", NoJob)
      PROVE  leases'[Workspace] = leases[Workspace]
  <2>1. p # Workspace
    BY <1>1, <1>2, <1>4 DEF L!Acquire, L!Grantable, L!Overlap
  <2> QED BY <1>1, <1>2, <1>4, <2>1 DEF L!Acquire
<1>5. ASSUME NEW t \in 1 .. MaxTokens, t # token, L!Release(t)
      PROVE  leases'[Workspace] = leases[Workspace]
  BY <1>1, <1>5 DEF L!Release, L!Holds, StoreInv
<1>6. ASSUME NEW p \in Paths, NEW ack \in BOOLEAN, L!Recover(p, ack),
             leases'[Workspace] # leases[Workspace]
      PROVE  ExternalState = "terminal_cleanup_pending" /\ L!Recover(Workspace, TRUE)
  <2>1. p = Workspace
    BY <1>1, <1>6 DEF L!Recover, StoreInv
  <2>2. ack = TRUE /\ ExternalState = "terminal_cleanup_pending"
    BY <1>1, <1>6, <2>1 DEF L!Recover, L!Recoverable, L!ExternalJobState
  <2> QED BY <1>6, <2>1, <2>2
<1>7. ASSUME NEW p \in Paths, leases[p].kind \in L!AgeKinds, L!GrowOlder(p)
      PROVE  leases'[Workspace] = leases[Workspace]
  BY <1>1, <1>7 DEF L!GrowOlder, L!AgeKinds, StoreInv
<1> QED BY <1>3, <1>4, <1>5, <1>6, <1>7 DEF OtherWriter

\* Other writers take leases of their own kinds only.
LEMMA OthersKeepOwn == ASSUME StoreInv, OwnLeases, OtherWriter PROVE OwnLeases'
<1>1. \A p \in Paths : L!Reconciled[p] = leases[p] \/ L!Reconciled[p] = L!Absent
  BY Reconciling
<1>2. L!Absent.kind = "none" /\ L!Reconciled \in [Paths -> L!LeaseFile]
  BY Reconciling DEF L!Absent
<1>3. CASE L!Reconcile \/ \E p \in Paths : L!AcquireRefused(p)
  BY <1>1, <1>2, <1>3 DEF OwnLeases, L!Reconcile, L!AcquireRefused
<1>4. ASSUME NEW p \in Paths, L!Acquire(p, "local", NoJob) PROVE OwnLeases'
  BY <1>1, <1>2, <1>4 DEF OwnLeases, L!Acquire
<1>5. ASSUME NEW t \in 1 .. MaxTokens, L!Release(t) PROVE OwnLeases'
  BY <1>2, <1>5 DEF OwnLeases, L!Release, StoreInv
<1>6. ASSUME NEW p \in Paths, NEW ack \in BOOLEAN, L!Recover(p, ack) PROVE OwnLeases'
  BY <1>2, <1>6 DEF OwnLeases, L!Recover, StoreInv
<1>7. ASSUME NEW p \in Paths, L!GrowOlder(p) PROVE OwnLeases'
  BY <1>7 DEF OwnLeases, L!GrowOlder, StoreInv, L!LeaseFile
<1> QED BY <1>3, <1>4, <1>5, <1>6, <1>7 DEF OtherWriter

\* Other writers never hold the job's token.
LEMMA OthersKeepToken ==
    ASSUME StoreInv, DevInv, OtherWriter, phase # "asked", NEW q \in Paths,
           L!Holds(q, token)'
    PROVE  q = Workspace
<1>0. token' = token /\ phase' = phase /\ token \in 1 .. issued /\ issued \in Nat
  BY LeaseAssumptions DEF OtherWriter, startVars, DevInv, TokenIsIssued, StoreInv
<1>1. L!Absent.token = 0 /\ ~L!Readable(L!Absent)
  BY DEF L!Absent, L!Readable, L!OwnerKinds, L!AgeKinds
<1>2. \A p \in Paths : L!Reconciled[p] = leases[p] \/ L!Reconciled[p] = L!Absent
  BY Reconciling
<1>3. SUFFICES ASSUME ~L!Holds(q, token) PROVE FALSE
  BY DEF DevInv, TokenAtWorkspace
<1>4. leases'[q] # leases[q] /\ leases'[q] # L!Absent
  BY <1>0, <1>1, <1>3 DEF L!Holds
<1>5. CASE L!Reconcile \/ \E p \in Paths : L!AcquireRefused(p)
  BY <1>2, <1>4, <1>5 DEF L!Reconcile, L!AcquireRefused
<1>6. ASSUME NEW p \in Paths, L!Acquire(p, "local", NoJob) PROVE FALSE
  <2>1. L!Reconciled \in [Paths -> L!LeaseFile]
    BY Reconciling
  <2>2. q = p
    BY <1>2, <1>4, <1>6, <2>1 DEF L!Acquire
  <2>3. leases'[q].token = issued + 1
    BY <1>6, <2>1, <2>2 DEF L!Acquire
  <2> QED BY <1>0, <2>3 DEF L!Holds
<1>7. ASSUME NEW t \in 1 .. MaxTokens, L!Release(t) PROVE FALSE
  BY <1>4, <1>7 DEF L!Release, StoreInv
<1>8. ASSUME NEW p \in Paths, NEW ack \in BOOLEAN, L!Recover(p, ack) PROVE FALSE
  BY <1>4, <1>8 DEF L!Recover, StoreInv
<1>9. ASSUME NEW p \in Paths, L!GrowOlder(p) PROVE FALSE
  <2>1. leases'[q].token = leases[q].token /\ leases'[q].kind = leases[q].kind
    BY <1>9 DEF L!GrowOlder, StoreInv, L!LeaseFile
  <2> QED BY <1>0, <1>3, <2>1 DEF L!Holds, L!Readable
<1> QED BY <1>5, <1>6, <1>7, <1>8, <1>9 DEF OtherWriter

\* A release takes the job's lease away and leaves every other file alone.
LEMMA GivenBack ==
    ASSUME StoreInv, GiveBack
    PROVE  \A p \in Paths : leases'[p] = leases[p] \/ leases'[p] = L!Absent
  BY DEF GiveBack, StoreInv

LEMMA KeepsDev == ASSUME JobInv, StoreInv, DevInv, [Next]_devVars PROVE DevInv'
<1> USE DEF DevInv, TokenIsIssued, NotRunYet, TokenAtWorkspace, OwnLeases, Held, Attached
<1>0. /\ issued \in Nat /\ leases \in [Paths -> L!LeaseFile] /\ Workspace \in Paths
      /\ \A p \in Paths : leases[p].token <= issued
      /\ L!Absent.token = 0 /\ L!Absent.kind = "none" /\ ~L!Readable(L!Absent)
  BY LeaseAssumptions, WorkspaceAssumption
     DEF StoreInv, L!Absent, L!Readable, L!OwnerKinds, L!AgeKinds
<1>c. J!Collectable => J!Collectable'
  BY CollectableStays
<1>n. UNCHANGED jobVars => UNCHANGED <<status, J!Collectable>>
  BY DEF jobVars, J!Collectable, J!Terminal, J!Exists
<1>1. CASE StartAcquires
  <2>1. /\ phase = "asked" /\ phase' = "acquired" /\ token' = issued + 1 /\ issued' = issued + 1
        /\ status' = status
        /\ L!Reconciled \in [Paths -> L!LeaseFile]
        /\ leases' = [L!Reconciled EXCEPT ![Workspace] =
               [kind |-> "pending_dev", token |-> issued + 1, job |-> NoJob, age |-> 0]]
    BY <1>1, Reconciling DEF StartAcquires, L!Acquire, jobVars
  <2>2. \A p \in Paths : L!Reconciled[p].token <= issued
    BY <1>0, Reconciling
  <2>3. TokenAtWorkspace'
    BY <1>0, <2>1, <2>2 DEF L!Holds
  <2>4. OwnLeases'
    BY <1>0, <2>1, Reconciling
  <2> QED BY <1>0, <2>1, <2>3, <2>4 DEF Phases
<1>2. CASE CreateJob \/ AttachFails \/ RecordToken \/ StartCrashes \/ UNCHANGED devVars
  <2>1. /\ UNCHANGED <<leases, issued, token, status>> /\ J!Collectable' = J!Collectable
        /\ phase' = "attached" => phase = "attached"
        /\ phase' = "running" => phase \in {"attached", "running"}
        /\ phase = "running" => phase' = "running"
        /\ phase' = "asked" <=> phase = "asked"
        /\ phase' \in Phases
    BY <1>2, <1>n DEF CreateJob, AttachFails, RecordToken, StartCrashes, StartGone, devVars,
                      leaseVars, startVars, Phases
  <2> QED BY <2>1 DEF L!Holds
<1>3. CASE AttachLease
  <2>1. PICK p \in Paths :
           /\ L!Holds(p, token)
           /\ leases' = [leases EXCEPT ![p] =
                 [kind |-> "external_job", token |-> token, job |-> Job, age |-> 0]]
           /\ issued' = issued
    BY <1>3 DEF AttachLease, L!Attach
  <2>2. phase = "created" /\ phase' = "attached" /\ token' = token /\ status' = status
    BY <1>3, <1>n DEF AttachLease
  <2>3. p = Workspace
    BY <2>1, <2>2
  <2>4. leases'[Workspace] = [kind |-> "external_job", token |-> token, job |-> Job, age |-> 0]
        /\ \A q \in Paths : q # Workspace => leases'[q] = leases[q]
    BY <1>0, <2>1, <2>3
  <2> QED BY <2>1, <2>2, <2>4 DEF Phases, L!Holds
<1>4. CASE StartFails
  <2>1. /\ phase = "acquired" /\ phase' = "refused" /\ UNCHANGED <<issued, token, status>>
    BY <1>4, <1>n DEF StartFails, StartGone
  <2>2. TokenAtWorkspace' /\ OwnLeases'
    BY <1>0, <1>4, <2>1, GivenBack DEF StartFails, L!Holds
  <2> QED BY <2>1, <2>2 DEF Phases
<1>5. CASE JobStep
  BY <1>5, <1>c DEF JobStep, leaseVars, startVars, L!Holds
<1>6. CASE Releases
  <2>1. phase = "running" /\ UNCHANGED <<issued, token, phase>> /\ J!Collectable'
    BY <1>6, <1>c, ReleasesCollectable DEF Releases, startVars
  <2>2. TokenAtWorkspace' /\ OwnLeases'
    BY <1>0, <1>6, <2>1, GivenBack DEF Releases, L!Holds
  <2> QED BY <2>1, <2>2
<1>7. CASE OtherWriter
  <2>1. UNCHANGED <<token, phase, status>> /\ J!Collectable' = J!Collectable
    BY <1>7, <1>n DEF OtherWriter, startVars
  <2>2. issued' >= issued /\ issued' \in Nat
    BY <1>0, <1>7 DEF OtherWriter, L!Reconcile, L!Acquire, L!AcquireRefused, L!Release,
                      L!Recover, L!GrowOlder
  <2>3. TokenIsIssued' /\ NotRunYet'
    BY <1>0, <2>1, <2>2
  <2>4. TokenAtWorkspace'
    BY <1>7, <2>1, OthersKeepToken
  <2>5. Held'
    <3> SUFFICES ASSUME phase \in {"attached", "running"}, ~J!Collectable PROVE Attached'
      BY <2>1
    <3>1. Attached /\ ExternalState = "nonterminal"
      BY DEF ExternalState
    <3> QED BY <1>7, <2>1, <3>1, OthersKeepAttached
  <2>6. OwnLeases'
    BY <1>7, OthersKeepOwn
  <2> QED BY <2>3, <2>4, <2>5, <2>6
<1> QED
  BY <1>1, <1>2, <1>3, <1>4, <1>5, <1>6, <1>7 DEF Next, Start

IInv == JobInv /\ StoreInv /\ DevInv

LEMMA InitStore == Init => StoreInv /\ DevInv
<1> SUFFICES ASSUME Init PROVE StoreInv /\ DevInv
  OBVIOUS
<1>1. /\ leases = [p \in Paths |-> L!Absent] /\ issued = 0 /\ MaxTokens \in Nat
      /\ phase = "asked" /\ token = 0 /\ status = "running" /\ L!Absent \in L!LeaseFile
  BY LeaseAssumptions DEF Init, J!Init, L!Absent, L!LeaseFile, L!Ages
<1>2. L!Absent.token = 0 /\ L!Absent.kind = "none" /\ ~L!Readable(L!Absent)
  BY DEF L!Absent, L!Readable, L!OwnerKinds, L!AgeKinds
<1>3. StoreInv
  BY <1>1, <1>2 DEF StoreInv, L!NoOverlap, L!TokensDistinct
<1>4. DevInv
  BY <1>1, <1>2 DEF DevInv, TokenIsIssued, NotRunYet, TokenAtWorkspace, OwnLeases, Held, Phases
<1> QED BY <1>3, <1>4

\* The invariant: the lifecycle's, the store's and the one that relates them.
THEOREM Invariance == Spec => []IInv
<1>1. JobInv /\ StoreInv /\ DevInv /\ [Next]_devVars => StoreInv' /\ DevInv'
  BY KeepsStore, KeepsDev DEF DevInv
<1> QED BY <1>1, InitStore, JobInvariance, PTL DEF Spec, IInv

\* The record, the lease files and the progress of the start are well-formed.
THEOREM TypeCorrect == Spec => []TypeOK
<1>1. IInv => J!TypeOK
  BY DEF IInv, JobInv, Lifecycle!IInv, Lifecycle!TypeOK, J!TypeOK, Lifecycle!Results, J!Results,
         Lifecycle!Actors, J!Actors, Lifecycle!Stages, J!Stages, Lifecycle!Open, J!Open,
         Lifecycle!Terminal, J!Terminal, Lifecycle!Owners, J!Owners
<1>2. IInv => L!TypeOK
  BY OneState DEF IInv, StoreInv, L!TypeOK
<1>3. IInv => phase \in Phases /\ token \in 0 .. MaxTokens
  BY LeaseAssumptions DEF IInv, DevInv, StoreInv, TokenIsIssued
<1> QED BY <1>1, <1>2, <1>3, Invariance, PTL DEF TypeOK

\* From launch until its result can be collected a development job holds its
\* workspace, whoever else acquires, recovers, reclaims or crashes.
THEOREM HoldsUntilResult == Spec => []LeaseUntilResult
<1>1. IInv => LeaseUntilResult
  BY DEF IInv, DevInv, Held, LeaseUntilResult
<1> QED BY <1>1, Invariance, PTL

\* No step of a job changes a lease in a way the store has no operation for.
THEOREM UsesTheStore == Spec => ImplementsWriterLease
<1>1. Init => L!Init
  BY DEF Init, L!Init, ExternalState
<1>2. IInv /\ [Next]_devVars => [L!Next]_(L!vars)
  BY StoreSteps DEF IInv, DevInv
<1> QED
  BY <1>1, <1>2, Invariance, PTL DEF Spec, ImplementsWriterLease, L!Spec

\* Another writer shares a workspace with a writing provider only after a stop
\* or an unconfirmed cleanup, for any paths, callers and faults.
THEOREM IntruderNeedsDoubt == Spec => []IntruderOnlyAfterUnproven
<1>1. IInv => IntruderOnlyAfterUnproven
  <2> SUFFICES ASSUME IInv, provider = "writing", Intruder, phase = "running",
                      status # "stopped"
               PROVE  result.cleanup = "unconfirmed"
    BY DEF IntruderOnlyAfterUnproven
  <2>1. PICK p \in Paths :
           L!Overlap(Workspace, p) /\ L!Readable(leases[p]) /\ leases[p].token # token
    BY DEF Intruder
  <2>2. J!Collectable
    <3> SUFFICES ASSUME ~J!Collectable PROVE FALSE
      OBVIOUS
    <3>1. Attached /\ Workspace \in Paths
      BY WorkspaceAssumption DEF IInv, DevInv, Held
    <3>2. leases[p].kind # "none" /\ leases[Workspace].kind # "none"
      BY <2>1, <3>1 DEF Attached, L!Readable, L!OwnerKinds, L!AgeKinds
    <3>3. p = Workspace
      BY <2>1, <3>1, <3>2 DEF IInv, StoreInv, L!NoOverlap
    <3> QED BY <2>1, <3>1, <3>3 DEF Attached
  <2>3. /\ status \in {"succeeded", "failed"} => result.by \notin Stoppers
        /\ result.cleanup = "confirmed" /\ result.by \notin Stoppers => provider # "writing"
        /\ result.outcome # "none" => result.cleanup # "none"
        /\ result.cleanup \in {"none", "confirmed", "unconfirmed"}
    BY DEF IInv, JobInv, Lifecycle!EndInv, Lifecycle!StopperEndsStopped,
           Lifecycle!ResultIsTrue, Lifecycle!Evidenced, Lifecycle!Exists,
           Lifecycle!IInv, Lifecycle!TypeOK, Lifecycle!Results
  <2> QED BY <2>2, <2>3 DEF J!Collectable, J!Terminal, J!Exists
<1> QED BY <1>1, Invariance, PTL

\* A flagged lease goes with somebody's confirmed cleanup or by acknowledged
\* recovery, whatever the other writers and the publishers do.
THEOREM FlaggedStays == Spec => FlaggedLeaseRetained
<1>1. ASSUME IInv, [Next]_devVars,
             phase = "running", Attached, cleanup = "pending", ~Attached'
      PROVE  \/ \E a \in J!Actors : pc[a] \in {"lease", "retryLease"}
                                    /\ evidence[a] = "confirmed" /\ pc'[a] # pc[a]
             \/ L!Recover(Workspace, TRUE)
  <2>1. CASE Releases
    <3>0. pc \in [J!Actors -> Lifecycle!Stages]
      BY <1>1 DEF IInv, JobInv, Lifecycle!IInv, Lifecycle!TypeOK, J!Actors, Lifecycle!Actors
    <3>1. ASSUME NEW a \in J!Actors, J!ReleaseLease(a)
          PROVE  pc[a] = "lease" /\ evidence[a] = "confirmed" /\ pc'[a] # pc[a]
      BY <3>0, <3>1 DEF J!ReleaseLease, J!LeaseDone, J!AfterLease, J!Goto, J!Rest
    <3>2. ASSUME NEW a \in Retriers, J!RetryReleasesLease(a)
          PROVE  /\ a \in J!Actors /\ pc[a] = "retryLease" /\ evidence[a] = "confirmed"
                 /\ pc'[a] # pc[a]
      <4>1. pc[a] = "retryLease" => evidence[a] = "confirmed"
        BY <1>1 DEF IInv, JobInv, Lifecycle!EndInv, Lifecycle!Evidenced, Lifecycle!Actors
      <4> QED BY <3>2, <4>1, <3>0 DEF J!RetryReleasesLease, J!Goto, J!Actors
    <3> QED BY <2>1, <3>1, <3>2 DEF Releases
  <2>2. CASE OtherWriter
    <3>1. ExternalState \in {"nonterminal", "terminal_cleanup_pending"}
      BY <1>1 DEF ExternalState
    <3> QED BY <1>1, <2>2, <3>1, OthersKeepAttached
               DEF IInv, DevInv, OtherWriter, startVars, Attached
  <2>3. CASE Start \/ JobStep \/ UNCHANGED devVars
    BY <1>1, <2>3 DEF Start, StartAcquires, CreateJob, AttachLease, AttachFails, RecordToken,
                      StartFails, StartCrashes, JobStep, leaseVars, startVars, devVars, Attached
  <2> QED BY <1>1, <2>1, <2>2, <2>3 DEF Next
<1> QED BY <1>1, Invariance, PTL DEF Spec, FlaggedLeaseRetained
=============================================================================
