------------------------ MODULE JobLifecycle_proofs ------------------------
(***************************************************************************)
(* The end of a job, for any set of reapers, stoppers and retriers, any    *)
(* placement of them in processes and any number of faults.                *)
(***************************************************************************)
EXTENDS JobLifecycle, TLAPS

-----------------------------------------------------------------------------
(* The inductive invariant: what the program counters know of the files.   *)

\* The meta lock is held exactly between the two writes of a publisher.
LockHeld == \A a \in Actors : pc[a] \in {"meta", "retryMeta"} <=> lock = a

\* Who publishes has decided what, and between the writes nobody interferes.
Publishing ==
    \A a \in Actors :
        /\ pc[a] \in SetStages \cup {"meta"} => verdict[a] # "none" /\ a \notin Stoppers
        /\ pc[a] = "meta" => /\ status \in Open
                             /\ result.outcome = verdict[a] /\ result.by = a
                             /\ claim # "none" => claim = OwnerOf(a)

\* Between claim and publication the claim in the metadata is the actor's own.
Claiming ==
    \A a \in Actors :
        /\ pc[a] \in {"claim", "cancel", "setClaimed"} => a \notin Stoppers
        /\ pc[a] \in {"cancel", "setClaimed"} => claim = OwnerOf(a)

Roles ==
    /\ pc[Worker] \in {"launch", "register"} => pc[Watchdog] = "done"
    /\ \A a \in Actors :
          /\ pc[a] \in {"launch", "register", "work", "failing", "wait"} => a \notin Stoppers
          /\ pc[a] \in {"stopCancel", "stopMark", "stopTerminate", "persist"} => a \in Stoppers

Stopping ==
    \A a \in Actors :
        /\ pc[a] \in {"stopTerminate", "persist"} => status = "stopped"
        /\ pc[a] \in {"retryCancel", "retry", "retryMeta"} => status \in Terminal

\* Only a fault separates the result of an open job from its publisher.
NothingLeftBehind ==
    faults = 0 /\ status \in Open /\ result.outcome # "none" => lock # NoActor

IInv ==
    /\ TypeOK /\ LockHeld /\ Publishing /\ Claiming /\ Roles /\ Stopping
    /\ NothingLeftBehind
    /\ StatusMatchesResult /\ OneTerminalizer /\ ClaimDecides /\ StopBeatsCompletion

-----------------------------------------------------------------------------
LEMMA InitIInv == Init => IInv
<1> SUFFICES ASSUME Init PROVE IInv
  OBVIOUS
<1> USE ActorsAssumption, BackendsAssumption, MaxFaultsAssumption
    DEF Init, NoResult, Actors, Open, Terminal
<1>1. TypeOK
  BY DEF TypeOK, Results, Stages, Owners
<1>2. /\ LockHeld /\ Publishing /\ Claiming /\ Roles /\ Stopping
      /\ NothingLeftBehind
  BY DEF LockHeld, Publishing, Claiming, Roles, Stopping, NothingLeftBehind, SetStages
<1>3. StatusMatchesResult /\ OneTerminalizer /\ ClaimDecides /\ StopBeatsCompletion
  BY DEF StatusMatchesResult, OneTerminalizer, ClaimDecides, StopBeatsCompletion
<1> QED BY <1>1, <1>2, <1>3 DEF IInv

LEMMA NextIInv == IInv /\ [Next]_vars => IInv'
<1> SUFFICES ASSUME IInv, [Next]_vars PROVE IInv'
  OBVIOUS
<1> USE ActorsAssumption, BackendsAssumption, MaxFaultsAssumption
    DEF IInv, TypeOK, LockHeld, Publishing, Claiming, Roles, Stopping,
        NothingLeftBehind, StatusMatchesResult, OneTerminalizer, ClaimDecides,
        StopBeatsCompletion, NoResult, Results, Actors, Stages, SetStages, Open,
        Terminal, Owners, OwnerOf, Goto, meta, local, world
<1>1. CASE LaunchSucceeds
  BY <1>1 DEF LaunchSucceeds
<1>2. CASE RecordSession
  BY <1>2 DEF RecordSession
<1>3. CASE StartMonitor
  BY <1>3 DEF StartMonitor
<1>4. CASE AwaitInput
  BY <1>4 DEF AwaitInput
<1>5. CASE MonitorYields
  BY <1>5 DEF MonitorYields
<1>6. ASSUME NEW seen \in Seen, LaunchFails(seen) PROVE IInv'
  BY <1>6 DEF LaunchFails, ProviderAfter, Seen
<1>7. ASSUME NEW seen \in Seen, RollBackLaunch(seen) PROVE IInv'
  BY <1>7 DEF RollBackLaunch, ProviderAfter, Seen
<1>8. ASSUME NEW seen \in Seen, WorkerFails(seen) PROVE IInv'
  BY <1>8 DEF WorkerFails, ProviderAfter, Seen
<1>9. ASSUME NEW outcome \in {"ok", "fail"}, TurnEnds(outcome) PROVE IInv'
  BY <1>9 DEF TurnEnds
<1>10. ASSUME NEW a \in Actors, DeadlineSeen(a) PROVE IInv'
  BY <1>10 DEF DeadlineSeen
<1>11. ASSUME NEW a \in Actors, ReapScan(a) PROVE IInv'
  BY <1>11 DEF ReapScan
<1>12. ASSUME NEW a \in Actors, ClaimTerminalization(a) PROVE IInv'
  BY <1>12 DEF ClaimTerminalization, Rest
<1>13. ASSUME NEW a \in Actors, NEW seen \in Seen, CancelProvider(a, seen) PROVE IInv'
  BY <1>13 DEF CancelProvider, ProviderAfter, Seen
<1>14. ASSUME NEW a \in Actors, SetResultRejected(a) PROVE IInv'
  BY <1>14 DEF SetResultRejected, Rest
<1>15. ASSUME NEW a \in Actors, SetResult(a) PROVE IInv'
  BY <1>15 DEF SetResult, Rejected
<1>16. ASSUME NEW a \in Actors, PublishStatus(a) PROVE IInv'
  BY <1>16 DEF PublishStatus
<1>17. ASSUME NEW a \in Actors, ReleaseLease(a) PROVE IInv'
  BY <1>17 DEF ReleaseLease, LeaseDone, AfterLease, Rest
<1>18. ASSUME NEW a \in Actors, MarkCleanupPending(a) PROVE IInv'
  BY <1>18 DEF MarkCleanupPending, LeaseDone, AfterLease, Rest
<1>19. ASSUME NEW a \in Actors, RecordCleanupFlags(a) PROVE IInv'
  BY <1>19 DEF RecordCleanupFlags
<1>20. ASSUME NEW a \in Actors, StopRequested(a) PROVE IInv'
  BY <1>20 DEF StopRequested
<1>21. ASSUME NEW a \in Actors, NEW seen \in Seen \cup {"none"}, StopCancel(a, seen) PROVE IInv'
  BY <1>21 DEF StopCancel, ProviderAfter, Seen
<1>22. ASSUME NEW a \in Actors, StopMark(a) PROVE IInv'
  BY <1>22 DEF StopMark
<1>23. ASSUME NEW a \in Actors, NEW seen \in Seen, StopTerminate(a, seen) PROVE IInv'
  BY <1>23 DEF StopTerminate, ProviderAfter, Seen
<1>24. ASSUME NEW a \in Actors, SetStoppedResult(a) PROVE IInv'
  BY <1>24 DEF SetStoppedResult
<1>25. ASSUME NEW a \in Actors, RetryRequested(a) PROVE IInv'
  BY <1>25 DEF RetryRequested
<1>26. ASSUME NEW a \in Actors, NEW seen \in Seen, RetryCancel(a, seen) PROVE IInv'
  BY <1>26 DEF RetryCancel, ProviderAfter, Seen
<1>27. ASSUME NEW a \in Actors, RecordTerminalCleanupRetry(a) PROVE IInv'
  BY <1>27 DEF RecordTerminalCleanupRetry
<1>28. ASSUME NEW a \in Actors, RecordRetryFlags(a) PROVE IInv'
  BY <1>28 DEF RecordRetryFlags
<1>29. ASSUME NEW a \in Actors, RetryReleasesLease(a) PROVE IInv'
  BY <1>29 DEF RetryReleasesLease
<1>30. CASE TimePasses
  BY <1>30 DEF TimePasses
<1>31. CASE WatchdogDismissed
  BY <1>31 DEF WatchdogDismissed
<1>32. ASSUME NEW gone \in Processes, Crash(gone) PROVE IInv'
  BY <1>32 DEF Crash, Processes
<1>33. ASSUME NEW a \in Actors, WriteFails(a) PROVE IInv'
  BY <1>33 DEF WriteFails, Rest
<1>34. CASE UNCHANGED vars
  BY <1>34 DEF vars
<1> QED
  BY ONLY IInv, [Next]_vars, <1>1, <1>2, <1>3, <1>4, <1>5, <1>6, <1>7, <1>8, <1>9, <1>10, <1>11,
     <1>12, <1>13, <1>14, <1>15, <1>16, <1>17, <1>18, <1>19, <1>20, <1>21, <1>22, <1>23, <1>24,
     <1>25, <1>26, <1>27, <1>28, <1>29, <1>30, <1>31, <1>32, <1>33, <1>34
     DEF Next, WorkerStep, DeadlineStep, PublishStep, StopStep, RetryStep, Environment

THEOREM Invariance == Spec => []IInv
  BY InitIInv, NextIInv, PTL DEF Spec

\* The record of a job is well-formed whoever ends it.
THEOREM TypeCorrect == Spec => []TypeOK
  BY Invariance, PTL DEF IInv

\* A job is succeeded or failed only with the result that says so, although
\* the two are files written one after the other and any actor may die between.
THEOREM StatusAgrees == Spec => []StatusMatchesResult
  BY Invariance, PTL DEF IInv

\* claim_terminalization lets at most one of the monitor, the watchdog and any
\* number of reapers cancel the provider and publish.
THEOREM SingleTerminalizer == Spec => []OneTerminalizer
  BY Invariance, PTL DEF IInv

\* A published outcome of a claimed job is the claimant's.
THEOREM ClaimantDecides == Spec => []ClaimDecides
  BY Invariance, PTL DEF IInv

\* Without faults a stopped job is never collected as a success.
THEOREM StopWins == Spec => []StopBeatsCompletion
  BY Invariance, PTL DEF IInv

-----------------------------------------------------------------------------
(* What a step may do to a job that has ended, and the contract.           *)

LEMMA EndIsFinal ==
    ASSUME IInv, [Next]_vars
    PROVE  /\ status \in Terminal => status' = status
           /\ Collectable => result'.outcome = result.outcome /\ result'.by = result.by
<1> USE DEF Goto, meta, local, world, Open, Terminal
<1>0. IInv' /\ result \in Results
  BY NextIInv DEF IInv, TypeOK
<1>1. CASE WorkerStep
  BY <1>1 DEF WorkerStep, LaunchSucceeds, RecordSession, StartMonitor, AwaitInput,
              MonitorYields, LaunchFails, RollBackLaunch, WorkerFails, TurnEnds
<1>2. ASSUME NEW a \in Actors, DeadlineStep(a)
      PROVE  UNCHANGED <<status, result>>
  BY <1>2 DEF DeadlineStep, DeadlineSeen, ReapScan, ClaimTerminalization, CancelProvider
<1>3. ASSUME NEW a \in Actors, SetResult(a) PROVE status \in Open /\ status' = status
  BY <1>3 DEF SetResult, Rejected
<1>4. ASSUME NEW a \in Actors, PublishStatus(a) PROVE status \in Open /\ result' = result
  BY <1>4 DEF PublishStatus, IInv, Publishing
<1>5. ASSUME NEW a \in Actors,
             \/ SetResultRejected(a) \/ ReleaseLease(a)
             \/ MarkCleanupPending(a) \/ RecordCleanupFlags(a)
      PROVE  UNCHANGED <<status, result>>
  BY <1>5 DEF SetResultRejected, ReleaseLease, MarkCleanupPending, RecordCleanupFlags
<1>6. ASSUME NEW a \in Actors, StopMark(a)
      PROVE  result' = result /\ (status \in Terminal => status' = status)
  BY <1>6 DEF StopMark
<1>7. ASSUME NEW a \in Actors, SetStoppedResult(a)
      PROVE  status' = status /\ (Exists => result' = result)
  BY <1>7 DEF SetStoppedResult, Exists
<1>8. ASSUME NEW a \in Actors,
             \/ StopRequested(a)
             \/ \E seen \in Seen \cup {"none"} : StopCancel(a, seen)
             \/ \E seen \in Seen : StopTerminate(a, seen)
      PROVE  UNCHANGED <<status, result>>
  BY <1>8 DEF StopRequested, StopCancel, StopTerminate
<1>9. ASSUME NEW a \in Actors, RecordTerminalCleanupRetry(a)
      PROVE  /\ status' = status
             /\ result'.outcome = result.outcome /\ result'.by = result.by
  BY <1>0, <1>9 DEF RecordTerminalCleanupRetry, Results
<1>10. ASSUME NEW a \in Actors,
              \/ RetryRequested(a) \/ RecordRetryFlags(a) \/ RetryReleasesLease(a)
              \/ \E seen \in Seen : RetryCancel(a, seen)
       PROVE  UNCHANGED <<status, result>>
  BY <1>10 DEF RetryRequested, RecordRetryFlags, RetryReleasesLease, RetryCancel
<1>11. CASE Environment
  BY <1>11 DEF Environment, TimePasses, WatchdogDismissed, Crash, WriteFails
<1>12. CASE UNCHANGED vars
  BY <1>12 DEF vars
<1> QED
  BY <1>1, <1>2, <1>3, <1>4, <1>5, <1>6, <1>7, <1>8, <1>9, <1>10, <1>11, <1>12
     DEF Next, PublishStep, StopStep, RetryStep, Collectable

\* A terminal status never changes again, and a collectable result keeps its
\* outcome and its author, against every late worker, reaper, stop and retry.
THEOREM TerminalStatusIsFinal == Spec => TerminalIsFinal
<1>1. IInv /\ [Next]_vars =>
        [/\ status \in Terminal => status' = status
         /\ Collectable => result'.outcome = result.outcome /\ result'.by = result.by]_vars
  BY EndIsFinal
<1> QED BY <1>1, Invariance, PTL DEF Spec, TerminalIsFinal

\* The job store implements the contract of a job's end: every step decides
\* the outcome once, makes a stopped job collectable once, or is a stutter.
THEOREM ContractHolds == Spec => ImplementsContract
<1> USE DEF Open, Terminal
<1>1. Init => Contract!ContractInit
  BY DEF Init, Contract!ContractInit, Collectable
<1>2. IInv /\ [Next]_vars => [Contract!ContractNext]_(Contract!contractVars)
  <2> SUFFICES ASSUME IInv, [Next]_vars
               PROVE  [Contract!ContractNext]_(Contract!contractVars)
    OBVIOUS
  <2>1. /\ status \in Open \cup Terminal /\ status' \in Open \cup Terminal
        /\ status \in {"succeeded", "failed"} => Collectable
        /\ status' \in {"succeeded", "failed"} => Collectable'
        /\ status \in Terminal => status' = status
        /\ Collectable => Collectable'
    BY NextIInv, EndIsFinal
       DEF IInv, TypeOK, StatusMatchesResult, Collectable, Exists
  <2>2. CASE status \in Open /\ status' \in Open
    BY <2>2 DEF Contract!contractVars, Collectable
  <2>3. CASE status \in Open /\ status' \in {"succeeded", "failed"}
    BY <2>1, <2>3 DEF Contract!ContractNext, Contract!Finish, Collectable
  <2>4. CASE status \in Open /\ status' = "stopped"
    BY <2>4 DEF Contract!ContractNext, Contract!Stop, Collectable
  <2>5. CASE status \in Terminal
    BY <2>1, <2>5 DEF Contract!ContractNext, Contract!Collect, Contract!contractVars
  <2> QED BY <2>1, <2>2, <2>3, <2>4, <2>5
<1> QED
  BY <1>1, <1>2, Invariance, PTL DEF Spec, ImplementsContract, Contract!ContractSpec

-----------------------------------------------------------------------------
(* A cleanup that failed is flagged.                                       *)

\* A run handle or a recorded session means that the launch is over.
LaunchIsOver == handle = "registered" \/ session = "known" => pc[Worker] # "launch"

\* Only of a stop may the evidence be wrong; that of all others stays true.
EvidenceIsTrue ==
    \A a \in Actors \ Stoppers : evidence[a] = "confirmed" =>
        provider # "writing" /\ pc[Worker] # "launch"

\* Retries claim nothing, and stops have no flags to repeat.
Claimants ==
    \A a \in Actors :
        /\ pc[a] \in {"claim", "cancel"} => a \notin Retriers
        /\ pc[a] = "flags" => a \notin Stoppers

\* The result carries its publisher's evidence until the status is public.
ResultCarries ==
    /\ \A a \in Actors : pc[a] \in {"meta", "retryMeta"} => result.cleanup = evidence[a]
    /\ result.outcome = "none" => result.cleanup = "none"

\* Who published an unconfirmed cleanup is on the way to flag it.
OnTheWay(a) == pc[a] \in {"lease", "flags", "retryMeta"} /\ evidence[a] = "unconfirmed"

GetsFlagged ==
    /\ status \in Terminal /\ result.cleanup = "unconfirmed"
    /\ provider = "writing" \/ pc[Worker] = "launch"
    /\ faults = 0
    => cleanup = "pending" \/ \E a \in Actors : OnTheWay(a)

FlagInv == LaunchIsOver /\ EvidenceIsTrue /\ Claimants /\ ResultCarries /\ GetsFlagged

LEMMA InitFlags == Init => FlagInv
<1> SUFFICES ASSUME Init PROVE FlagInv
  OBVIOUS
<1>1. Worker \in Actors /\ \A a \in Actors : evidence[a] = "none"
  BY DEF Init, Actors
<1>2. EvidenceIsTrue /\ GetsFlagged
  BY <1>1 DEF Init, EvidenceIsTrue, GetsFlagged, Terminal
<1>3. LaunchIsOver
  BY <1>1, BackendsAssumption DEF Init, LaunchIsOver
<1>4. Claimants /\ ResultCarries
  BY BackendsAssumption DEF Init, Claimants, ResultCarries, NoResult
<1> QED BY <1>2, <1>3, <1>4 DEF FlagInv

LEMMA NextFlags == IInv /\ FlagInv /\ [Next]_vars => FlagInv'
<1> SUFFICES ASSUME IInv, FlagInv, [Next]_vars PROVE FlagInv'
  OBVIOUS
<1> USE ActorsAssumption, MaxFaultsAssumption
    DEF IInv, TypeOK, LockHeld, Publishing, Claiming, Roles, Stopping, NothingLeftBehind,
        FlagInv, LaunchIsOver, EvidenceIsTrue, Claimants, ResultCarries, GetsFlagged, OnTheWay,
        Results, Actors, SetStages, Open, Terminal, Goto, meta, local, world
<1>1. CASE LaunchSucceeds
  BY <1>1 DEF LaunchSucceeds
<1>2. CASE RecordSession
  BY <1>2 DEF RecordSession
<1>3. CASE StartMonitor
  BY <1>3 DEF StartMonitor
<1>4. CASE AwaitInput
  BY <1>4 DEF AwaitInput
<1>5. CASE MonitorYields
  BY <1>5 DEF MonitorYields
<1>6. ASSUME NEW seen \in Seen, LaunchFails(seen) PROVE FlagInv'
  BY <1>6 DEF LaunchFails, ProviderAfter, Seen
<1>7. ASSUME NEW seen \in Seen, RollBackLaunch(seen) PROVE FlagInv'
  BY <1>7 DEF RollBackLaunch, ProviderAfter, Seen
<1>8. ASSUME NEW seen \in Seen, WorkerFails(seen) PROVE FlagInv'
  BY <1>8 DEF WorkerFails, ProviderAfter, Seen
<1>9. ASSUME NEW outcome \in {"ok", "fail"}, TurnEnds(outcome) PROVE FlagInv'
  BY <1>9 DEF TurnEnds
<1>10. ASSUME NEW a \in Actors, DeadlineSeen(a) PROVE FlagInv'
  BY <1>10 DEF DeadlineSeen
<1>11. ASSUME NEW a \in Actors, ReapScan(a) PROVE FlagInv'
  BY <1>11 DEF ReapScan
<1>12. ASSUME NEW a \in Actors, ClaimTerminalization(a) PROVE FlagInv'
  BY <1>12 DEF ClaimTerminalization, Rest
<1>13. ASSUME NEW a \in Actors, NEW seen \in Seen, CancelProvider(a, seen) PROVE FlagInv'
  BY <1>13 DEF CancelProvider, ProviderAfter, Seen
<1>14. ASSUME NEW a \in Actors, SetResultRejected(a) PROVE FlagInv'
  BY <1>14 DEF SetResultRejected, Rest
<1>15. ASSUME NEW a \in Actors, SetResult(a) PROVE FlagInv'
  BY <1>15 DEF SetResult, Rejected
<1>16. ASSUME NEW a \in Actors, PublishStatus(a) PROVE FlagInv'
  BY <1>16 DEF PublishStatus
<1>17. ASSUME NEW a \in Actors, ReleaseLease(a) PROVE FlagInv'
  BY <1>17 DEF ReleaseLease, LeaseDone, AfterLease, Rest
<1>18. ASSUME NEW a \in Actors, MarkCleanupPending(a) PROVE FlagInv'
  BY <1>18 DEF MarkCleanupPending, LeaseDone, AfterLease, Rest
<1>19. ASSUME NEW a \in Actors, RecordCleanupFlags(a) PROVE FlagInv'
  BY <1>19 DEF RecordCleanupFlags
<1>20. ASSUME NEW a \in Actors, StopRequested(a) PROVE FlagInv'
  BY <1>20 DEF StopRequested
<1>21. ASSUME NEW a \in Actors, NEW seen \in Seen \cup {"none"}, StopCancel(a, seen) PROVE FlagInv'
  BY <1>21 DEF StopCancel, ProviderAfter, Seen
<1>22. ASSUME NEW a \in Actors, StopMark(a) PROVE FlagInv'
  BY <1>22 DEF StopMark
<1>23. ASSUME NEW a \in Actors, NEW seen \in Seen, StopTerminate(a, seen) PROVE FlagInv'
  BY <1>23 DEF StopTerminate, ProviderAfter, Seen
<1>24. ASSUME NEW a \in Actors, SetStoppedResult(a) PROVE FlagInv'
  BY <1>24 DEF SetStoppedResult
<1>25. ASSUME NEW a \in Actors, RetryRequested(a) PROVE FlagInv'
  BY <1>25 DEF RetryRequested
<1>26. ASSUME NEW a \in Actors, NEW seen \in Seen, RetryCancel(a, seen) PROVE FlagInv'
  BY <1>26 DEF RetryCancel, ProviderAfter, Seen
<1>27. ASSUME NEW a \in Actors, RecordTerminalCleanupRetry(a) PROVE FlagInv'
  BY <1>27 DEF RecordTerminalCleanupRetry
<1>28. ASSUME NEW a \in Actors, RecordRetryFlags(a) PROVE FlagInv'
  BY <1>28 DEF RecordRetryFlags
<1>29. ASSUME NEW a \in Actors, RetryReleasesLease(a) PROVE FlagInv'
  BY <1>29 DEF RetryReleasesLease
<1>30. CASE TimePasses
  BY <1>30 DEF TimePasses
<1>31. CASE WatchdogDismissed
  BY <1>31 DEF WatchdogDismissed
<1>32. ASSUME NEW gone \in Processes, Crash(gone) PROVE FlagInv'
  BY <1>32 DEF Crash, Processes
<1>33. ASSUME NEW a \in Actors, WriteFails(a) PROVE FlagInv'
  BY <1>33 DEF WriteFails, Rest
<1>34. CASE UNCHANGED vars
  BY <1>34 DEF vars
<1> QED
  BY ONLY IInv, FlagInv, [Next]_vars, <1>1, <1>2, <1>3, <1>4, <1>5, <1>6, <1>7, <1>8, <1>9, <1>10,
     <1>11, <1>12, <1>13, <1>14, <1>15, <1>16, <1>17, <1>18, <1>19, <1>20, <1>21, <1>22, <1>23,
     <1>24, <1>25, <1>26, <1>27, <1>28, <1>29, <1>30, <1>31, <1>32, <1>33, <1>34
     DEF Next, WorkerStep, DeadlineStep, PublishStep, StopStep, RetryStep, Environment

\* A provider that goes on writing after an unconfirmed cleanup gets flagged,
\* by whoever published the result, as long as no fault stops it on the way.
THEOREM FlagFollows == Spec => []UnconfirmedGetsFlagged
<1>1. FlagInv => UnconfirmedGetsFlagged
  BY DEF FlagInv, GetsFlagged, OnTheWay, UnconfirmedGetsFlagged
<1>2. IInv /\ FlagInv /\ [Next]_vars => FlagInv'
  BY NextFlags
<1> QED BY <1>1, <1>2, InitFlags, Invariance, PTL DEF Spec
-----------------------------------------------------------------------------
(* What a result says of the cleanup, and who may touch the lease.         *)

\* Whoever releases a lease, or publishes a cleanup again, does it for a job
\* whose result can be collected.
Ended == \A a \in Actors : pc[a] \in {"lease", "retryMeta", "retryLease"} => Collectable

\* Nobody publishes without having looked for the provider.
Evidenced ==
    /\ \A a \in Actors :
          pc[a] \in SetStages \cup {"meta", "persist", "retry", "retryMeta"}
              => evidence[a] # "none"
    /\ \A a \in Actors : pc[a] = "retryLease" => evidence[a] = "confirmed"
    /\ Exists => result.cleanup # "none"

RetriersRetry == \A a \in Actors : pc[a] \in {"retryCancel", "retry"} => a \in Retriers

\* A stopper's result ends stopped jobs only.
StopperEndsStopped == status \in {"succeeded", "failed"} => result.by \notin Stoppers

\* The confirmed cleanup of a result is true, unless a stop wrote it.
ResultIsTrue ==
    result.cleanup = "confirmed" /\ result.by \notin Stoppers =>
        provider # "writing" /\ pc[Worker] # "launch"

EndInv == Ended /\ Evidenced /\ RetriersRetry /\ StopperEndsStopped /\ ResultIsTrue

LEMMA InitEnd == Init => EndInv
<1> SUFFICES ASSUME Init PROVE EndInv
  OBVIOUS
<1>1. Ended /\ Evidenced /\ RetriersRetry
  BY BackendsAssumption DEF Init, Ended, Evidenced, RetriersRetry, SetStages, Exists, NoResult
<1>2. StopperEndsStopped /\ ResultIsTrue
  BY DEF Init, StopperEndsStopped, ResultIsTrue, NoResult
<1> QED BY <1>1, <1>2 DEF EndInv

LEMMA NextEnd == IInv /\ FlagInv /\ EndInv /\ [Next]_vars => EndInv'
<1> SUFFICES ASSUME IInv, FlagInv, EndInv, [Next]_vars PROVE EndInv'
  OBVIOUS
<1> USE ActorsAssumption
    DEF IInv, TypeOK, LockHeld, Publishing, Claiming, Roles, Stopping, FlagInv, LaunchIsOver,
        EvidenceIsTrue, Claimants, ResultCarries, EndInv, Ended, Evidenced, RetriersRetry,
        StopperEndsStopped, ResultIsTrue, Collectable, Exists,
        Results, Actors, SetStages, Open, Terminal, Goto, meta, local, world
<1>1. CASE LaunchSucceeds
  BY <1>1 DEF LaunchSucceeds
<1>2. CASE RecordSession
  BY <1>2 DEF RecordSession
<1>3. CASE StartMonitor
  BY <1>3 DEF StartMonitor
<1>4. CASE AwaitInput
  BY <1>4 DEF AwaitInput
<1>5. CASE MonitorYields
  BY <1>5 DEF MonitorYields
<1>6. ASSUME NEW seen \in Seen, LaunchFails(seen) PROVE EndInv'
  BY <1>6 DEF LaunchFails, ProviderAfter, Seen
<1>7. ASSUME NEW seen \in Seen, RollBackLaunch(seen) PROVE EndInv'
  BY <1>7 DEF RollBackLaunch, ProviderAfter, Seen
<1>8. ASSUME NEW seen \in Seen, WorkerFails(seen) PROVE EndInv'
  BY <1>8 DEF WorkerFails, ProviderAfter, Seen
<1>9. ASSUME NEW outcome \in {"ok", "fail"}, TurnEnds(outcome) PROVE EndInv'
  BY <1>9 DEF TurnEnds
<1>10. ASSUME NEW a \in Actors, DeadlineSeen(a) PROVE EndInv'
  BY <1>10 DEF DeadlineSeen
<1>11. ASSUME NEW a \in Actors, ReapScan(a) PROVE EndInv'
  BY <1>11 DEF ReapScan
<1>12. ASSUME NEW a \in Actors, ClaimTerminalization(a) PROVE EndInv'
  BY <1>12 DEF ClaimTerminalization, Rest
<1>13. ASSUME NEW a \in Actors, NEW seen \in Seen, CancelProvider(a, seen) PROVE EndInv'
  BY <1>13 DEF CancelProvider, ProviderAfter, Seen
<1>14. ASSUME NEW a \in Actors, SetResultRejected(a) PROVE EndInv'
  BY <1>14 DEF SetResultRejected, Rest
<1>15. ASSUME NEW a \in Actors, SetResult(a) PROVE EndInv'
  BY <1>15 DEF SetResult, Rejected
<1>16. ASSUME NEW a \in Actors, PublishStatus(a) PROVE EndInv'
  BY <1>16 DEF PublishStatus
<1>17. ASSUME NEW a \in Actors, ReleaseLease(a) PROVE EndInv'
  BY <1>17 DEF ReleaseLease, LeaseDone, AfterLease, Rest
<1>18. ASSUME NEW a \in Actors, MarkCleanupPending(a) PROVE EndInv'
  BY <1>18 DEF MarkCleanupPending, LeaseDone, AfterLease, Rest
<1>19. ASSUME NEW a \in Actors, RecordCleanupFlags(a) PROVE EndInv'
  BY <1>19 DEF RecordCleanupFlags
<1>20. ASSUME NEW a \in Actors, StopRequested(a) PROVE EndInv'
  BY <1>20 DEF StopRequested
<1>21. ASSUME NEW a \in Actors, NEW seen \in Seen \cup {"none"}, StopCancel(a, seen) PROVE EndInv'
  BY <1>21 DEF StopCancel, ProviderAfter, Seen
<1>22. ASSUME NEW a \in Actors, StopMark(a) PROVE EndInv'
  BY <1>22 DEF StopMark
<1>23. ASSUME NEW a \in Actors, NEW seen \in Seen, StopTerminate(a, seen) PROVE EndInv'
  BY <1>23 DEF StopTerminate, ProviderAfter, Seen
<1>24. ASSUME NEW a \in Actors, SetStoppedResult(a) PROVE EndInv'
  BY <1>24 DEF SetStoppedResult
<1>25. ASSUME NEW a \in Actors, RetryRequested(a) PROVE EndInv'
  BY <1>25 DEF RetryRequested
<1>26. ASSUME NEW a \in Actors, NEW seen \in Seen, RetryCancel(a, seen) PROVE EndInv'
  BY <1>26 DEF RetryCancel, ProviderAfter, Seen
<1>27. ASSUME NEW a \in Actors, RecordTerminalCleanupRetry(a) PROVE EndInv'
  <2>1. CASE ~Exists
    BY <1>27, <2>1 DEF RecordTerminalCleanupRetry
  <2>2. CASE Exists
    <3>1. /\ result' = [result EXCEPT !.cleanup = evidence[a]]
          /\ pc[a] = "retry" /\ pc' = [pc EXCEPT ![a] = "retryMeta"]
          /\ UNCHANGED <<meta, evidence, world>>
      BY <1>27, <2>2 DEF RecordTerminalCleanupRetry
    <3>2. /\ result'.outcome = result.outcome /\ result'.by = result.by
          /\ result'.cleanup = evidence[a]
      BY <3>1
    <3>3. a \notin Stoppers
      BY <1>27 DEF RecordTerminalCleanupRetry
    <3>4. Ended'
      BY <2>2, <3>1, <3>2
    <3>5. Evidenced' /\ RetriersRetry'
      BY <3>1, <3>2
    <3>6. StopperEndsStopped' /\ ResultIsTrue'
      BY <3>1, <3>2, <3>3
    <3> QED BY <3>4, <3>5, <3>6
  <2> QED BY <2>1, <2>2
<1>28. ASSUME NEW a \in Actors, RecordRetryFlags(a) PROVE EndInv'
  BY <1>28 DEF RecordRetryFlags
<1>29. ASSUME NEW a \in Actors, RetryReleasesLease(a) PROVE EndInv'
  BY <1>29 DEF RetryReleasesLease
<1>30. CASE TimePasses
  BY <1>30 DEF TimePasses
<1>31. CASE WatchdogDismissed
  BY <1>31 DEF WatchdogDismissed
<1>32. ASSUME NEW gone \in Processes, Crash(gone) PROVE EndInv'
  BY <1>32 DEF Crash, Processes
<1>33. ASSUME NEW a \in Actors, WriteFails(a) PROVE EndInv'
  BY <1>33 DEF WriteFails, Rest
<1>34. CASE UNCHANGED vars
  BY <1>34 DEF vars
<1> QED
  BY ONLY IInv, FlagInv, EndInv, [Next]_vars, <1>1, <1>2, <1>3, <1>4, <1>5, <1>6, <1>7, <1>8, <1>9,
     <1>10, <1>11, <1>12, <1>13, <1>14, <1>15, <1>16, <1>17, <1>18, <1>19, <1>20, <1>21, <1>22,
     <1>23, <1>24, <1>25, <1>26, <1>27, <1>28, <1>29, <1>30, <1>31, <1>32, <1>33, <1>34
     DEF Next, WorkerStep, DeadlineStep, PublishStep, StopStep, RetryStep, Environment

LEMMA EndInvariance == Spec => [](IInv /\ FlagInv /\ EndInv)
<1>1. IInv /\ FlagInv /\ [Next]_vars => FlagInv'
  BY NextFlags
<1>2. IInv /\ FlagInv /\ EndInv /\ [Next]_vars => EndInv'
  BY NextEnd
<1> QED BY <1>1, <1>2, InitFlags, InitEnd, Invariance, PTL DEF Spec

\* Where no stop intervened, a cleanup that a result calls confirmed is the
\* truth: the provider of a job that succeeded or failed writes no more.
THEOREM ConfirmedEndIsQuiet ==
    Spec => [](status \in {"succeeded", "failed"} /\ result.cleanup = "confirmed"
                  => provider # "writing")
<1>1. EndInv => (status \in {"succeeded", "failed"} /\ result.cleanup = "confirmed"
                   => provider # "writing")
  BY DEF EndInv, StopperEndsStopped, ResultIsTrue
<1> QED BY <1>1, EndInvariance, PTL
-----------------------------------------------------------------------------
(* Who is left to end a job.                                               *)

\* As long as no fault hit anybody, a claimed job has an actor that cancels or
\* publishes, and a stopped job a stop that has the result still to write.
SomebodyEnds ==
    faults = 0 =>
        /\ status \in Open /\ claim # "none" =>
              \E a \in Actors : pc[a] \in {"cancel", "setClaimed", "meta"}
        /\ status = "stopped" /\ ~Exists =>
              \E s \in Stoppers : pc[s] \in {"stopTerminate", "persist"}

LEMMA NextEnder == IInv /\ SomebodyEnds /\ [Next]_vars => SomebodyEnds'
<1> SUFFICES ASSUME IInv, SomebodyEnds, [Next]_vars PROVE SomebodyEnds'
  OBVIOUS
<1> USE ActorsAssumption, MaxFaultsAssumption
    DEF IInv, TypeOK, LockHeld, Publishing, Claiming, Roles, Stopping, SomebodyEnds, Exists,
        Results, Actors, SetStages, Open, Terminal, Goto, meta, local, world
<1>1. CASE LaunchSucceeds
  BY <1>1 DEF LaunchSucceeds
<1>2. CASE RecordSession
  BY <1>2 DEF RecordSession
<1>3. CASE StartMonitor
  BY <1>3 DEF StartMonitor
<1>4. CASE AwaitInput
  BY <1>4 DEF AwaitInput
<1>5. CASE MonitorYields
  BY <1>5 DEF MonitorYields
<1>6. ASSUME NEW seen \in Seen, LaunchFails(seen) PROVE SomebodyEnds'
  BY <1>6 DEF LaunchFails, ProviderAfter, Seen
<1>7. ASSUME NEW seen \in Seen, RollBackLaunch(seen) PROVE SomebodyEnds'
  BY <1>7 DEF RollBackLaunch, ProviderAfter, Seen
<1>8. ASSUME NEW seen \in Seen, WorkerFails(seen) PROVE SomebodyEnds'
  BY <1>8 DEF WorkerFails, ProviderAfter, Seen
<1>9. ASSUME NEW outcome \in {"ok", "fail"}, TurnEnds(outcome) PROVE SomebodyEnds'
  BY <1>9 DEF TurnEnds
<1>10. ASSUME NEW a \in Actors, DeadlineSeen(a) PROVE SomebodyEnds'
  BY <1>10 DEF DeadlineSeen
<1>11. ASSUME NEW a \in Actors, ReapScan(a) PROVE SomebodyEnds'
  BY <1>11 DEF ReapScan
<1>12. ASSUME NEW a \in Actors, ClaimTerminalization(a) PROVE SomebodyEnds'
  BY <1>12 DEF ClaimTerminalization, Rest
<1>13. ASSUME NEW a \in Actors, NEW seen \in Seen, CancelProvider(a, seen) PROVE SomebodyEnds'
  BY <1>13 DEF CancelProvider, ProviderAfter, Seen
<1>14. ASSUME NEW a \in Actors, SetResultRejected(a) PROVE SomebodyEnds'
  <2>1. pc[a] \in SetStages /\ Rejected(a) /\ UNCHANGED <<meta, result, faults>>
    BY <1>14 DEF SetResultRejected
  <2>2. \A b \in Actors : b # a => pc'[b] = pc[b]
    BY <1>14 DEF SetResultRejected
  <2>3. pc[a] = "setClaimed" => status \notin Open
    BY <2>1 DEF Rejected
  <2> QED BY <2>1, <2>2, <2>3
<1>15. ASSUME NEW a \in Actors, SetResult(a) PROVE SomebodyEnds'
  BY <1>15 DEF SetResult, Rejected
<1>16. ASSUME NEW a \in Actors, PublishStatus(a) PROVE SomebodyEnds'
  BY <1>16 DEF PublishStatus
<1>17. ASSUME NEW a \in Actors, ReleaseLease(a) PROVE SomebodyEnds'
  BY <1>17 DEF ReleaseLease, LeaseDone, AfterLease, Rest
<1>18. ASSUME NEW a \in Actors, MarkCleanupPending(a) PROVE SomebodyEnds'
  BY <1>18 DEF MarkCleanupPending, LeaseDone, AfterLease, Rest
<1>19. ASSUME NEW a \in Actors, RecordCleanupFlags(a) PROVE SomebodyEnds'
  BY <1>19 DEF RecordCleanupFlags
<1>20. ASSUME NEW a \in Actors, StopRequested(a) PROVE SomebodyEnds'
  BY <1>20 DEF StopRequested
<1>21. ASSUME NEW a \in Actors, NEW seen \in Seen \cup {"none"}, StopCancel(a, seen) PROVE SomebodyEnds'
  BY <1>21 DEF StopCancel, ProviderAfter, Seen
<1>22. ASSUME NEW a \in Actors, StopMark(a) PROVE SomebodyEnds'
  BY <1>22 DEF StopMark
<1>23. ASSUME NEW a \in Actors, NEW seen \in Seen, StopTerminate(a, seen) PROVE SomebodyEnds'
  BY <1>23 DEF StopTerminate, ProviderAfter, Seen
<1>24. ASSUME NEW a \in Actors, SetStoppedResult(a) PROVE SomebodyEnds'
  BY <1>24 DEF SetStoppedResult
<1>25. ASSUME NEW a \in Actors, RetryRequested(a) PROVE SomebodyEnds'
  BY <1>25 DEF RetryRequested
<1>26. ASSUME NEW a \in Actors, NEW seen \in Seen, RetryCancel(a, seen) PROVE SomebodyEnds'
  BY <1>26 DEF RetryCancel, ProviderAfter, Seen
<1>27. ASSUME NEW a \in Actors, RecordTerminalCleanupRetry(a) PROVE SomebodyEnds'
  BY <1>27 DEF RecordTerminalCleanupRetry
<1>28. ASSUME NEW a \in Actors, RecordRetryFlags(a) PROVE SomebodyEnds'
  BY <1>28 DEF RecordRetryFlags
<1>29. ASSUME NEW a \in Actors, RetryReleasesLease(a) PROVE SomebodyEnds'
  BY <1>29 DEF RetryReleasesLease
<1>30. CASE TimePasses
  BY <1>30 DEF TimePasses
<1>31. CASE WatchdogDismissed
  BY <1>31 DEF WatchdogDismissed
<1>32. ASSUME NEW gone \in Processes, Crash(gone) PROVE SomebodyEnds'
  BY <1>32 DEF Crash, Processes
<1>33. ASSUME NEW a \in Actors, WriteFails(a) PROVE SomebodyEnds'
  BY <1>33 DEF WriteFails, Rest
<1>34. CASE UNCHANGED vars
  BY <1>34 DEF vars
<1> QED
  BY ONLY IInv, SomebodyEnds, [Next]_vars, <1>1, <1>2, <1>3, <1>4, <1>5, <1>6, <1>7, <1>8, <1>9,
     <1>10, <1>11, <1>12, <1>13, <1>14, <1>15, <1>16, <1>17, <1>18, <1>19, <1>20, <1>21, <1>22,
     <1>23, <1>24, <1>25, <1>26, <1>27, <1>28, <1>29, <1>30, <1>31, <1>32, <1>33, <1>34
     DEF Next, WorkerStep, DeadlineStep, PublishStep, StopStep, RetryStep, Environment

\* A claim is never abandoned and a stop never left without its result by the
\* race of any number of monitors, reapers, stops and retries: only a crash or
\* a failed write strands a job.  This is the safety half of the liveness that
\* TLC checks (ExpiredIsCollectedOrStranded).
THEOREM OnlyFaultsStrand == Spec => []SomebodyEnds
<1>1. Init => SomebodyEnds
  BY DEF Init, SomebodyEnds
<1>2. IInv /\ SomebodyEnds /\ [Next]_vars => SomebodyEnds'
  BY NextEnder
<1> QED BY <1>1, <1>2, Invariance, PTL DEF Spec
=============================================================================
