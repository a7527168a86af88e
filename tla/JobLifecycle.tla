---------------------------- MODULE JobLifecycle ----------------------------
(***************************************************************************)
(* The durable record of one delegated job (jobs.py) and everybody who may *)
(* end it: the worker that runs the provider, the deadline watchdog beside *)
(* it, the reapers of any process that looks at the job, callers of        *)
(* job_stop and the operator's cleanup retry.                              *)
(*                                                                         *)
(* A critical section under the job's meta lock that replaces one file is  *)
(* one action.  set_result and record_terminal_cleanup_retry replace       *)
(* result.json first and meta.json second, so each is two actions with the *)
(* lock held in between; what the code does after it dropped the lock      *)
(* (release the writer lease, or mark the cleanup pending) is an action of *)
(* its own, because other processes run and crashes happen in between.     *)
(***************************************************************************)
EXTENDS Naturals

CONSTANTS
    Worker, Watchdog,               \* the job's own threads
    Reapers, Stoppers, Retriers,    \* callers in any process
    Home,       \* the actors inside the server process that started the job
    Backends,   \* the kinds of job that are looked at
    NoActor,
    MaxFaults   \* bound on crashes and failed file writes

Actors == {Worker, Watchdog} \cup Reapers \cup Stoppers \cup Retriers

ASSUME ActorsAssumption ==
    /\ Worker # Watchdog
    /\ {Worker, Watchdog} \cap (Reapers \cup Stoppers \cup Retriers) = {}
    /\ Reapers \cap Stoppers = {} /\ Reapers \cap Retriers = {}
    /\ Stoppers \cap Retriers = {}
    /\ NoActor \notin Actors
    /\ {Worker, Watchdog} \subseteq Home /\ Home \subseteq Actors
ASSUME BackendsAssumption == Backends \subseteq {"native", "acp"}
ASSUME MaxFaultsAssumption == MaxFaults \in Nat

VARIABLES
    status,     \* meta.status
    claim,      \* meta.terminalization_owner while terminalization_state is claimed
    cleanup,    \* meta.cleanup_pending
    result,     \* result.json
    lock,       \* holder of the job's meta lock between its two writes
    provider,   \* what the provider really does to the workspace
    session,    \* whether meta.json can name the provider to a later caller
    handle,     \* the run handle in the registry of the Home process
    deadline,   \* max_runtime_sec and the reapers' grace
    pc,         \* what each actor does next
    verdict,    \* the outcome an actor is about to publish
    evidence,   \* what an actor learned about provider cleanup
    backend,    \* "native" (Claude session) or "acp" (child process)
    faults

meta == <<status, claim, cleanup>>
local == <<pc, verdict, evidence>>
world == <<backend, provider, session, handle, deadline, faults>>
vars == <<meta, result, lock, local, world>>

-----------------------------------------------------------------------------
Open == {"running", "awaiting_input"}
Terminal == {"succeeded", "failed", "stopped"}
Owners == {"deadline_monitor", "deadline_watchdog", "deadline_reaper"}

\* The owner string an actor claims with.
OwnerOf(a) == IF a = Worker THEN "deadline_monitor"
              ELSE IF a = Watchdog THEN "deadline_watchdog" ELSE "deadline_reaper"

NoResult == [outcome |-> "none", by |-> NoActor, cleanup |-> "none"]

Results == [outcome : {"none", "ok", "fail"},
            by : Actors \cup {NoActor},
            cleanup : {"none", "confirmed", "unconfirmed"}]

Stages == {"launch", "register", "work", "wait", "idle", "claim", "cancel",
           "set", "setFailure", "setClaimed", "failing", "meta", "lease", "flags", "stopCancel", "stopMark",
           "stopTerminate", "persist", "retryCancel", "retry", "retryMeta",
           "retryLease", "done", "dead"}

\* An actor that has nothing more to do: threads end, callers may come back.
Rest(a) == IF a \in {Worker, Watchdog} THEN "done" ELSE "idle"

Goto(a, stage) == pc' = [pc EXCEPT ![a] = stage]

\* The provider may also end by itself; only a confirmed cleanup proves it.
ProviderAfter(seen) ==
    provider' \in IF seen = "confirmed" THEN {"quiet"} ELSE {provider, "quiet"}

-----------------------------------------------------------------------------
TypeOK ==
    /\ status \in Open \cup Terminal
    /\ claim \in Owners \cup {"none"}
    /\ cleanup \in {"clear", "pending"}
    /\ result \in Results
    /\ lock \in Actors \cup {NoActor}
    /\ backend \in Backends
    /\ provider \in {"absent", "writing", "quiet"}
    /\ session \in {"unknown", "known"}
    /\ handle \in {"absent", "registered"}
    /\ deadline \in {"before", "elapsed", "grace"}
    /\ pc \in [Actors -> Stages]
    /\ verdict \in [Actors -> {"none", "ok", "fail"}]
    /\ evidence \in [Actors -> {"none", "confirmed", "unconfirmed"}]
    /\ faults \in 0 .. MaxFaults

\* A native job starts with its record created and the lease attached, before
\* the session is launched; an ACP job with its child process running and its
\* handle registered (its startup fences are a module of their own).
Init ==
    /\ status = "running" /\ claim = "none" /\ cleanup = "clear"
    /\ result = NoResult
    /\ lock = NoActor
    /\ backend \in Backends
    /\ provider = IF backend = "native" THEN "absent" ELSE "writing"
    /\ session = IF backend = "native" THEN "unknown" ELSE "known"
    /\ handle = IF backend = "native" THEN "absent" ELSE "registered"
    /\ deadline = "before"
    /\ pc = [a \in Actors |->
               IF a = Worker THEN IF backend = "native" THEN "launch" ELSE "work"
               ELSE IF a = Watchdog THEN "done" ELSE "idle"]
    /\ verdict = [a \in Actors |-> "none"]
    /\ evidence = [a \in Actors |-> "none"]
    /\ faults = 0

-----------------------------------------------------------------------------
(* start_claude_job and start_agent_job *)

\* adapter.launch returned a session; the handle is not registered yet.
LaunchSucceeds ==
    /\ pc[Worker] = "launch"
    /\ provider' = "writing"
    /\ Goto(Worker, "register")
    /\ UNCHANGED <<meta, result, lock, verdict, evidence, session, handle,
                   deadline, backend, faults>>

\* An exception or a missing session id leaves the launch unknown and keeps
\* the lease; an error reported by the launch means nothing was started.
LaunchFails(seen) ==
    /\ pc[Worker] = "launch"
    /\ provider' \in IF seen = "confirmed" THEN {"absent"} ELSE {"absent", "writing"}
    /\ verdict' = [verdict EXCEPT ![Worker] = "fail"]
    /\ evidence' = [evidence EXCEPT ![Worker] = seen]
    /\ Goto(Worker, "setFailure")
    /\ UNCHANGED <<meta, result, lock, session, handle, deadline, backend, faults>>

\* The tmux attach or the metadata write failed after the launch: the session
\* is cancelled, and its id and cleanup_pending are recorded before the result.
RollBackLaunch(seen) ==
    /\ pc[Worker] = "register" /\ session = "unknown" /\ lock = NoActor
    /\ ProviderAfter(seen)
    /\ session' = "known"
    /\ cleanup' = IF seen = "confirmed" THEN "clear" ELSE "pending"
    /\ verdict' = [verdict EXCEPT ![Worker] = "fail"]
    /\ evidence' = [evidence EXCEPT ![Worker] = seen]
    /\ Goto(Worker, "setFailure")
    /\ UNCHANGED <<status, claim, result, lock, handle, deadline, backend, faults>>

\* persist_claude_meta
RecordSession ==
    /\ pc[Worker] = "register" /\ session = "unknown" /\ lock = NoActor
    /\ session' = "known"
    /\ UNCHANGED <<meta, result, lock, local, provider, handle, deadline, backend, faults>>

StartMonitor ==
    /\ pc[Worker] = "register" /\ session = "known"
    /\ handle' = "registered"
    /\ pc' = [pc EXCEPT ![Worker] = "work", ![Watchdog] = "wait"]
    /\ UNCHANGED <<meta, result, lock, verdict, evidence, provider, session,
                   deadline, backend, faults>>

-----------------------------------------------------------------------------
(* The worker: _run_adapter_job for native sessions, run_acp_job for ACP. *)

\* transition_job_status between the two open statuses.
AwaitInput ==
    /\ pc[Worker] = "work" /\ lock = NoActor
    /\ status \in Open
    /\ status' \in Open \ {status}
    /\ UNCHANGED <<claim, cleanup, result, lock, local, world>>

\* The monitor sees that somebody else ended, or is ending, the job.
MonitorYields ==
    /\ backend = "native" /\ pc[Worker] \in {"work", "failing"}
    /\ status \in Terminal \/ claim # "none"
    /\ Goto(Worker, "done")
    /\ handle' = "absent"
    /\ UNCHANGED <<meta, result, lock, verdict, evidence, provider, session,
                   deadline, backend, faults>>

\* The provider's turn ended, well or badly: its process is finished with the
\* workspace and the result releases the lease.
TurnEnds(outcome) ==
    /\ pc[Worker] = "work"
    /\ provider' = "quiet"
    /\ verdict' = [verdict EXCEPT ![Worker] = outcome]
    /\ evidence' = [evidence EXCEPT ![Worker] = "confirmed"]
    /\ Goto(Worker, "set")
    /\ UNCHANGED <<meta, result, lock, session, handle, deadline, backend, faults>>

\* The worker gives up on its own exception and cancels the provider.
WorkerFails(seen) ==
    /\ pc[Worker] \in {"work", "failing"}
    /\ backend = "native" => status \in Open /\ claim = "none"
    /\ ProviderAfter(seen)
    /\ verdict' = [verdict EXCEPT ![Worker] = "fail"]
    /\ evidence' = [evidence EXCEPT ![Worker] = seen]
    /\ Goto(Worker, "setFailure")
    /\ UNCHANGED <<meta, result, lock, session, handle, deadline, backend, faults>>

\* The monitor's own deadline check, and the watchdog's timer.
DeadlineSeen(a) ==
    /\ backend = "native" /\ deadline # "before"
    /\ \/ a = Worker /\ pc[a] = "work" /\ status \in Open /\ claim = "none"
       \/ a = Watchdog /\ pc[a] = "wait"
    /\ Goto(a, "claim")
    /\ UNCHANGED <<meta, result, lock, verdict, evidence, world>>

\* run_and_release stops the watchdog's timer when the monitor is through.
WatchdogDismissed ==
    /\ pc[Watchdog] = "wait" /\ pc[Worker] = "done"
    /\ Goto(Watchdog, "done")
    /\ UNCHANGED <<meta, result, lock, verdict, evidence, world>>

-----------------------------------------------------------------------------
(* _reap_deadline_expired_job *)

\* Mutant: a job that waits for input is not looked at.
ReapScanRunningOnly(r) ==
    /\ pc[r] = "idle" /\ r \in Reapers
    /\ status = "running" /\ deadline = "grace"
    /\ Goto(r, "claim")
    /\ UNCHANGED <<meta, result, lock, verdict, evidence, world>>

\* The unlocked look at the metadata that decides to reap.
ReapScan(r) ==
    /\ pc[r] = "idle" /\ r \in Reapers
    /\ status \in Open /\ deadline = "grace"
    /\ Goto(r, "claim")
    /\ UNCHANGED <<meta, result, lock, verdict, evidence, world>>

\* claim_terminalization
ClaimTerminalization(a) ==
    /\ pc[a] = "claim" /\ lock = NoActor
    /\ \/ /\ status \in Open /\ claim = "none"
          /\ claim' = OwnerOf(a)
          /\ Goto(a, "cancel")
          /\ UNCHANGED handle
       \/ /\ status \notin Open \/ claim # "none"
          /\ Goto(a, Rest(a))
          /\ handle' = IF a = Worker THEN "absent" ELSE handle
          /\ UNCHANGED claim
    /\ UNCHANGED <<status, cleanup, result, lock, verdict, evidence,
                   provider, session, deadline, backend, faults>>

\* The claimant cancels the provider.  A reaper gets positive evidence only
\* through a run handle of its own process.
CancelProvider(a, seen) ==
    /\ pc[a] = "cancel"
    /\ seen = "confirmed" /\ a \in Reapers => a \in Home /\ handle = "registered"
    /\ ProviderAfter(seen)
    /\ verdict' = [verdict EXCEPT ![a] = "fail"]
    /\ evidence' = [evidence EXCEPT ![a] = seen]
    /\ Goto(a, "setClaimed")
    /\ UNCHANGED <<meta, result, lock, session, handle, deadline, backend, faults>>

-----------------------------------------------------------------------------
(* set_result *)

SetStages == {"set", "setFailure", "setClaimed"}

\* Mutants: a claimed job, a stopped job, a job that is over is written over.
RejectedIfTerminal(a) == status \notin Open
RejectedUnlessStopped(a) ==
    \/ status \in {"succeeded", "failed"}
    \/ claim # "none" /\ ~(pc[a] = "setClaimed" /\ claim = OwnerOf(a))

RejectedIfClaimed(a) ==
    claim # "none" /\ ~(pc[a] = "setClaimed" /\ claim = OwnerOf(a))

\* Rejected on a terminal job and on one somebody else has claimed.
Rejected(a) == \/ status \notin Open
               \/ claim # "none" /\ ~(pc[a] = "setClaimed" /\ claim = OwnerOf(a))

SetResultRejected(a) ==
    /\ pc[a] \in SetStages /\ lock = NoActor
    /\ Rejected(a)
    /\ Goto(a, Rest(a))
    /\ handle' = IF a = Worker THEN "absent" ELSE handle
    /\ UNCHANGED <<meta, result, lock, verdict, evidence, provider, session,
                   deadline, backend, faults>>

\* Mutant: the status is published without waiting for the result.
SetResultLater(a) ==
    /\ pc[a] \in SetStages /\ lock = NoActor
    /\ ~Rejected(a)
    /\ lock' = a
    /\ Goto(a, "meta")
    /\ UNCHANGED <<meta, result, verdict, evidence, world>>

\* result.json is replaced first ...
SetResult(a) ==
    /\ pc[a] \in SetStages /\ lock = NoActor
    /\ ~Rejected(a)
    /\ result' = [outcome |-> verdict[a], by |-> a, cleanup |-> evidence[a]]
    /\ lock' = a
    /\ Goto(a, "meta")
    /\ UNCHANGED <<meta, verdict, evidence, world>>

\* ... and meta.json second, which ends the critical section.
PublishStatus(a) ==
    /\ pc[a] = "meta" /\ lock = a
    /\ status' = IF verdict[a] = "ok" THEN "succeeded" ELSE "failed"
    /\ lock' = NoActor
    /\ Goto(a, "lease")
    /\ UNCHANGED <<claim, cleanup, result, verdict, evidence, world>>

\* A native claimant repeats its cleanup flags in the metadata afterwards.
AfterLease(a) ==
    IF claim = OwnerOf(a) /\ a \in {Worker, Watchdog} THEN "flags" ELSE Rest(a)

LeaseDone(a) ==
    /\ Goto(a, AfterLease(a))
    /\ handle' = IF a = Worker /\ AfterLease(a) = "done" THEN "absent" ELSE handle

\* _release_writer_lease: the lease itself belongs to WriterLease.
ReleaseLease(a) ==
    /\ pc[a] = "lease" /\ evidence[a] = "confirmed"
    /\ LeaseDone(a)
    /\ UNCHANGED <<meta, result, lock, verdict, evidence, provider, session,
                   deadline, backend, faults>>

\* Mutant: the retained lease is not flagged.
MarkForgotten(a) ==
    /\ pc[a] = "lease" /\ evidence[a] = "unconfirmed" /\ lock = NoActor
    /\ LeaseDone(a)
    /\ UNCHANGED <<meta, result, lock, verdict, evidence, provider, session,
                   deadline, backend, faults>>

\* update_job_meta({"cleanup_pending": True}), a second critical section.
MarkCleanupPending(a) ==
    /\ pc[a] = "lease" /\ evidence[a] = "unconfirmed" /\ lock = NoActor
    /\ cleanup' = "pending"
    /\ LeaseDone(a)
    /\ UNCHANGED <<status, claim, result, lock, verdict, evidence,
                   provider, session, deadline, backend, faults>>

\* The last update_job_meta of _terminalize_runtime_deadline.
RecordCleanupFlags(a) ==
    /\ pc[a] = "flags" /\ lock = NoActor
    /\ cleanup' = IF evidence[a] = "confirmed" THEN "clear" ELSE "pending"
    /\ Goto(a, "done")
    /\ handle' = IF a = Worker THEN "absent" ELSE handle
    /\ UNCHANGED <<status, claim, result, lock, verdict, evidence,
                   provider, session, deadline, backend, faults>>

-----------------------------------------------------------------------------
(* job_stop, JobStore.stop_job and set_stopped_result *)

StopRequested(s) ==
    /\ pc[s] = "idle" /\ s \in Stoppers
    /\ status \in Open
    /\ Goto(s, "stopCancel")
    /\ UNCHANGED <<meta, result, lock, verdict, evidence, world>>

\* Cleanup evidence gathered before the status changes.  A run handle of this
\* process answers truthfully.  Without one a native stop has no evidence at
\* all, which _cleanup_confirmed reads as confirmed whatever adapter.cancel
\* returned; an ACP stop looks for the child process afterwards.
StopCancel(s, seen) ==
    /\ pc[s] = "stopCancel"
    /\ IF s \in Home /\ handle = "registered"
       THEN seen # "none" /\ ProviderAfter(seen)
       ELSE IF backend = "native"
            THEN seen = "confirmed" /\ provider' \in
                    IF session = "known" THEN {provider, "quiet"} ELSE {provider}
            ELSE seen = "none" /\ UNCHANGED provider
    /\ evidence' = [evidence EXCEPT ![s] = seen]
    /\ Goto(s, "stopMark")
    /\ UNCHANGED <<meta, result, lock, verdict, session, handle, deadline, backend, faults>>

\* The critical section of stop_job.  It does not look at the claim.
StopMark(s) ==
    /\ pc[s] = "stopMark" /\ lock = NoActor
    /\ \/ /\ status \in Open
          /\ status' = "stopped"
          /\ Goto(s, IF evidence[s] = "none" THEN "stopTerminate" ELSE "persist")
       \/ /\ status \in Terminal
          /\ Goto(s, "idle")
          /\ UNCHANGED status
    /\ UNCHANGED <<claim, cleanup, result, lock, verdict, evidence, world>>

\* safe_acp_termination after the stop was recorded.
StopTerminate(s, seen) ==
    /\ pc[s] = "stopTerminate"
    /\ ProviderAfter(seen)
    /\ evidence' = [evidence EXCEPT ![s] = seen]
    /\ Goto(s, "persist")
    /\ UNCHANGED <<meta, result, lock, verdict, session, handle, deadline, backend, faults>>

\* An existing result.json is left alone, and so is the lease.
SetStoppedResult(s) ==
    /\ pc[s] = "persist" /\ lock = NoActor
    /\ IF result.outcome = "none"
       THEN /\ result' = [outcome |-> "fail", by |-> s, cleanup |-> evidence[s]]
            /\ Goto(s, "lease")
       ELSE /\ UNCHANGED result
            /\ Goto(s, "idle")
    /\ UNCHANGED <<meta, lock, verdict, evidence, world>>

-----------------------------------------------------------------------------
(* terminalize-job on a terminal job: _retry_terminal_cleanup *)

\* The result of a launch that failed has no envelope to say so.
RetryRequested(t) ==
    /\ pc[t] = "idle" /\ t \in Retriers
    /\ status \in Terminal
    /\ \/ cleanup = "pending"
       \/ result.cleanup = "unconfirmed" /\ ~(result.by = Worker /\ session = "unknown")
    /\ Goto(t, "retryCancel")
    /\ UNCHANGED <<meta, result, lock, verdict, evidence, world>>

RetryCancel(t, seen) ==
    /\ pc[t] = "retryCancel"
    /\ seen = "confirmed" => session = "known"
    /\ ProviderAfter(seen)
    /\ evidence' = [evidence EXCEPT ![t] = seen]
    /\ Goto(t, "retry")
    /\ UNCHANGED <<meta, result, lock, verdict, session, handle, deadline, backend, faults>>

\* record_terminal_cleanup_retry: only the cleanup evidence of the result.
RecordTerminalCleanupRetry(t) ==
    /\ pc[t] = "retry" /\ lock = NoActor
    /\ IF result.outcome = "none"
       THEN Goto(t, "idle") /\ UNCHANGED <<result, lock>>
       ELSE /\ result' = [result EXCEPT !.cleanup = evidence[t]]
            /\ lock' = t
            /\ Goto(t, "retryMeta")
    /\ UNCHANGED <<meta, verdict, evidence, world>>

RecordRetryFlags(t) ==
    /\ pc[t] = "retryMeta" /\ lock = t
    /\ cleanup' = IF evidence[t] = "confirmed" THEN "clear" ELSE "pending"
    /\ lock' = NoActor
    /\ Goto(t, IF evidence[t] = "confirmed" THEN "retryLease" ELSE "idle")
    /\ UNCHANGED <<status, claim, result, verdict, evidence, world>>

RetryReleasesLease(t) ==
    /\ pc[t] = "retryLease"
    /\ Goto(t, "idle")
    /\ UNCHANGED <<meta, result, lock, verdict, evidence, world>>

-----------------------------------------------------------------------------
(* Environment *)

TimePasses ==
    /\ \/ deadline = "before" /\ deadline' = "elapsed"
       \/ deadline = "elapsed" /\ deadline' = "grace"
    /\ UNCHANGED <<meta, result, lock, local, provider, session, handle, backend, faults>>

\* A crash takes every actor of the process with it and frees its flock; the
\* provider is another process and goes on.
Crash(gone) ==
    /\ faults < MaxFaults
    /\ faults' = faults + 1
    /\ pc' = [a \in Actors |-> IF a \in gone THEN "dead" ELSE pc[a]]
    /\ lock' = IF lock \in gone THEN NoActor ELSE lock
    /\ handle' = IF Worker \in gone THEN "absent" ELSE handle
    /\ UNCHANGED <<meta, result, verdict, evidence, provider, session, deadline, backend>>

Processes == {Home} \cup {{a} : a \in Actors \ Home}

\* _atomic_write_json raises, before anything was replaced: the exception
\* leaves the critical section and ends this actor's attempt.  Only the native
\* monitor catches it, once, and tries to publish a failure instead; an ACP
\* worker unwinds past the release of its run handle.
WriteFails(a) ==
    /\ faults < MaxFaults /\ lock = NoActor
    /\ \/ pc[a] \in SetStages /\ ~Rejected(a)
       \/ pc[a] = "persist" /\ result.outcome = "none"
    /\ faults' = faults + 1
    /\ IF pc[a] = "set" /\ backend = "native"
       THEN Goto(a, "failing") /\ UNCHANGED handle
       ELSE /\ Goto(a, Rest(a))
            /\ handle' = IF a = Worker /\ backend = "native" THEN "absent" ELSE handle
    /\ UNCHANGED <<meta, result, lock, verdict, evidence, provider, session, deadline, backend>>

-----------------------------------------------------------------------------
Seen == {"confirmed", "unconfirmed"}

WorkerStep ==
    \/ LaunchSucceeds \/ RecordSession \/ StartMonitor \/ AwaitInput \/ MonitorYields
    \/ \E seen \in Seen : LaunchFails(seen) \/ RollBackLaunch(seen) \/ WorkerFails(seen)
    \/ \E outcome \in {"ok", "fail"} : TurnEnds(outcome)

DeadlineStep(a) ==
    \/ DeadlineSeen(a) \/ ReapScan(a) \/ ClaimTerminalization(a)
    \/ \E seen \in Seen : CancelProvider(a, seen)

PublishStep(a) ==
    \/ SetResultRejected(a) \/ SetResult(a) \/ PublishStatus(a)
    \/ ReleaseLease(a) \/ MarkCleanupPending(a) \/ RecordCleanupFlags(a)

StopStep(s) ==
    \/ StopRequested(s) \/ StopMark(s) \/ SetStoppedResult(s)
    \/ \E seen \in Seen \cup {"none"} : StopCancel(s, seen)
    \/ \E seen \in Seen : StopTerminate(s, seen)

RetryStep(t) ==
    \/ RetryRequested(t) \/ RecordTerminalCleanupRetry(t)
    \/ RecordRetryFlags(t) \/ RetryReleasesLease(t)
    \/ \E seen \in Seen : RetryCancel(t, seen)

Environment ==
    \/ TimePasses \/ WatchdogDismissed
    \/ \E gone \in Processes : Crash(gone)
    \/ \E a \in Actors : WriteFails(a)

Next ==
    \/ WorkerStep
    \/ \E a \in Actors : DeadlineStep(a) \/ PublishStep(a) \/ StopStep(a) \/ RetryStep(a)
    \/ Environment

Spec == Init /\ [][Next]_vars

\* Threads that were scheduled go on, time passes, and as long as a job is
\* open somebody keeps looking at it: every agent_start, job_tail, job_result
\* and job_list reaps what has expired.  Nothing obliges the provider to end
\* its turn, a caller to stop the job or an operator to retry a cleanup.
Fairness ==
    /\ WF_vars(TimePasses)
    /\ \A a \in Actors :
          /\ WF_vars(DeadlineStep(a)) /\ WF_vars(PublishStep(a))
          /\ WF_vars(\E seen \in Seen \cup {"none"} : StopCancel(a, seen))
          /\ WF_vars(\E seen \in Seen : StopTerminate(a, seen))
          /\ WF_vars(StopMark(a)) /\ WF_vars(SetStoppedResult(a))

FairSpec == Spec /\ Fairness

-----------------------------------------------------------------------------
(* Properties *)

Exists == result.outcome # "none"
Collectable == status \in Terminal /\ Exists

\* The status a reader sees and the result it collects never contradict each
\* other: a job is succeeded or failed only with the result that says so,
\* although the two live in two files written one after the other and a
\* crash, a late worker, a reaper or a stop may come between the writes.
StatusMatchesResult ==
    status \in {"succeeded", "failed"} =>
        result.outcome = IF status = "succeeded" THEN "ok" ELSE "fail"

\* Of the monitor, the watchdog and the reapers of every process at most one
\* gets past claim_terminalization to cancel the provider and publish.
OneTerminalizer ==
    \A a, b \in Actors :
        pc[a] \in {"cancel", "setClaimed"} /\ pc[b] \in {"cancel", "setClaimed"} => a = b

\* Once a deadline actor has claimed the job, no worker finishing late and no
\* other deadline actor decides its outcome: the result is the claimant's, or
\* the job was stopped.
ClaimDecides ==
    status \in {"succeeded", "failed"} /\ claim # "none" =>
        result.by \notin Stoppers /\ OwnerOf(result.by) = claim

\* A job that a caller stopped is not afterwards collected as a success of the
\* worker it raced, unless a fault separated the worker's two writes.
StopBeatsCompletion ==
    status = "stopped" /\ faults = 0 => result.outcome # "ok"

\* A provider that goes on writing after an unconfirmed cleanup does not stay
\* unflagged: whoever published the result is still on the way to record
\* cleanup_pending, and no other actor's late flags erase it.  A crash on that
\* way breaks this, so it is claimed for runs without faults.
UnconfirmedGetsFlagged ==
    /\ status \in Terminal /\ result.cleanup = "unconfirmed"
    /\ provider = "writing" /\ faults = 0
    => \/ cleanup = "pending"
       \/ \E a \in Actors : pc[a] \in {"lease", "flags", "retryMeta"}

\* Confirmed cleanup is positive evidence ("whether provider cleanup was
\* positively confirmed"): no interleaving of a launch, a stop, a reaper and a
\* retry leaves a result that says so beside a provider that still writes.
ConfirmedMeansQuiet ==
    result.cleanup = "confirmed" => provider # "writing"

\* A terminal job keeps its status, and a collectable result keeps its outcome
\* and its author: a cleanup retry adds evidence and nothing else, a late
\* worker, reaper or stop adds nothing at all.
TerminalIsFinal ==
    [][/\ status \in Terminal => status' = status
       /\ Collectable => result'.outcome = result.outcome /\ result'.by = result.by]_vars

\* The contract of a job's end, read off the files as a reader combines them.
Contract == INSTANCE JobContract
    WITH outcome <- IF status \in Open THEN "open" ELSE status,
         collected <- IF Collectable THEN "yes" ELSE "no"
ImplementsContract == Contract!ContractSpec

\* set_result is the only guard that keeps a second result from being
\* persisted ("exactly one durable terminal result is ever persisted"): once
\* result.json exists its outcome and author stay.
OneDurableResult ==
    [][Exists => result'.outcome = result.outcome /\ result'.by = result.by]_vars

\* A fault left the job claimed with nobody to finish, or stopped with nobody
\* to write the result.
Stranded ==
    /\ faults > 0
    /\ \/ /\ claim # "none" /\ status \in Open
          /\ \A a \in Actors : pc[a] \notin {"cancel", "setClaimed", "meta"}
       \/ /\ status = "stopped" /\ ~Exists
          /\ \A s \in Stoppers : pc[s] \notin {"stopTerminate", "persist"}

\* A job whose deadline and grace are over becomes collectable, whichever of
\* its actors race for it and whichever process dies, unless a fault hit the
\* very actor that had claimed or stopped it.
ExpiredIsCollectedOrStranded == deadline = "grace" ~> Collectable \/ Stranded

\* The same without the exception: "a dead predecessor never blocks a
\* replacement writer past its declared deadline".
ExpiredIsCollected == deadline = "grace" ~> Collectable
=============================================================================
