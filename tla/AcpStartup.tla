---------------------------- MODULE AcpStartup ----------------------------
(***************************************************************************)
(* One ACP job from its coroutine to its result: run_acp_job with          *)
(* run_acp_prompt, the fences between them, the run-handle registry, and   *)
(* job_stop calls that may arrive at any point (acp_runtime.py,            *)
(* acp_client.py, run_handles.py, the ACP part of server.job_stop).        *)
(* Publishing a result and settling the lease is one step here; JobLifecycle *)
(* takes it apart.                                                         *)
(***************************************************************************)
EXTENDS Naturals

CONSTANTS
    Local, Remote,  \* a caller of job_stop in the worker's process, one elsewhere
    MaxFaults       \* bound on crashes, failed writes and evicted handles

ASSUME CallersAssumption == Local # Remote /\ "worker" \notin {Local, Remote}
ASSUME MaxFaultsAssumption == MaxFaults \in Nat

Callers == {Local, Remote}

VARIABLES
    status,     \* meta.status
    receipt,    \* what the durable result says of the provider's cleanup
    lease,      \* the job still holds its writer lease
    flagged,    \* meta.cleanup_pending
    pending,    \* meta.acp_launch_pending
    identity,   \* meta.acp_pid with its start and group: none, partial, full
    registry,   \* whose handle run_handles has for the job, and its event
    event,      \* the cancel event of the worker's own handle
    observed,   \* what the worker itself remembers of the identity
    pc,         \* the worker
    error,      \* how run_acp_prompt ended
    call,       \* what each caller does next
    evidence,   \* what the worker and the callers learned about the cleanup
    child,      \* the provider's process, the leader of its group
    kin,        \* processes the provider left in its group
    prompted,   \* the prompt went out
    faults

record == <<status, receipt, lease, flagged, pending, identity>>
handles == <<registry, event>>
worker == <<observed, pc, error>>
provider == <<child, kin, prompted>>
vars == <<record, handles, worker, call, evidence, provider, faults>>

Handle == [by : {"nobody", "worker", "caller"}, set : BOOLEAN]
NoHandle == [by |-> "nobody", set |-> FALSE]

InContext == {"record", "recordFence", "prepare", "promptFence", "prompt"}
Preparing == {"begin", "register", "firstFence", "intent", "spawnFence"}
Over == {"done", "dead"}

TypeOK ==
    /\ status \in {"running", "stopped", "failed", "succeeded"}
    /\ receipt \in {"none", "silent", "confirmed", "unconfirmed"}
    /\ lease \in BOOLEAN /\ flagged \in BOOLEAN /\ pending \in BOOLEAN
    /\ identity \in {"none", "partial", "full"}
    /\ observed \in {"none", "partial", "full"}
    /\ registry \in Handle
    /\ event \in BOOLEAN
    /\ pc \in Preparing \cup {"spawn", "handle", "publish"} \cup InContext \cup Over
    /\ error \in {"none", "protocol", "silent", "launch", "interrupted"}
    /\ call \in [Callers -> {"idle", "cancel", "set", "terminate", "mark",
                             "collect", "persist", "gone"}]
    /\ evidence \in [Callers \cup {"worker"} -> {"none", "confirmed", "unconfirmed"}]
    /\ child \in {"absent", "alive", "gone"}
    /\ kin \in BOOLEAN /\ prompted \in BOOLEAN
    /\ faults \in 0 .. MaxFaults

\* agent_start created the record, attached the lease and scheduled the task.
Init ==
    /\ status = "running" /\ receipt = "none"
    /\ lease = TRUE /\ flagged = FALSE /\ pending = FALSE
    /\ identity = "none" /\ observed = "none"
    /\ registry = NoHandle /\ event = FALSE
    /\ pc = "begin" /\ error = "none"
    /\ call = [c \in Callers |-> "idle"]
    /\ evidence = [a \in Callers \cup {"worker"} |-> "none"]
    /\ child = "absent" /\ kin = FALSE /\ prompted = FALSE
    /\ faults = 0

-----------------------------------------------------------------------------
(* safe_acp_termination *)

\* What the process table tells of a fresh child: its pid alone, or its start
\* time and group as well.
Identities == {"partial", "full"}

\* The group got SIGTERM, which its other members may survive, or SIGKILL,
\* which is confirmed for the whole group or not at all.
Signalled == [seen : {"confirmed"}, child : {"gone"}, kin : {kin, FALSE}]

\* Mutant: a process that cannot be identified is reported as gone.
MutTermination(id) ==
    IF id = "none" THEN {[seen |-> "confirmed", child |-> child, kin |-> kin]}
    ELSE {[seen |-> "confirmed", child |-> "gone", kin |-> FALSE]}

\* Nothing is proved without a pid; a leader that is gone is proof by itself;
\* without start time and group, or when they differ, no signal is sent.
Termination(id) ==
    LET Untouched(seen) == [seen |-> seen, child |-> child, kin |-> kin]
    IN  IF id = "none" THEN {Untouched("unconfirmed")}
        ELSE IF child # "alive" THEN {Untouched("confirmed")}
        ELSE IF id = "partial" THEN {Untouched("unconfirmed")}
        ELSE {Untouched("unconfirmed")} \cup Signalled

Terminate(who, id) ==
    \E t \in Termination(id) :
        /\ evidence' = [evidence EXCEPT ![who] = t.seen]
        /\ child' = t.child
        /\ kin' = t.kin
        /\ UNCHANGED prompted

-----------------------------------------------------------------------------
(* run_acp_job up to the child process *)

\* Mutant: the fences look at the in-memory event only.
MutStopSeen == event

\* handle.cancelled or a durable status that is not running
StopSeen == event \/ status # "running"

Begin ==
    /\ pc = "begin"
    /\ pc' = IF status = "running" THEN "register" ELSE "done"
    /\ UNCHANGED <<record, handles, observed, error, call, evidence, provider, faults>>

\* RunHandleRegistry.register: a cancelled tombstone hands its state over.
Register ==
    /\ pc = "register"
    /\ event' = registry.set
    /\ registry' = [by |-> "worker", set |-> registry.set]
    /\ pc' = "firstFence"
    /\ UNCHANGED <<record, observed, error, call, evidence, provider, faults>>

\* A stop came first: the job is its caller's, and so is the result.
FirstFence ==
    /\ pc = "firstFence"
    /\ pc' = IF StopSeen THEN "done" ELSE "intent"
    /\ registry' = IF StopSeen THEN NoHandle ELSE registry
    /\ UNCHANGED <<record, event, observed, error, call, evidence, provider, faults>>

LaunchIntent ==
    /\ pc = "intent"
    /\ pending' = TRUE
    /\ pc' = "spawnFence"
    /\ UNCHANGED <<status, receipt, lease, flagged, identity, handles, observed,
                   error, call, evidence, provider, faults>>

\* _before_process_start
SpawnFence ==
    /\ pc = "spawnFence"
    /\ IF StopSeen THEN pc' = "handle" /\ error' = "protocol"
       ELSE pc' = "spawn" /\ UNCHANGED error
    /\ UNCHANGED <<record, handles, observed, call, evidence, provider, faults>>

Spawn ==
    /\ pc = "spawn"
    /\ child' = "alive"
    /\ pc' = "record"
    /\ UNCHANGED <<record, handles, observed, error, call, evidence, kin, prompted, faults>>

\* No binary, or another error of the spawn itself.
SpawnFails(kind) ==
    /\ pc = "spawn"
    /\ pc' = "handle" /\ error' = kind
    /\ UNCHANGED <<record, handles, observed, call, evidence, provider, faults>>

\* The overall timeout or a cancelled task ends the wait for the spawn: the
\* process may be there or not, and nobody has seen its pid.
SpawnAbandoned(kind) ==
    /\ pc = "spawn"
    /\ child' \in {"absent", "alive"}
    /\ pc' = "handle" /\ error' = kind
    /\ UNCHANGED <<record, handles, observed, call, evidence, kin, prompted, faults>>

-----------------------------------------------------------------------------
(* run_acp_prompt with its process *)

\* The context manager of the SDK ends the leader on every way out.
LeaveContext(kind) ==
    /\ child' = "gone"
    /\ pc' = "handle"
    /\ error' = kind
    /\ UNCHANGED <<kin, prompted>>

\* _record_acp_pid: the worker remembers the identity before it is durable.
RecordPid(id) ==
    /\ pc = "record"
    /\ observed' = id /\ identity' = id
    /\ pending' = FALSE
    /\ pc' = "recordFence"
    /\ UNCHANGED <<status, receipt, lease, flagged, handles, error, call, evidence,
                   provider, faults>>

RecordPidFails(id) ==
    /\ pc = "record" /\ faults < MaxFaults
    /\ observed' = id
    /\ LeaveContext("protocol")
    /\ faults' = faults + 1
    /\ UNCHANGED <<record, handles, call, evidence>>

RecordFence ==
    /\ pc = "recordFence"
    /\ IF StopSeen THEN LeaveContext("protocol")
       ELSE pc' = "prepare" /\ UNCHANGED <<error, provider>>
    /\ UNCHANGED <<record, handles, observed, call, evidence, faults>>

\* initialize, session/new, model, effort and mode were accepted.
PrepareSession ==
    /\ pc = "prepare" /\ child = "alive"
    /\ pc' = "promptFence"
    /\ UNCHANGED <<record, handles, observed, error, call, evidence, provider, faults>>

\* _before_prompt
PromptFence ==
    /\ pc = "promptFence"
    /\ IF StopSeen THEN LeaveContext("protocol")
       ELSE /\ prompted' = TRUE /\ pc' = "prompt"
            /\ UNCHANGED <<error, child, kin>>
    /\ UNCHANGED <<record, handles, observed, call, evidence, faults>>

\* A protocol error or the exit of the process; a timeout or an exhausted
\* provider, neither of which looks at the cleanup; or a cancelled task.
ContextFails(kind) ==
    /\ pc \in {"prepare", "prompt"}
    /\ LeaveContext(kind)
    /\ UNCHANGED <<record, handles, observed, call, evidence, faults>>

\* The turn came back, but with a rejected permission, without output or with
\* a native stop reason that says it is not complete.
IncompleteTurn ==
    /\ pc = "prompt" /\ child = "alive"
    /\ LeaveContext("silent")
    /\ UNCHANGED <<record, handles, observed, call, evidence, faults>>

Published(outcome, seen, free) ==
    IF status = "running"
    THEN /\ status' = outcome
         /\ receipt' = IF seen = "none" THEN "silent" ELSE seen
         /\ lease' = (lease /\ ~free)
         /\ flagged' = (lease /\ ~free)
    ELSE UNCHANGED <<status, receipt, lease, flagged>>

\* A complete turn; the result may find the job already ended.
Succeed ==
    /\ pc = "prompt" /\ child = "alive"
    /\ child' = "gone"
    /\ Published("succeeded", "none", TRUE)
    /\ registry' = NoHandle
    /\ pc' = "done"
    /\ UNCHANGED <<pending, identity, event, observed, error, call, evidence, kin,
                   prompted, faults>>

-----------------------------------------------------------------------------
(* The error handlers of run_acp_job, and _fail *)

HandleProtocol ==
    /\ error = "protocol"
    /\ \/ observed # "none" /\ Terminate("worker", observed) /\ UNCHANGED pending
       \/ observed = "none" /\ StopSeen
          /\ pending' = FALSE
          /\ evidence' = [evidence EXCEPT !["worker"] = "confirmed"]
          /\ UNCHANGED provider
       \/ observed = "none" /\ ~StopSeen
          /\ UNCHANGED <<pending, evidence, provider>>

HandleLaunch ==
    /\ error = "launch"
    /\ pending' = FALSE
    /\ UNCHANGED <<evidence, provider>>

HandleInterrupt ==
    /\ error = "interrupted"
    /\ Terminate("worker", identity)
    /\ UNCHANGED pending

HandleSilent ==
    /\ error = "silent"
    /\ UNCHANGED <<pending, evidence, provider>>

HandleError ==
    /\ pc = "handle"
    /\ HandleProtocol \/ HandleLaunch \/ HandleInterrupt \/ HandleSilent
    /\ pc' = "publish"
    /\ UNCHANGED <<status, receipt, lease, flagged, identity, handles, observed,
                   error, call, faults>>

\* Mutant: an unfinished launch is not looked at.
MutFreesLease(unread) == evidence["worker"] # "unconfirmed"

\* A pending launch, or meta that cannot be read, needs proof of the cleanup;
\* otherwise only evidence to the contrary keeps the lease.
FreesLease(unread) ==
    \/ evidence["worker"] = "confirmed"
    \/ evidence["worker"] = "none" /\ ~pending /\ ~unread

\* _fail
Fail(unread) ==
    /\ pc = "publish"
    /\ unread => faults < MaxFaults
    /\ faults' = IF unread THEN faults + 1 ELSE faults
    /\ Published("failed", evidence["worker"], FreesLease(unread))
    /\ registry' = NoHandle
    /\ pc' = "done"
    /\ UNCHANGED <<pending, identity, event, observed, error, call, evidence, provider>>

-----------------------------------------------------------------------------
(* job_stop of an ACP job *)

StopBegins(c) ==
    /\ call[c] = "idle" /\ status = "running"
    /\ call' = [call EXCEPT ![c] = "cancel"]
    /\ UNCHANGED <<record, handles, worker, evidence, provider, faults>>

\* The registry of another process does not know the worker.
StopElsewhere(c) ==
    /\ call[c] = "cancel" /\ c = Remote
    /\ call' = [call EXCEPT ![c] = "mark"]
    /\ UNCHANGED <<record, handles, worker, evidence, provider, faults>>

\* RunHandleRegistry.cancel finds a handle: the worker's has a callback.
StopCancels(c) ==
    /\ call[c] = "cancel" /\ c = Local /\ registry.by # "nobody"
    /\ registry' = [registry EXCEPT !.set = TRUE]
    /\ event' = (event \/ registry.by = "worker")
    /\ call' = [call EXCEPT ![c] = IF registry.by = "worker" THEN "terminate" ELSE "mark"]
    /\ UNCHANGED <<record, worker, evidence, provider, faults>>

\* It finds none: a tombstone is registered first and cancelled afterwards,
\* and a worker that registers in between replaces it unseen.
StopRegisters(c) ==
    /\ call[c] = "cancel" /\ c = Local /\ registry.by = "nobody"
    /\ registry' = [by |-> "caller", set |-> FALSE]
    /\ call' = [call EXCEPT ![c] = "set"]
    /\ UNCHANGED <<record, event, worker, evidence, provider, faults>>

StopSets(c) ==
    /\ call[c] = "set"
    /\ registry' = IF registry.by = "caller" THEN [registry EXCEPT !.set = TRUE] ELSE registry
    /\ call' = [call EXCEPT ![c] = "mark"]
    /\ UNCHANGED <<record, event, worker, evidence, provider, faults>>

\* _acp_stop_evidence, the callback of the worker's handle
StopCallback(c) ==
    /\ call[c] = "terminate"
    /\ Terminate(c, identity)
    /\ call' = [call EXCEPT ![c] = "mark"]
    /\ UNCHANGED <<record, handles, worker, faults>>

StopMarks(c) ==
    /\ call[c] = "mark"
    /\ IF status = "running"
       THEN status' = "stopped" /\ call' = [call EXCEPT ![c] = "collect"]
       ELSE call' = [call EXCEPT ![c] = "gone"] /\ UNCHANGED status
    /\ UNCHANGED <<receipt, lease, flagged, pending, identity, handles, worker,
                   evidence, provider, faults>>

\* The receipt of the callback, or a termination of its own.
StopCollects(c) ==
    /\ call[c] = "collect"
    /\ IF evidence[c] = "none" THEN Terminate(c, identity) ELSE UNCHANGED <<evidence, provider>>
    /\ call' = [call EXCEPT ![c] = "persist"]
    /\ UNCHANGED <<record, handles, worker, faults>>

\* Mutant: the result waits for a confirmed cleanup.
MutStopPersists(c) ==
    /\ call[c] = "persist" /\ evidence[c] = "confirmed"
    /\ receipt' = evidence[c]
    /\ lease' = FALSE /\ flagged' = FALSE
    /\ call' = [call EXCEPT ![c] = "gone"]
    /\ UNCHANGED <<status, pending, identity, handles, worker, evidence, provider, faults>>

\* set_stopped_result
StopPersists(c) ==
    /\ call[c] = "persist"
    /\ receipt' = evidence[c]
    /\ lease' = (evidence[c] # "confirmed")
    /\ flagged' = (evidence[c] # "confirmed")
    /\ call' = [call EXCEPT ![c] = "gone"]
    /\ UNCHANGED <<status, pending, identity, handles, worker, evidence, provider, faults>>

-----------------------------------------------------------------------------
(* The world *)

\* The provider's process ends by itself.
ChildExits ==
    /\ child = "alive"
    /\ child' = "gone"
    /\ UNCHANGED <<record, handles, worker, call, evidence, kin, prompted, faults>>

\* A prompted provider starts processes of its own; they may end, too.
KinChanges ==
    /\ kin \/ (child = "alive" /\ prompted)
    /\ kin' = ~kin
    /\ UNCHANGED <<record, handles, worker, call, evidence, child, prompted, faults>>

\* More than MAX_HANDLES later registrations push this one out.
Evict ==
    /\ registry.by # "nobody" /\ faults < MaxFaults
    /\ registry' = NoHandle
    /\ faults' = faults + 1
    /\ UNCHANGED <<record, event, worker, call, evidence, provider>>

\* The server process dies with its worker, its caller and its registry.
Crash ==
    /\ pc # "dead" /\ faults < MaxFaults
    /\ pc' = "dead"
    /\ call' = [call EXCEPT ![Local] = "gone"]
    /\ registry' = NoHandle
    /\ faults' = faults + 1
    /\ UNCHANGED <<record, event, observed, error, evidence, provider>>

WorkerStep ==
    \/ Begin \/ Register \/ FirstFence \/ LaunchIntent \/ SpawnFence
    \/ Spawn \/ SpawnFails("launch") \/ SpawnFails("protocol")
    \/ SpawnAbandoned("silent") \/ SpawnAbandoned("interrupted")
    \/ \E id \in Identities : RecordPid(id) \/ RecordPidFails(id)
    \/ RecordFence \/ PrepareSession \/ PromptFence
    \/ \E kind \in {"protocol", "silent", "interrupted"} : ContextFails(kind)
    \/ IncompleteTurn \/ Succeed \/ HandleError \/ \E unread \in BOOLEAN : Fail(unread)

StopStep(c) ==
    \/ StopElsewhere(c) \/ StopCancels(c) \/ StopRegisters(c) \/ StopSets(c)
    \/ StopCallback(c) \/ StopMarks(c) \/ StopCollects(c) \/ StopPersists(c)

Next ==
    \/ WorkerStep
    \/ \E c \in Callers : StopBegins(c) \/ StopStep(c)
    \/ ChildExits \/ KinChanges \/ Evict \/ Crash

Spec == Init /\ [][Next]_vars

\* Every wait of the worker has a timeout (30 s for the startup, the job's
\* runtime for the turn) and a call that began runs to its end.
FairSpec == Spec /\ WF_vars(WorkerStep) /\ \A c \in Callers : WF_vars(StopStep(c))

-----------------------------------------------------------------------------
\* Whoever published the result, the writer lease is free only when the
\* provider's leader does not run and the worker cannot start one any more
\* (the release rules of _fail and set_stopped_result, acp_launch_pending).
FreeMeansNoLeader ==
    ~lease => child # "alive" /\ (pc \in Over \/ observed # "none" \/ error # "none")

\* "startup_cancelled_before_spawn" and every other confirmed cleanup is true
\* of the leader for good: none was alive, and none comes later.
ConfirmedMeansNoLeader ==
    [](receipt = "confirmed" => [](child # "alive"))

\* A stop that is durable before the worker passed its spawn fence keeps the
\* provider from ever being started, with the in-memory event or without it
\* (lost to another process, to the two steps of a tombstone, to eviction).
StopBeforeSpawnHolds ==
    [](status = "stopped" /\ pc \in Preparing => [](child = "absent"))

\* A worker that steps back for a stop relies on that stop for the result:
\* unless the process died, every worker that ended leaves a durable result.
ResultAppears == pc = "done" ~> receipt # "none" \/ pc = "dead"

\* No result is confirmed while processes of the provider's group are alive.
ConfirmedMeansGroupGone == receipt = "confirmed" => ~kin
=============================================================================
