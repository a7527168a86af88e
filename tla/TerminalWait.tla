---------------------------- MODULE TerminalWait ----------------------------
(***************************************************************************)
(* The wait-job command: wait_for_terminal_result (terminal_wait.py) over  *)
(* get_result and job_tail (jobs.py), with the observer of wait_job_cmd    *)
(* (cli.py) that reports a job in need of input.  The job it watches ends  *)
(* in the order in which set_result and the two stops write its files, or  *)
(* its process dies in between.  One kind of client runs at a time: a      *)
(* waiter, or one of EventLog's.                                           *)
(***************************************************************************)
EXTENDS EventLog

VARIABLES
    client,     \* "log", "output" or "wait"
    jobStatus,  \* meta.status
    result,     \* what result.json says
    request,    \* why the job is paused: a question, or a permission request
    publishing, \* between the two writes of set_result, under the job's lock
    died,       \* a publisher died there
    late,       \* timeout_sec has elapsed
    step, meta, \* the waiter's step, the status and request it read last
    handoff,    \* since the poll began the request has been decided, unconsumed
    exit        \* the verdict of wait-job

jobVars == <<jobStatus, result, request, publishing, died>>
waitVars == <<late, step, meta, handoff, exit>>
clientVars == <<logVars, outputVars, client, jobVars, waitVars>>

Open == {"running", "awaiting_input"}
Requests == {"none", "question", "pending", "decided"}

WaitTypeOK ==
    /\ LogTypeOK
    /\ client \in {"log", "output", "wait"}
    /\ jobStatus \in Open \cup {"succeeded", "failed", "stopped"}
    /\ result \in {"none", "ok", "fail", "stopped"}
    /\ request \in Requests /\ publishing \in BOOLEAN /\ died \in BOOLEAN /\ late \in BOOLEAN
    /\ step \in {"poll", "meta", "reread", "observe", "inspect", "over"}
    /\ meta \in [status : Open \cup {"succeeded", "failed", "stopped"}, request : Requests]
    /\ handoff \in BOOLEAN
    /\ exit \in {"none", "success", "failure", "deadline", "needs_input", "error"}

WaitInit ==
    /\ LogInit
    /\ client \in {"log", "output", "wait"}
    /\ client # "output" => offset = NoOffset
    /\ jobStatus = "running" /\ result = "none" /\ request = "none" /\ publishing = FALSE /\ died = FALSE
    /\ late = FALSE /\ step = "poll" /\ meta = [status |-> "running", request |-> "none"]
    /\ handoff = FALSE /\ exit = "none"

-----------------------------------------------------------------------------
(* The job, as OwnerPermission, InputContinuation and JobLifecycle have it *)

Pauses ==
    /\ jobStatus = "running" /\ result = "none"
    /\ jobStatus' = "awaiting_input" /\ request' \in {"question", "pending"}
    /\ UNCHANGED <<result, publishing, died>>

Decides == request = "pending" /\ request' = "decided" /\ UNCHANGED <<jobStatus, result, publishing, died>>

Resumes ==
    /\ jobStatus = "awaiting_input" /\ request \in {"question", "decided"} /\ result = "none"
    /\ jobStatus' = "running" /\ request' = "none"
    /\ UNCHANGED <<result, publishing, died>>

\* set_result: result.json, then the status, in one critical section.
WritesResult ==
    /\ jobStatus \in Open /\ ~ publishing
    /\ result = "none" \/ died
    /\ result' \in {"ok", "fail"} /\ publishing' = TRUE
    /\ UNCHANGED <<jobStatus, request, died>>

WritesStatus ==
    /\ publishing /\ publishing' = FALSE
    /\ jobStatus' = IF result = "ok" THEN "succeeded" ELSE "failed"
    /\ request' = "none"
    /\ UNCHANGED <<result, died>>

PublisherDies ==
    /\ publishing /\ publishing' = FALSE /\ died' = TRUE
    /\ UNCHANGED <<jobStatus, result, request>>

\* stop_job: the status first, the result much later.
StopWritesStatus ==
    /\ jobStatus \in Open /\ ~ publishing
    /\ jobStatus' = "stopped" /\ request' = "none"
    /\ UNCHANGED <<result, publishing, died>>

\* A result that a dead publisher left stays.
StopWritesResult ==
    /\ jobStatus = "stopped" /\ result = "none" /\ result' = "stopped"
    /\ UNCHANGED <<jobStatus, request, publishing, died>>

JobStep ==
    \/ Pauses \/ Decides \/ Resumes \/ WritesResult \/ WritesStatus \/ PublisherDies
    \/ StopWritesStatus \/ StopWritesResult

-----------------------------------------------------------------------------
(* The waiter.  read_result and the observer are synchronous: a deadline    *)
(* that passes inside them discards what they return.                       *)

Moves(to) == step' = to /\ UNCHANGED <<late, exit>>
Leaves(verdict) == step' = "over" /\ exit' = verdict /\ UNCHANGED late

\* Checked before each poll and after each await.
Expired == late

Poll ==
    /\ step = "poll"
    /\ IF Expired THEN Leaves("deadline") ELSE Moves("meta")
    /\ handoff' = (request = "decided") /\ UNCHANGED meta

ReadMeta == [status |-> jobStatus, request |-> request]

\* Mutant: the result of a stop is a success like any other.
MutVerdict(r) == IF r = "fail" THEN "failure" ELSE "success"

Verdict(r) == IF r = "ok" THEN "success" ELSE "failure"

\* get_result: meta.json, then result.json wherever the status stands.
ReadsMeta == step = "meta" /\ meta' = ReadMeta /\ Moves("reread") /\ UNCHANGED handoff

ReadsResult ==
    /\ step = "reread"
    /\ IF Expired THEN Leaves("deadline")
       ELSE IF result = "none" THEN Moves("observe")
       ELSE Leaves(Verdict(result))
    /\ UNCHANGED <<meta, handoff>>

\* The observer's job_tail, which an unreadable event log makes raise.
Observes ==
    /\ step = "observe" /\ holder = NoWriter
    /\ meta' = ReadMeta
    /\ IF Unreadable THEN Leaves("error")
       ELSE IF meta'.status = "awaiting_input" THEN Moves("inspect") ELSE Moves("poll")
    /\ UNCHANGED handoff

\* Mutant: a decided permission request is still reported.
MutNeedsInput == meta.request = "pending" \/ request # "none"

\* waiting_for and question are read after the tail.
NeedsInput == meta.request = "pending" \/ request = "question"

Inspects ==
    /\ step = "inspect"
    /\ IF NeedsInput THEN Leaves("needs_input") ELSE Moves("poll")
    /\ UNCHANGED <<meta, handoff>>

Waits == Poll \/ ReadsMeta \/ ReadsResult \/ Observes \/ Inspects

DeadlinePasses == ~ late /\ late' = TRUE /\ UNCHANGED <<step, meta, handoff, exit>>

-----------------------------------------------------------------------------
Watched == UNCHANGED <<client, outputVars>> /\ client = "wait"

\* The client's own steps, and the world it looks at.
WaitNext ==
    \/ /\ client \in {"log", "wait"}
       /\ \E w \in Writers : Write(w) \/ DieWriting(w)
       /\ UNCHANGED <<client, jobVars, waitVars>>
    \/ /\ client = "log" /\ TailEvents
       /\ UNCHANGED <<client, jobVars, waitVars>>
    \/ /\ client = "output" /\ (Prints \/ TailOutput \/ StatOutput \/ ReadOutputSince)
       /\ UNCHANGED <<client, jobVars, waitVars>>
    \/ /\ Watched /\ JobStep
       /\ handoff' = (handoff /\ request' = "decided")
       /\ UNCHANGED <<logVars, late, step, meta, exit>>
    \/ /\ Watched /\ (Waits \/ DeadlinePasses)
       /\ UNCHANGED <<logVars, jobVars>>

WaitSpec == WaitInit /\ [][WaitNext]_clientVars

FairWaitSpec ==
    /\ WaitSpec
    /\ WF_clientVars(client = "log" /\ TailEverything /\ UNCHANGED <<client, jobVars, waitVars>>)
    /\ WF_clientVars(\E w \in Writers : AppendLine(w) /\ UNCHANGED <<client, jobVars, waitVars>>)
    /\ WF_clientVars(Watched /\ Waits /\ UNCHANGED <<logVars, jobVars>>)
    /\ WF_clientVars(Watched /\ DeadlinePasses /\ UNCHANGED <<logVars, jobVars>>)

-----------------------------------------------------------------------------
\* Every event of the log reaches a client of job_tail that keeps asking for
\* the rest, unless a process died inside a write: from then on, or from the
\* next event on, job_tail raises.
EventsArrive ==
    \A n \in 1 .. MaxEvents :
        client = "log" /\ n \in Elements(log) ~> (n \in Elements(got) \/ Unreadable)

\* wait-job reports success only for a job whose durable end is a success: it
\* reads result.json before the status is written, and this is never undone,
\* unless the publisher dies in between and another ends the job instead.
SuccessIsDurable ==
    [][exit = "success" => result' = "ok" \/ died]_clientVars

\* A job whose permission request is decided but not yet consumed when the
\* poll begins, and until it ends, is not reported as in need of input.  A
\* decision that comes between the two reads of the poll is too late for it.
NoPhantomRequest == [][exit' = "needs_input" /\ exit = "none" => ~ handoff]_clientVars

\* The wait ends, at its deadline at the latest, even for a stopped job whose
\* result never comes.
WaitIsBounded == client = "wait" ~> exit # "none"
=============================================================================
