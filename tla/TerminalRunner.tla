-------------------------- MODULE TerminalRunner --------------------------
(***************************************************************************)
(* Jobs whose provider is a command line: run_tmux_job with its monitor    *)
(* thread and run_print_job (runner.py), job_stop of such a job and the    *)
(* readers that finalize a tmux job from the files its session left behind *)
(* (jobs.py).  The transport of the job is chosen in Init.  A result is    *)
(* published in one step; JobLifecycle takes that apart.                   *)
(***************************************************************************)
EXTENDS Naturals

CONSTANT MaxMishaps     \* bound on failing tmux calls and crashes of the server

ASSUME MaxMishapsAssumption == MaxMishaps \in Nat

VARIABLES
    transport,  \* "tmux" or "print"
    onOutput,   \* complete_on_output: synchronous requests only
    prompt,     \* typed into the pane, an argument of the command, or an
                \* argument of a command whose output goes to a file
    status,     \* meta.status
    outcome,    \* what result.json says of the work
    receipt,    \* what it says of the provider's cleanup, of a stop only
    lease,      \* the job still holds its writer lease
    known,      \* meta names the interactive session, or print_pid
    session,    \* the tmux session, or the session of the print process
    provider,   \* the command in it
    exitFile,   \* tmux-exit-status.txt
    answer,     \* the output looks like a finished turn
    sent,       \* the prompt was delivered
    due,        \* timeout_sec elapsed
    pc,         \* the worker thread
    call,       \* the caller of job_stop, and what it learned
    reader,     \* the verdict a reader is about to publish
    mishaps

kind == <<transport, onOutput, prompt>>
record == <<status, outcome, receipt, lease>>
world == <<session, provider, exitFile, answer, sent>>
vars == <<kind, record, known, world, due, pc, call, reader, mishaps>>

Exited == {"succeeded", "failed", "killed"}
Over == {"done", "dead"}

TypeOK ==
    /\ transport \in {"tmux", "print"} /\ onOutput \in BOOLEAN
    /\ prompt \in {"typed", "argument", "redirected"}
    /\ status \in {"running", "stopped", "succeeded", "failed"}
    /\ outcome \in {"none", "ok", "fail"}
    /\ receipt \in {"none", "confirmed", "unconfirmed"}
    /\ lease \in BOOLEAN /\ known \in BOOLEAN
    /\ session \in {"absent", "alive", "gone"}
    /\ provider \in {"absent", "working"} \cup Exited
    /\ exitFile \in {"none", "empty", "zero", "nonzero"}
    /\ answer \in BOOLEAN /\ sent \in BOOLEAN /\ due \in BOOLEAN
    /\ pc \in {"start", "create", "unstarted", "recheck", "deliver", "describe", "reject", "monitor",
               "ended", "killDone", "spawn", "pid", "wait", "after"} \cup Over
    /\ call \in {"idle", "clean", "confirmed", "unconfirmed", "gone"}
    /\ reader \in {"idle", "ok", "fail"}
    /\ mishaps \in 0 .. MaxMishaps

\* The launch plans type the prompt (Reasonix, a Claude review), pass it as an
\* argument (Codex, Claude) or redirect the output as well (OpenCode).
Prompts(t) == IF t = "tmux" THEN {"typed", "argument", "redirected"} ELSE {"argument"}

\* start_tmux_job stored the session's name before the thread starts.
Init ==
    /\ transport \in {"tmux", "print"}
    /\ onOutput \in (IF transport = "tmux" THEN BOOLEAN ELSE {FALSE})
    /\ prompt \in Prompts(transport)
    /\ status = "running" /\ outcome = "none" /\ receipt = "none" /\ lease = TRUE
    /\ known = FALSE
    /\ session = "absent" /\ provider = "absent" /\ exitFile = "none"
    /\ answer = FALSE /\ sent = FALSE /\ due = FALSE
    /\ pc = IF transport = "tmux" THEN "start" ELSE "spawn"
    /\ call = "idle" /\ reader = "idle" /\ mishaps = 0

-----------------------------------------------------------------------------
(* JobStore.set_result and the tmux client *)

\* Only an open job gets a result; with it the lease is released.
Publish(o) ==
    IF status = "running"
    THEN /\ status' = IF o = "ok" THEN "succeeded" ELSE "failed"
         /\ outcome' = o
         /\ lease' = FALSE
         /\ UNCHANGED receipt
    ELSE UNCHANGED record

Mishap == mishaps < MaxMishaps /\ mishaps' = mishaps + 1

\* tmux kill-session: whatever still runs in the session dies with it.
Kill ==
    \/ /\ session = "alive"
       /\ session' = "gone"
       /\ provider' = IF provider = "working" THEN "killed" ELSE provider
       /\ UNCHANGED <<exitFile, answer, sent, mishaps>>
    \/ session # "alive" /\ UNCHANGED <<world, mishaps>>
    \/ session = "alive" /\ Mishap /\ UNCHANGED world

\* Mutant: nobody looks whether the job was stopped.
MutStopSeen == FALSE

StopSeen == status = "stopped"

-----------------------------------------------------------------------------
(* run_tmux_job *)

TmuxStarts ==
    /\ pc = "start"
    /\ pc' = IF StopSeen THEN "done" ELSE "create"
    /\ UNCHANGED <<kind, record, known, world, due, call, reader, mishaps>>

\* tmux new-session with the provider's command and the exit status after it.
NewSession ==
    /\ pc = "create"
    /\ session' = "alive" /\ provider' = "working" /\ sent' = (prompt # "typed")
    /\ pc' = "recheck"
    /\ UNCHANGED <<kind, record, known, exitFile, answer, due, call, reader, mishaps>>

\* It is refused, or its own timeout hides that it did its work.  Every
\* launch plan has one candidate.
NewSessionFails ==
    /\ pc = "create"
    /\ \/ UNCHANGED <<world, mishaps>>
       \/ /\ Mishap
          /\ session' = "alive" /\ provider' = "working" /\ sent' = (prompt # "typed")
          /\ UNCHANGED <<exitFile, answer>>
    /\ pc' = "unstarted"
    /\ UNCHANGED <<kind, record, known, due, call, reader>>

NoCandidateLeft ==
    /\ pc = "unstarted"
    /\ Publish("fail")
    /\ pc' = "done"
    /\ UNCHANGED <<kind, known, world, due, call, reader, mishaps>>

\* The stop that found no session to kill is noticed right after the creation.
Recheck ==
    /\ pc = "recheck"
    /\ IF StopSeen THEN Kill /\ pc' = "done"
       ELSE pc' = "deliver" /\ UNCHANGED <<world, mishaps>>
    /\ UNCHANGED <<kind, record, known, due, call, reader>>

\* The pane, its pipe or the prompt marker never came, or the prompt is part of
\* the command: the monitor goes on without typing anything.
NothingTyped ==
    /\ pc = "deliver"
    /\ pc' = "describe"
    /\ UNCHANGED <<kind, record, known, world, due, call, reader, mishaps>>

\* The pane is ready and the prompt goes in with its return key, or one of the
\* two is refused.
Deliver(accepted) ==
    /\ pc = "deliver" /\ prompt = "typed"
    /\ accepted => session = "alive"
    /\ sent' = (accepted /\ provider = "working")
    /\ pc' = IF accepted THEN "describe" ELSE "reject"
    /\ UNCHANGED <<kind, record, known, session, provider, exitFile, answer, due,
                   call, reader, mishaps>>

Describe ==
    /\ pc = "describe"
    /\ known' = (prompt # "redirected")
    /\ pc' = "monitor"
    /\ UNCHANGED <<kind, record, world, due, call, reader, mishaps>>

Reject ==
    /\ pc = "reject"
    /\ known' = TRUE
    /\ Kill
    /\ Publish("fail")
    /\ pc' = "done"
    /\ UNCHANGED <<kind, due, call, reader>>

-----------------------------------------------------------------------------
(* _monitor_tmux_job *)

MonitorStops ==
    /\ pc = "monitor" /\ StopSeen
    /\ Kill
    /\ pc' = "done"
    /\ UNCHANGED <<kind, record, known, due, call, reader>>

\* has-session could not be run: the job fails and its session is left alone.
MonitorCannotInspect ==
    /\ pc = "monitor" /\ ~StopSeen
    /\ Mishap
    /\ Publish("fail")
    /\ pc' = "done"
    /\ UNCHANGED <<kind, known, world, due, call, reader>>

MonitorSeesEnd ==
    /\ pc = "monitor" /\ ~StopSeen /\ session # "alive"
    /\ pc' = "ended"
    /\ UNCHANGED <<kind, record, known, world, due, call, reader, mishaps>>

\* A finished turn, or the banner of a resumed session; the result comes
\* before the kill.
MonitorSeesOutput(o) ==
    /\ pc = "monitor" /\ ~StopSeen /\ onOutput /\ session = "alive"
    /\ o = "ok" => answer
    /\ Publish(o)
    /\ pc' = "killDone"
    /\ UNCHANGED <<kind, known, world, due, call, reader, mishaps>>

KillAfterResult ==
    /\ pc = "killDone"
    /\ Kill
    /\ pc' = "done"
    /\ UNCHANGED <<kind, record, known, due, call, reader>>

MonitorTimesOut ==
    /\ pc = "monitor" /\ ~StopSeen /\ session = "alive" /\ due
    /\ Kill
    /\ Publish("fail")
    /\ pc' = "done"
    /\ UNCHANGED <<kind, known, due, call, reader>>

\* Mutant: a missing or unreadable exit status counts as zero.
MutExitVerdict == IF exitFile = "nonzero" THEN "fail" ELSE "ok"

\* A missing, empty or unreadable exit status is a failure.
ExitVerdict == IF exitFile = "zero" THEN "ok" ELSE "fail"

SessionEnded ==
    /\ pc = "ended"
    /\ IF StopSeen THEN UNCHANGED record ELSE Publish(ExitVerdict)
    /\ pc' = "done"
    /\ UNCHANGED <<kind, known, world, due, call, reader, mishaps>>

-----------------------------------------------------------------------------
(* run_print_job *)

Popen ==
    /\ pc = "spawn"
    /\ session' = "alive" /\ provider' = "working" /\ sent' = TRUE
    /\ pc' = "pid"
    /\ UNCHANGED <<kind, record, known, exitFile, answer, due, call, reader, mishaps>>

PopenFails ==
    /\ pc = "spawn"
    /\ pc' = "after"
    /\ UNCHANGED <<kind, record, known, world, due, call, reader, mishaps>>

RecordPid ==
    /\ pc = "pid"
    /\ known' = TRUE
    /\ pc' = "wait"
    /\ UNCHANGED <<kind, record, world, due, call, reader, mishaps>>

\* The process ended, or its timeout kills it.
WaitEnds ==
    /\ pc = "wait"
    /\ \/ provider \in Exited /\ UNCHANGED provider
       \/ provider = "working" /\ due /\ provider' = "killed"
    /\ session' = "gone"
    /\ known' = FALSE
    /\ pc' = "after"
    /\ UNCHANGED <<kind, record, exitFile, answer, sent, due, call, reader, mishaps>>

PrintResult ==
    /\ pc = "after"
    /\ Publish(IF provider = "succeeded" THEN "ok" ELSE "fail")
    /\ pc' = "done"
    /\ UNCHANGED <<kind, known, world, due, call, reader, mishaps>>

-----------------------------------------------------------------------------
(* JobStore.stop_job *)

StopMarks ==
    /\ call = "idle" /\ status = "running"
    /\ status' = "stopped"
    /\ call' = "clean"
    /\ UNCHANGED <<kind, outcome, receipt, lease, known, world, due, pc, reader, mishaps>>

\* has-session, then kill-session; a missing session is as good as a killed one.
StopKillsSession ==
    /\ call = "clean" /\ transport = "tmux"
    /\ Kill
    /\ call' = IF session = "alive" /\ session' = "alive" THEN "unconfirmed" ELSE "confirmed"
    /\ UNCHANGED <<kind, record, known, due, pc, reader>>

\* SIGTERM to the recorded group.  Without a recorded pid nothing is done and
\* nothing is noted, and _cleanup_confirmed takes that for a confirmation.
StopSignalsGroup ==
    /\ call = "clean" /\ transport = "print"
    /\ IF known THEN provider' = IF provider = "working" THEN "killed" ELSE provider
                ELSE UNCHANGED provider
    /\ call' = "confirmed"
    /\ UNCHANGED <<kind, record, known, session, exitFile, answer, sent, due, pc,
                   reader, mishaps>>

\* set_stopped_result
StopPersists ==
    /\ call \in {"confirmed", "unconfirmed"}
    /\ outcome' = "fail" /\ receipt' = call /\ lease' = (call # "confirmed")
    /\ call' = "gone"
    /\ UNCHANGED <<kind, status, known, world, due, pc, reader, mishaps>>

-----------------------------------------------------------------------------
(* _finalize_completed_tmux_job, called by whoever reads an open job *)

\* Mutant: only interactive sessions are finalized.
MutReadsExitFile ==
    /\ exitFile # "none" /\ known
    /\ reader' = ExitVerdict
    /\ UNCHANGED mishaps

ReadsExitFile ==
    /\ exitFile # "none"
    /\ reader' = ExitVerdict
    /\ UNCHANGED mishaps

\* Without an exit status an interactive session must be gone; a tmux that
\* cannot be asked counts as gone, too.
ReadsOutput ==
    /\ exitFile = "none" /\ known /\ answer
    /\ \/ session # "alive" /\ UNCHANGED mishaps
       \/ session = "alive" /\ Mishap
    /\ reader' = "ok"

FinalizeReads ==
    /\ transport = "tmux" /\ reader = "idle" /\ status = "running"
    /\ ReadsExitFile \/ ReadsOutput
    /\ UNCHANGED <<kind, record, known, world, due, pc, call>>

FinalizePublishes ==
    /\ reader # "idle"
    /\ Publish(reader)
    /\ reader' = "idle"
    /\ UNCHANGED <<kind, known, world, due, pc, call, mishaps>>

-----------------------------------------------------------------------------
(* The provider, its shell, the clock and the server process *)

\* The TUI shows what the marker parsers take for the end of a turn.
Answers ==
    /\ provider = "working" /\ sent /\ ~answer
    /\ answer' = TRUE
    /\ UNCHANGED <<kind, record, known, session, provider, exitFile, sent, due, pc,
                   call, reader, mishaps>>

\* The command exits; in tmux its shell opens the status file next.
ProviderExits(how) ==
    /\ provider = "working"
    /\ provider' = how
    /\ session' = IF transport = "print" THEN "gone" ELSE session
    /\ UNCHANGED <<kind, record, known, exitFile, answer, sent, due, pc, call, reader, mishaps>>

\* printf '%s\n' > status_path: the file exists before it has content.
ShellStep ==
    /\ transport = "tmux" /\ session = "alive" /\ provider \in {"succeeded", "failed"}
    /\ \/ exitFile = "none" /\ exitFile' = "empty" /\ UNCHANGED session
       \/ /\ exitFile = "empty"
          /\ exitFile' = IF provider = "succeeded" THEN "zero" ELSE "nonzero"
          /\ UNCHANGED session
       \/ exitFile \in {"zero", "nonzero"} /\ session' = "gone" /\ UNCHANGED exitFile
    /\ UNCHANGED <<kind, record, known, provider, answer, sent, due, pc, call, reader, mishaps>>

Tick ==
    /\ ~due /\ pc \in {"monitor", "wait"}
    /\ due' = TRUE
    /\ UNCHANGED <<kind, record, known, world, pc, call, reader, mishaps>>

\* The thread dies with its process; sessions and print processes live on.
Crash ==
    /\ pc \notin Over
    /\ Mishap
    /\ pc' = "dead"
    /\ UNCHANGED <<kind, record, known, world, due, call, reader>>

WorkerStep ==
    \/ TmuxStarts \/ NewSession \/ NewSessionFails \/ NoCandidateLeft \/ Recheck
    \/ NothingTyped \/ (\E accepted \in BOOLEAN : Deliver(accepted))
    \/ Describe \/ Reject
    \/ MonitorStops \/ MonitorSeesEnd \/ MonitorSeesOutput("ok")
    \/ KillAfterResult \/ MonitorTimesOut \/ SessionEnded
    \/ Popen \/ PopenFails \/ RecordPid \/ WaitEnds \/ PrintResult

\* What a thread meets but is not bound to meet.
Surprise == MonitorCannotInspect \/ MonitorSeesOutput("fail")

StopStep == StopKillsSession \/ StopSignalsGroup \/ StopPersists
ReaderStep == FinalizeReads \/ FinalizePublishes

Next ==
    \/ WorkerStep \/ Surprise \/ StopMarks \/ StopStep \/ ReaderStep
    \/ Answers \/ (\E how \in {"succeeded", "failed"} : ProviderExits(how))
    \/ ShellStep \/ Tick \/ Crash

Spec == Init /\ [][Next]_vars

\* The threads run on, a started call finishes, the shell does what it was
\* told, and somebody goes on asking for the job.  A job may have no timeout.
FairSpec ==
    Spec /\ WF_vars(WorkerStep) /\ WF_vars(StopStep)
         /\ WF_vars(ShellStep) /\ WF_vars(ReaderStep)

-----------------------------------------------------------------------------
\* Whoever comes first, monitor, print worker or a reader of the files, a job
\* succeeds only if its command exited with zero or its terminal showed a
\* finished turn (the exit status rules of runner.py and jobs.py).
SuccessIsReal == outcome = "ok" => provider = "succeeded" \/ answer

\* As long as nothing fails, the writer lease of a tmux job is free while the
\* provider works only in the two windows the worker is about to close: a
\* session created under a stop, and one kept until after its result.
LeaseCoversSession ==
    transport = "tmux" /\ ~lease /\ provider = "working" /\ mishaps = 0
        => pc \in {"recheck", "killDone"}

\* A stop of a tmux job ends its session wherever the start-up was, unless a
\* tmux call failed or the server died (release notes of v0.3.5).
StopEndsSession ==
    transport = "tmux" /\ status = "stopped"
        ~> session # "alive" \/ mishaps > 0

\* An exit status on disk becomes a result although the server that started
\* the session died, for any reader that keeps asking, unless it is stopped.
LeftBehindIsCollected ==
    exitFile \in {"zero", "nonzero"} ~> status # "running"

\* A stop of a print job that reports a confirmed cleanup left no provider.
ConfirmedStopIsQuiet ==
    transport = "print" /\ receipt = "confirmed" => provider # "working"
=============================================================================
