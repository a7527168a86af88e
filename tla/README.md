# Agent Crossbar in TLA+

A verification development for the job and lease core of Agent Crossbar, the MCP server that
delegates work to Claude, Codex, OpenCode, Reasonix and ChatGPT and promises its callers a
durable job: it can be tailed, answered, stopped and collected from any process, it ends
exactly once, and while it may still write to a workspace nobody else is let into it.

Paths below are relative to `src/agent_crossbar/` of the repository.

## The system

Everything durable is a directory of small JSON files under the state root, shared by any
number of processes (MCP servers, command line tools, detached workers). There is no daemon:
every process may start, observe, reap or stop every job.

| Component | State | Operations | Talks to | What makes it correct |
|---|---|---|---|---|
| Writer lease store, `writer_lease.py` | one file per canonical workspace, one flock | acquire, reconcile, attach, heartbeat, release, recover | reads the owning job's `meta.json` and `result.json` | one writer per directory tree; leases of external jobs leave only on proof; crashed controllers block nobody for ever |
| Job store, `jobs.py` | per job `meta.json`, `result.json`, `events.jsonl`, one flock per file | create, transition, claim, set_result, stop, set_stopped_result, reap, retry cleanup, tail, send | lease store, run handles, pending permissions | one outcome, decided once; status and result agree; a stop wins; an expired job ends |
| Native monitor, `agent_runner.py`, `adapters/claude_lifecycle.py` | monitor thread, watchdog thread, input generation | launch, poll, resume, publish, deadline | job store, adapter, run handles | one terminalizer; no orphaned session |
| ACP worker, `acp_runtime.py`, `acp_client.py` | child process, launch markers in `meta.json`, cancellation event | start, prompt, permission, fail, terminate | job store, run handles, permissions | no child survives a stop unnoticed; decisions delivered once |
| Run handles, `run_handles.py` | bounded in-memory map with tombstones | register, cancel, release | job store, workers | a stop before registration is not lost |
| Pending permissions, `pending_permissions.py` | in-memory futures | register, resolve, settle | ACP worker, job store | exactly-once delivery |
| Server, `server.py` | none of its own | agent_start, job_tail, job_send, job_result, job_stop, job_list | everything above | lease hand-over; stop evidence |
| Command line, `cli.py`, `terminal_wait.py` | none | wait-job, terminalize-job, writer-lease, doctor | job store, lease store | a wait reports only what is durable; a retry never invents evidence |
| tmux and print runners, `runner.py`, `tmux_output.py` | tmux sessions, print processes, output and exit status files | create, deliver, monitor, finalize | job store | lazy finalization agrees with the monitor; a stop ends what it finds and what comes late |
| GUI runner, `runner.py`, `gui_lifecycle.py` | browser windows, one lock file per host, one session slot per process | open, deliver, send, poll, clean up | job store, run handles | one prompt, one submission, the turn's own answer; the user's text is left alone |
| Admission, model cache, discovery, readiness | bounded caches, one subprocess each | check, refresh | server | fail closed; last good value |
| Adapters, profiles, validation, context, envelope, usage, redaction, telemetry | none or append-only | pure functions | server, workers | unit tests |

What is hard about it: result and metadata are two files; the end of a job and the release of
its lease are two critical sections of two locks; up to five kinds of actor in several processes
may end the same job (worker, watchdog, reapers, stop, cleanup retry); the provider is a
process of its own that survives all of them, and often all that is known of it is what a terminal
or a browser shows, which may lag behind or belong to somebody else; and any of them may die, or
fail to write, between two steps. `PROJECT.json` lists each such hazard at its line.

## Modules

**`WriterLease`** — `writer_lease.py`. `leases` maps each path to the content of its file
(kind of owner, token, job, age class, or unreadable); one action per public operation, because
each runs under the one flock. `Reconciled` is the reconciliation in front of every acquire, so a
refused acquire changes the state too. Ages are folded into the three classes the code
distinguishes. `Damage`, `GrowOlder` and `JobMoves` are the environment: a damaged file, time,
and a job record that may say anything at any moment.

**`JobLifecycle`** — the durable record of one job and everybody who may end it. `status`,
`claim`, `cleanup` are fields of `meta.json`, `result` is `result.json`, `lock` the holder of the
metadata lock between two writes, `provider` what the provider really does, `handle` and
`session` what a process can know about it, `backend` whether it is a Claude session or an ACP child. Each actor has a program counter; a critical section
that replaces one file is one action, `set_result` and `record_terminal_cleanup_retry`
are two actions with the lock held in between, and what happens after the lock is dropped is an
action of its own. The groups of actions are: `start_claude_job` (launch, rollback, recorded
session, monitor), the worker, the deadline actors (`ReapScan`, `ClaimTerminalization`,
`CancelProvider`), `set_result` and its tail, `job_stop`, the cleanup retry, and the environment
(`TimePasses`, `Crash` of a whole process, `WriteFails` of one atomic write). What an actor learns
of the cleanup is nondeterministic, but a truthful source never reports `confirmed` while the
provider goes on (`ProviderAfter`).

**`JobContract`** — the abstract promise: an open job is finished once (and collectable at
that moment) or stopped once (and collectable then or later). `JobLifecycle` implements it under the
mapping a reader of the two files applies: an open status is `open` whatever `result.json` holds.

**`DevJobs`** — the composition: `J == INSTANCE JobLifecycle` and
`L == INSTANCE WriterLease WITH jobState <- ExternalState`. The job state the lease store reads
is an expression over the job's files, so the two components interact through exactly
what `_external_job_state` reads, and through the token. It adds `agent_start`'s path from the pending
lease over `create_job` and the attached lease to the launch, with a crash or a failure at each
step, a second writer and the operator.

**`OwnerPermission`** — a permission request of an ACP provider and the owner's decision. The
request is in two places: `slot` is `pending_request` in `meta.json`, which every process settles
under the metadata lock, and `live`, `future`, `scheduled` are the wait in the worker's process, its
future, and the callback that `call_soon_threadsafe` has put on the worker's loop. `stage` is the
worker: the handler between two awaits is one action per write (`Ask`, `Register`, `Poll`, `Wake`,
`Resume`, `AnswerProvider`), and `TurnEnds` to `WorkerPublishes` are the end of the turn. Owners go
through the critical section, the registry and the tidying up separately (`DecisionAccepted`, `Deliver`,
`Tidy`), and so do a stop and a reaper, each inside or outside the worker's process (`Home`). The end
of the job is abstracted to what `JobLifecycle` shows of it: a claim, and a status decided once.

**`PermissionContract`** — the abstract protocol: a request gets one decision at most, before the
job ended, and one answer, which is the decision, a withdrawal, or a refusal once the end is claimed.

**`AcpStartup`** — one ACP job from its coroutine to its result: `run_acp_job` with `run_acp_prompt`,
the run-handle registry, and `job_stop` in the worker's process and outside it. `pc` walks through
the worker's five looks for a stop (`FirstFence`, `SpawnFence`, `RecordFence`, `PromptFence` and the
handlers'); `pending` and `identity` are the launch marker and the recorded process identity in
`meta.json`, `observed` what the worker itself remembers of it; `registry` is the handle or tombstone
of the job. `Termination` is `safe_acp_termination`: what it may report and do, given the identity it
is handed and whether the group's leader and other members (`kin`) are alive. Here publication is one
step, where `JobLifecycle` has several; there, in turn, the launch is done.

**`InputContinuation`** — replies to an interactive session. `send_user_input` is four steps in
three critical sections (`Check`, `MeasureTranscript`, `Type`, `Record`, `Resume`); the monitor's poll
is the probe, the read of the metadata after it (`Look`), the verdict (`Judge...`) and the write, with
what it remembers across polls as variables of their own. The provider, its transcript and what its
CLI reports are three different things that may be a turn apart (`turn`, `printed`, `native`). The idle
finalization (`JudgeWorking`) goes by none of them: unchanged logs (`unchanged`) of an idle process with any answer in
them, also the text before a question, are enough for it.

**`TerminalRunner`** — jobs whose provider is a command line: `run_tmux_job` with its monitor thread,
`run_print_job`, a stop, and the readers that finalize a tmux job from the files its session left
(`FinalizeReads`, `FinalizePublishes`). The exit status file exists before it has content
(`ShellStep`). Whether a pane shows a finished turn is the provider's choice (`answer`).

**`GuiTurn`** — one chatgpt_pro job in the windows of the browsers: the window, the composer, the three
ways to write into it, the checks before and after, Send, the polling, the fallback to the next
browser and the cleanup. `composer` is what each window's composer holds, and whose text it is. The
user types into and closes the same windows between any two steps, and a click may land while it is reported
as failed, or the reverse. The page shows marked texts (`Marked`): what stands between this turn's markers, which
is the echo of its prompt before it is an answer, and in the user's windows the answer to an earlier turn. A prompt that
the user goes on typing in after the last look is sent as it is and answered with the turn's markers all the same.

**`GuiSlot`** — who may do that: the host's lock file with its three-step takeover, the lock file of older
versions, the session slot
and the "generating" event of each server process, through the fallback chain to the release.

**`EventLog`, `OrderedLog`, `TerminalWait`** — reading a job. `EventLog` has `EventWriter.write` by
writers of several processes, `job_tail`'s truncated event replies and
its output tails and slices, byte by byte of two-byte characters. A writer may die before its line, in it, or between the
JSON and the newline (`ending`); what is appended to an unterminated line spoils both (`Unspoiled`), and one line that does not
parse makes the log unreadable. A character that the file ends inside when it is read is decoded to a replacement
character and its rest is skipped later (`split`). `OrderedLog` is what the log promises a
client that continues from `last_seq`, until it breaks. `TerminalWait` extends it by wait-job: `get_result` and the
observer as separate reads, of a job that ends in the order in which its files are written.

**`*_proofs`** — the theorems about the module they are named after; `Gui_proofs` is about `GuiTurn` and
`GuiSlot`, `Terminal_proofs` about `TerminalRunner`, `EventLog` and `TerminalWait`. `DevJobs_proofs` takes
instances of `JobLifecycle_proofs` and `WriterLease_proofs`. **`MC*`** give the constants
values for TLC. Operators commented "Mutant" are plausible bugs of the definition that
follows them; no specification uses them. For each property of a passing run `PROJECT.json` names one
that breaks it.

The modules meet where one abstracts another: `DevJobs` composes two of them outright; the job that
`OwnerPermission`, `AcpStartup`, `TerminalRunner`, `InputContinuation` and `GuiTurn` end "in one step" is the one that
`JobLifecycle` takes apart, and `TerminalWait` watches the order of writes found there.

## Runs

| Run | What it shows |
|---|---|
| `writer_lease` | every order of operations on a repository, a directory in it and a separate worktree: one writer per directory (`NoOverlap`), an external job's lease leaves only on proof (`ExternalNeverReclaimed`), an abandoned lease of an age-reclaimed kind is reclaimed (`AbandonedReclaimed`) |
| `job` | a Claude session from its launch and an ACP job from its running child: worker, watchdog, a reaper and a stop inside the server's process, a reaper outside it, a retry, one fault. The files agree (`StatusMatchesResult`), the claimant or a stop decides (`ClaimDecides`, `StopBeatsCompletion`), a provider that may go on is flagged (`UnconfirmedGetsFlagged`), the contract (`ImplementsContract`), and an expired job becomes collectable unless a fault hit the actor that had claimed or stopped it (`ExpiredIsCollectedOrStranded`) |
| `dev_acp` | no job runs without its lease (`LeaseUntilResult`), another writer meets a still writing provider only after a stop or an admitted unconfirmed cleanup (`IntruderOnlyAfterUnproven`), the composition is the lease store to its users (`ImplementsWriterLease`), and a job that ended cleanly gives its workspace up although its publisher died (`LeaseFreedOrFlagged`) |
| `owner_permission` | two requests, an owner inside and one outside the worker's process, a stop outside it and a reaper inside: the provider's answer is the owner's (`AnswerIsTheOwners`), no request the worker waits for becomes unanswerable (`WaitIsAnswerable`), the contract (`ImplementsContract`), and an accepted decision reaches the worker's handler (`AcceptedIsConsumed`) |
| `acp_startup` | a stop in the worker's process and one outside, two faults: the lease is free only when no leader runs and none can be started (`FreeMeansNoLeader`), a confirmed cleanup stays true (`ConfirmedMeansNoLeader`), a stop that is durable before the spawn fence prevents the spawn even when its tombstone is lost (`StopBeforeSpawnHolds`), and between a worker that steps back and a stop that leaves it the job somebody publishes (`ResultAppears`) |
| `terminal_runner` | tmux and print jobs with typed, passed and redirected prompts, two mishaps: a success had an exit status of zero or a finished turn (`SuccessIsReal`), a stop ends a session that is created under it (`StopEndsSession`), what a dead server left behind becomes a result (`LeftBehindIsCollected`) |
| `input_continuation` | two replies, with and without turn identities, with a CLI that lags or not: no done reading, transcript or turn identity of an earlier turn makes a success (`SuccessAnswersReply`), no second pause for an answered question (`NoPauseAfterAnswer`), and the guards against stale evidence strand no finished turn (`FinishedIsPublished`) |
| `gui_turn` | two browsers, the last of them Safari, two mishaps, windows with or without an earlier turn's answer: no browser is sent anything after an acknowledged press (`AcknowledgedIsLast`), what is sent was verified or typed by the user after the last look (`OnlyVerifiedIsSent`), a success is an answer to what the turn sent (`SuccessIsOwnAnswer`), an early stop prevents the sending (`EarlyStopPreventsSend`), a draft found in a window stays (`DraftIsLeftAlone`) |
| `gui_slot` | two turns in one process and one in another, an older version's job, one crash: `PollerOwnsSession`, `NothingLeftBehind`, `LockRecovers` |
| `terminal_wait` | two writers: a client that follows `last_seq` gets every event once and in order until the log breaks (`ImplementsOrderedLog`, `EventsArrive`), one that follows the output is shown every character below its offset but those the file ended inside when it read them (`OutputKeepsItsPlace`), wait-job reports success only of a durable success (`SuccessIsDurable`) and no request that was decided before its poll (`NoPhantomRequest`) |
| `retained_lease`, `reply_resumes` | the disagreements 1 and 2 below; each checks one property and TLC finds it violated |

Some of these properties exempt a hazard, and would not catch it: `SuccessAnswersReply` what an idle process is taken for
(disagreement 3); `OutputKeepsItsPlace` a character cut in two (4); `ImplementsOrderedLog` a log with a spoiled line (5); `ExpiredIsCollectedOrStranded` the stranding by a dead
claimant or a stop that dies before its result (disagreement 9); `IntruderOnlyAfterUnproven` any intruder after a stop
(disagreement 10); `EventsArrive` all events of a log that has become unreadable, whose readers get an
error for ever; `SuccessIsDurable` a publisher that died between result and status; `NoPhantomRequest`
a decision between the two reads of a poll, which the code reports as a request for input (`cli.py:147`). `DraftIsLeftAlone` is
about a draft seen at the look; what is typed later is in `OnlyVerifiedIsSent` and in the disagreements 6 and 7.

Further invariants that hold and are stated beside these, most of them implied by one above or by a theorem:
`TypeOK` of every module, `TokensDistinct`, `FailClosed`, `OneTerminalizer`, `TerminalIsFinal`, `EndedStaysEnded`,
`LeaseCoversSession`, `OneTurnPerProcess`, `FlaggedLeaseRetained`, `DeniedNeverSucceeds`, `NothingSentWithoutFiles`
(these are proved), `TurnEnds`, `WaitIsBounded` (liveness). A line in the cfg checks any of them.

**Bounds.** Three paths, two of them nested, are enough for overlap in both directions and an
independent one; three tokens let a path be granted again after a reclaim and a late release
arrive. Two reapers, one of each inside and outside the process that owns the run
handle, cover the two kinds of evidence; what they race for is decided pairwise. One fault per run
puts a crash or a failed write between any two steps, and with two reapers one survives it. In the composition one other writer and two tokens suffice: one for the
job, one for whoever gets in after it. Two permission requests, one of
them reject-only, let a late actor meet the next request, and more than one at a time the callback lock
excludes. `AcpStartup` has two faults, so that a crash or a failed write meets an evicted tombstone. Two
replies let a reading be older than the one before last. Two browsers are a fallback and the end of
the chain, and every browser before the last is like the first; two mishaps are one of the user's
and one of the driver's, or two of one. Two turns in a process and one outside are the three ways a
turn can meet the lock and the slot. Four events and five bytes of output let a reply be cut, continued and
overtaken by a writer, and a line be spoiled by the next, and a slice end inside a character with more behind it or
with nothing behind it yet. `MaxTokens`, `MaxRequests`, `MaxFaults`,
`MaxMishaps`, `MaxCrashes`, `MaxReplies`, `MaxEvents` and `MaxOutput` are the only counters. Deadlock is
not checked where a job ends and its actors are done; `writer_lease` never stops.

**Fairness.** `JobLifecycle` assumes that time passes, that a thread inside a deadline, publishing or
stop sequence goes on, and that as long as a job is open somebody looks at it
(agent_start, job_tail, job_result and job_list reap what has expired). It assumes nothing of
the provider, which may never end its turn, of callers of `job_stop` before they call, or of the
operator. Fairness of `WriterLease` and `DevJobs` is that somebody who wants the
workspace keeps asking. `AbandonedReclaimed` is about a holder that stops its heartbeats, so
heartbeats have none. `OwnerPermission` assumes that the worker's event loop keeps running its
callbacks and its poll while the worker lives; it assumes
nothing of the provider, of owners, who may die right after their decision was recorded, or of stops and reapers. `AcpStartup`: the worker and a call that began go on,
because each of the worker's waits has a timeout. `TerminalRunner`: threads and started calls go
on, the shell does what it was told, and somebody keeps reading an open job; nothing is assumed of the provider, nor
that a job has a timeout. `InputContinuation`: the monitor keeps polling, and
the CLI at last reports the state it is in. `GuiTurn`: the turn goes on, because every driver call has a timeout
and the poll a deadline; nobody owes it an answer or a failure. `GuiSlot`: turns go on, the clock
does, and a caller that was turned away comes back. `TerminalWait`: a client keeps asking for the rest, a writer that
holds the lock finishes its line unless it dies, the waiter goes on and its deadline passes.

## Proofs

For every set of paths and any relation between them, any jobs and any number of grants:
`TypeCorrect`, `MutualExclusion` (`NoOverlap`), `TokensNameOneLease`, `DamageFailsClosed`,
`ExternalLeaseKept`. The inductive invariant adds to type, overlap and distinctness that
every token in a file has been issued, without which a new token could collide with an old one;
lemmas treat the two ways a lease map changes: it loses leases (`ShrinkPreserves`) or gains one
through `Grantable` (`AcquirePreserves`).

For any set of reapers, stoppers and retriers, either backend, and any number of faults:
`TypeCorrect`, `StatusAgrees`, `SingleTerminalizer`, `ClaimantDecides`, `StopWins`,
`TerminalStatusIsFinal`, `FlagFollows`, `ContractHolds`. The inductive invariant `IInv` says in parts: between its
two writes an actor holds the lock and the job is open (`LockHeld`); `result.json` then is that
actor's (`Publishing`); whoever is past the claim owns it, or the job is stopped (`Claiming`);
stages belong to roles (`Roles`); a stop in progress implies the status stopped (`Stopping`); and
without faults nothing is left behind in `result.json` (`NothingLeftBehind`). `EndIsFinal` is the
step lemma that both the finality theorem and the refinement use. TLC checked `IInv` as an
invariant, with two faults, before it was proved. `FlagFollows` (`UnconfirmedGetsFlagged`) has an invariant
of its own, `FlagInv`: evidence of anybody but a stop is true and stays true (`EvidenceIsTrue`), so that a flag is
cleared only when the provider is quiet, and a result carries its publisher's evidence (`ResultCarries`).
`ConfirmedEndIsQuiet` is what remains of the refuted `ConfirmedMeansQuiet` (disagreement 10) where no stop intervened:
`EndInv` says that nobody publishes without having looked for the provider (`Evidenced`), that leases are released only
of jobs with a result (`Ended`), and that a confirmed cleanup not written by a stop is true (`ResultIsTrue`).

For the composition: `IsALifecycle`, `HoldsUntilResult` (`LeaseUntilResult`), `UsesTheStore`
(`ImplementsWriterLease`), `IntruderNeedsDoubt` (`IntruderOnlyAfterUnproven`), `FlaggedStays` (`FlaggedLeaseRetained`),
`TypeCorrect`. `IsALifecycle` shows that every composed step is a step of the job or leaves it alone, so all that is
proved of `JobLifecycle` holds of its part here; `StoreSteps` shows the same of the lease store, from which the
store's invariant follows (`StoreInv`). What relates the two is `DevInv`: the token was issued and is at this
workspace or nowhere (`TokenIsIssued`, `TokenAtWorkspace`), no other lease names the job (`OwnLeases`), a job that has
not been launched is still open (`NotRunYet`), and an attached job without a collectable result holds its workspace
(`Held`). The last is kept because the store reads such a job as nonterminal or flagged, which no reconciliation
reclaims (`OthersKeepAttached`), and because only a publisher of a collectable result gives the lease back
(`ReleasesCollectable`, from `Ended`).

For any number of permission requests, owners, stops, reapers and crashes, wherever they run:
`TypeCorrect`, `OwnersDecide` (`AnswerIsTheOwners`), `NothingAfterTheEnd` (`EndedStaysEnded`),
`WaitStaysAnswerable`, `DenialPreventsSuccess` (`DeniedNeverSucceeds`), `ContractHolds`. The allow that reaches the provider has passed through an owner, the record or the registry,
a callback, the future and the handler; the inductive invariant says at each of them that it is the accepted
decision of the request the handler has in hand: `RecordAgrees`, `ErrandsAgree`, `DeliveryAgrees`,
`HandlerState`, and `OneDecision` for what came of it. A late owner cannot reach the next request because nothing
is known of a request before it is made (`NotAskedYet`). For the refinement, `Pace` and `EndIsClaimed` say that
the handler meets a status or a cancelled future it did not expect only once the end of the job is claimed.
`WaitStaysAnswerable` (`WaitIsAnswerable`) rests on `AnswerInv`: no owner can have seen a wait that is not registered
yet (`AskedFirst`), so the record is tidied up only after the delivery (`WaitIsLive`). `DenialPreventsSuccess`
follows a refusal to the worker that publishes (`NoneDenied`). Each
part has a lemma of its own with a step per group of actions; TLC checked the parts first.

For any number of crashes, failed writes and evicted handles around the launch of an ACP job: `TypeCorrect`,
`FreeLeaseMeansNoLeader` (`FreeMeansNoLeader`), `ConfirmedIsForGood` (`ConfirmedMeansNoLeader`), `EarlyStopHolds`
(`StopBeforeSpawnHolds`). Whoever holds or published "confirmed" may only be right (`Truthful`, `Receipts`), and
`TerminationIsTruthful` shows it of `safe_acp_termination`. That works because an identity in the record is one the
worker has seen (`IdentityIsSeen`), because a spawn is possible only while the launch is marked (`Marked`), and
because an error leaves a child alive only with the marker still set (`Leaving`).

For any number of failing tmux calls and crashes: `SuccessHasACause` (`SuccessIsReal`) — no zero on disk, and no
reader that saw one, without the command's — and `LeaseCovers` (`LeaseCoversSession`), whose invariant follows the
session from its creation to the worker's last look for a stop.

For a fallback chain of any length and any number of interventions and misreported clicks: `NothingAfterAcknowledged`
(`AcknowledgedIsLast`), `VerifiedBeforeSent` (`OnlyVerifiedIsSent`), `SuccessIsAnswered` (`SuccessIsOwnAnswer`),
`EarlyStopHolds` (`EarlyStopPreventsSend`), `DraftsStay` (`DraftIsLeftAlone`), `FilesAreNotDropped`
(`NothingSentWithoutFiles`), `TypeCorrect`. The invariant has a part on the
window at hand (`AtHand`: no draft in it once the turn writes, the prompt or what slipped in once it is past its last
look, and no window of the turn's in a browser it has not reached) and one on what was sent (`Told`: acknowledged
only at the browser at hand, something between the markers only after a text was sent there, a success only with an
answer that still stands, because nobody falls back after it). Each is kept by every step, given the other's
`Looked`.

For any number of turns and processes: `PollersOwnTheirSession` (`PollerOwnsSession`), `TurnsExclude`
(`OneTurnPerProcess`), `NothingStays` (`NothingLeftBehind`), `SlotTypeCorrect`; every mark that is left has an owner on the way to
remove it, or one that died.

For any number of replies and polls: `SuccessIsOfTheReply` (`SuccessAnswersReply`), `AnsweredIsNotAskedAgain`
(`NoPauseAfterAnswer`), `TypeCorrect`. `Owed` is the turn that the last reply makes due, `Outstanding` that it is not
over. The invariant orders the generations (`Numbered`), says what the CLI can report and a poll have read of a turn
(`Reported`, `Read`) and what the monitor may have concluded and remembered (`Polls`, `Evidences`, `Paused`). Its heart is
`Awaited` and `CaughtUp`: while an answer is due, neither provider nor transcript nor CLI shows one, and a monitor that
knows of the reply remembers nothing of the turns before it that could pass for one, so no verdict that goes by evidence
has any for a success. The verdict of the idle finalization does not, and is exempted (disagreement 3). TLC checked the whole `IInv` before it was proved.

For any writers, events and bytes: `WaitTypeCorrect`, `SuccessHolds` (`SuccessIsDurable`), `DecidedIsNotReported` (`NoPhantomRequest`,
of decisions made before the poll),
whose invariant says that a look at the job during the hand-off has seen the decision, `OutputIsComplete`
(`OutputKeepsItsPlace`, up to characters the file ended inside), and `LogIsOrdered` (`ImplementsOrderedLog`, for logs that are
not broken). For the refinement, `LogInv` says that as long as no line is spoiled the n-th
complete line has number n, that the writer with the lock is about to write the next number, and that a client has
been shown exactly the first `cursor` events. The tail of a reply is computed by a recursive function (`Beyond`);
`BeyondIs` shows that the function exists and what it selects, by looking at the least length at which that would fail.

Liveness itself stays with TLC, but the other half of five liveness properties is proved for all constants: that
there always is somebody left whose step fairness then brings about. `OnlyFaultsStrand` (for
`ExpiredIsCollectedOrStranded`): without a fault, a claimed job has an actor that cancels or publishes, a stopped one a
stop that still has the result to write. `AcceptedIsInReach` (for `AcceptedIsConsumed`): an accepted decision
that was not consumed is one the living worker's handler has in hand, and the handler has a step to take.
`SteppingBackLeavesACaller` (for `ResultAppears`): a worker that stepped back for a stop leaves a caller that publishes,
whichever of event, tombstone and status it saw. `SessionHasAnEnder` (for `StopEndsSession`): a session that survives
a stop is one the stop or its creator has yet to look at. `FinishedIsNotTakenForStale` (for `FinishedIsPublished`): a
monitor that knows of the last reply is not held back by the guards against stale evidence once that turn is over,
because the position a reply carries lies before its answer (`Positioned`).

The assumptions are the named `ASSUME`s of the modules: roles are disjoint, an ancestor is a different path, the bounds
are natural numbers; the composition has those of its two parts (`LifecycleAssumptions`, `LeaseAssumptions`).

Model-checked only: the liveness properties (fairness and ENABLED are beyond the prover). Every invariant, action
property and refinement that a passing run checks is a theorem.

## Where code and documentation disagree

With a run that shows it:

1. **Retained lease** (`retained_lease`). The status that lets an acquire drop the lease is
   visible before the flag that forbids it.
2. **Reply that does not resume** (`reply_resumes`). `send_user_input` decides from the status it read before
   typing whether to resume the job. A reply typed while the job still runs can answer the question that the
   monitor then pauses for, and the job stays `awaiting_input` with no question left.

Found with a property that is stated in its module and refuted by TLC (named in its cfg it is a run like those):

3. **An idle process finishes the job** (`CompletionIsNew`). Polls of a session that is working with an
   idle process, unchanged logs and any `claude:` text in them are taken for completion, without a look at the reply
   that is still to be answered. "A repeated state is never promoted by elapsed polls or transcript growth alone"
   says the comment on the guard that this path does not pass.
4. **A character cut in two** (`NeverSplits`). A slice read while the file ends inside a character
   passes it as U+FFFD, and the next one skips its rest.
5. **A number twice** (`NumbersAreMonotonic`). A writer that dies between the JSON and the newline
   leaves an event that readers accept; the next append spoils both, and their numbers are handed out again.
6. **An altered prompt is sent** (`AlteredNeverSent`). Between the snapshot that is verified and the click
   the user may type; what is in the composer then is sent, and its answer is the job's success.
7. **The user's text is cleared** (`MixedIsLeftAlone`). `verify_paste` says of a mismatch that it may be
   the user's and is to be left alone (`runner.py:1445`); its caller clears the composer and pastes over it
   (`runner.py:1471`).
8. **One durable result** (`OneDurableResult`). `_reap_deadline_expired_job` promises that
   exactly one durable result is ever persisted. `set_result` guards on the status and writes the result
   first: after a crash in between, the reaper writes another.
   What does hold is proved: no *collectable* result is ever replaced (`TerminalStatusIsFinal`).
9. **Reaping after a dead claimant** (`ExpiredIsCollected`). The claim never expires; when its
   owner dies the job stays open until an explicit stop. `job` shows this is the only
   way, beside a stop that dies before its result.
10. **Evidence of a native stop** (`ConfirmedMeansQuiet`). No evidence counts as confirmed cleanup. For an
   ACP job the property holds.
11. **Settled with the end** (`EndedIsSettled`). A pending request shall be settled in the critical section
   that ends the job. The reaper settles in one and ends in another; the worker's next request fits in
   between and stays pending in the record of the ended job. It does no harm to the decision: none
   is accepted for an ended job (`EndedStaysEnded`).
12. **A stopped print job** (`ConfirmedStopIsQuiet`). Before its pid is recorded a print process is not signalled, and
   the missing cleanup counts as confirmed.
13. **The rest of the group** (`ConfirmedMeansGroupGone`). `safe_acp_termination` takes a leader that is gone as proof
   for the whole group; processes that the provider started may be alive.
14. **The prompt twice** (`SentOnce`). A click on Send that landed but is reported as failed lets the next
   browser send the prompt again. After an acknowledged click it cannot happen (`AcknowledgedIsLast`).
15. **Two GUI turns on one host** (`ExcludedHostWide`). The lock is taken for stale after 900 seconds, a
    turn may take 1800, a lock file that is empty for a moment counts as damaged, and a release removes whatever
    file is there. Within a process the session slot still keeps turns apart (`PollerOwnsSession`).

Seen while reading, without a property: `_finalize_completed_tmux_job` reads a status file that exists but is still empty
as exit 1 (`jobs.py:1494`), so a reader in that moment fails a job that succeeded (`ExitVerdict` models it); one
line of `events.jsonl` that does not parse makes every later `job_tail` raise (`jobs.py:345`), and with it wait-job,
while the writer's reload skips it (`jobs.py:303`, `Unreadable` models it); a whole output tail is followed by a `stat` whose size may include bytes that the
tail did not (`jobs.py:878`), which a client that continues from there never sees; the comment at
`server.py:1136` and the repository's README (line 462) have a job marked as stopped before its run handle is
cancelled, while `stop_job` cancels the handle first (`jobs.py:2171`), which the models follow; and
`model_cache.write_cache` restores its backup after a failed write
and may thereby replace a newer entry of another process.

## Simplifications

- In `JobLifecycle`, `WriteFails` is the failure of the first of a publisher's writes; one of the second leaves
  the files as a crash between them does, but a native monitor then goes on to publish a failure over its own result,
  which is left out. `DevJobs` takes the error paths of `agent_start` together
  (`StartFails`): they release the lease by token or leave it to the reconciliation.
- Every job has a `max_runtime_sec`; a job without one is never reaped.
- `RollBackLaunch` merges the cancel with the write of its flag, which precedes the result in the code too.
- In `JobLifecycle` an ACP job starts with its child running and its handle registered; `TurnEnds` and the
  publication without cleanup evidence assume that `run_acp_prompt` has ended the child. `AcpStartup` shows why
  both are justified, and has what comes before.
- The retry's last rewrite of `lease_disposition` is part of `RetryReleasesLease`.
- A lease that cannot be removed because of an `OSError` is the crash before the release.
- In `DevJobs` the lifecycle starts when the token is recorded, a start crashes at most
  once, files are not damaged (`writer_lease` covers that), and only leases
  whose age is looked at grow older.
- In `OwnerPermission` the child's identity is recorded, so its being alive is what `job_send`
  sees; an unverifiable identity is the case of a dead one. The registry's limit of 16 waits cannot be
  reached behind the callback lock and is left out. `Resume` merges the read of the status with the
  transition that repeats its check. A reaper may find the child gone or not.
- In `AcpStartup` permissions and the messages of the turn are left out; a turn ends well, badly, or in silence.
- In `InputContinuation` replies come one after the other, a question is answered by nothing but a reply of
  `job_send`, and measuring the transcript does not fail. A stop ends the session at once.
- `TerminalRunner` has one candidate command, as all launch plans have, and publishes in one step.
- In `GuiTurn` text is a prompt, a part of it, or the user's, and an accessibility tree is what the checks
  ask of it. Safari's page script works in the window of the turn. The user does not press Send himself, and what
he reads or asks in a window after the look does not look like this turn's markers.
- In `TerminalWait` the numbers, not the content, of events are kept; one kind of client runs at a time.

## Plan

Done: every module above and the proofs described. To come:

1. Proofs: what `LeaseFreedOrFlagged` and `EventsArrive` need to be possible, as for the five liveness properties
   above.
2. `ModelCache` with writers in several processes, and `Admission` as a source of refused starts.
3. The synchronous tmux request of `server.py`, as another caller that ends a job of `TerminalRunner`.

## Not modelled

`PROJECT.json` gives the reason for each component. Adapters, profiles, validation,
envelopes, context packing, usage and redaction are functions without state: what the models need of
them, the state and turn a CLI reports or whether a cancel was confirmed, is a nondeterministic answer. Text recognition
in panes and pages is one too. Readiness probes, the model cache and discovery decide nothing about
a job that exists. The exchange of ACP messages is left to its library; what it can come to is in `AcpStartup` and
`OwnerPermission`. Telemetry decides nothing. `create_job`'s choice of identifiers, ownership by session and
`list_jobs` are reads and a random name.
