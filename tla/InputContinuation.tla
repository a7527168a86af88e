------------------------ MODULE InputContinuation ------------------------
(***************************************************************************)
(* Replies to an interactive native session: JobStore.send_user_input      *)
(* (jobs.py) typing a reply into the provider's terminal, and the monitor  *)
(* loop _run_adapter_job (agent_runner.py), which has to tell the turn     *)
(* that answers the reply from what the provider still says of the turn    *)
(* before it.  Publication is one step here; JobLifecycle takes it apart.  *)
(***************************************************************************)
EXTENDS Integers

CONSTANT MaxReplies    \* bound on the replies an owner sends

ASSUME MaxRepliesAssumption == MaxReplies \in Nat

VARIABLES
    interactive, identity, lags,   \* see Init
    status,             \* meta.status
    gen, base,          \* meta.input_generation, meta.input_transcript_baseline
    asked,              \* the turn whose question paused the job
    turn, phase,        \* the provider's turn (the reply it works on), its state
    typed,              \* replies typed into the terminal
    printed,            \* complete answers the transcript shows
    native,             \* what the provider's CLI reports: a state, of a turn
    call,               \* send_user_input
    promised, acked,    \* last reply accepted in answer to the pause; last accepted
    pc, reading, seen, fresh,                               \* the monitor: this poll,
    lastGen, saw, mark, resumeEvidence, lastEvidence, \* and across polls
    unchanged           \* polls that found the logs as they are now, up to 3

kind == <<interactive, identity, lags>>
meta == <<status, gen, base, asked>>
world == <<turn, phase, typed, printed, native>>
client == <<call, promised, acked>>
memory == <<lastGen, saw, mark, resumeEvidence, lastEvidence>>
poll == <<pc, reading, seen, fresh>>
vars == <<kind, meta, world, client, memory, poll, unchanged>>

Turns == 0 .. MaxReplies
None == -1
Positions == {None} \cup 0 .. MaxReplies + 1
Open == {"running", "awaiting_input"}
States == {"starting", "working", "blocked", "done", "failed"}

TypeOK ==
    /\ interactive \in BOOLEAN /\ identity \in BOOLEAN /\ lags \in BOOLEAN
    /\ status \in Open \cup {"succeeded", "failed", "stopped"}
    /\ gen \in Turns /\ base \in Positions /\ asked \in Turns \cup {None}
    /\ turn \in Turns /\ phase \in States \cup {"gone"} /\ typed \in Turns
    /\ printed \in 0 .. MaxReplies + 1
    /\ native \in [state : States, turn : Turns]
    /\ call \in [at : {"idle", "measure", "type", "record", "resume"},
                 initial : Open, baseline : Positions, answers : BOOLEAN]
    /\ promised \in Turns /\ acked \in Turns
    /\ pc \in {"probe", "look", "judge", "pause", "publish", "over"}
    /\ reading \in [state : States \cup {"idle"}, turn : Turns]
    /\ seen \in Open /\ fresh \in BOOLEAN
    /\ lastGen \in Turns /\ saw \in BOOLEAN /\ mark \in Positions
    /\ resumeEvidence \in Turns \cup {None} /\ lastEvidence \in Turns \cup {None}
    /\ unchanged \in 0 .. 3

NoCall == [at |-> "idle", initial |-> "running", baseline |-> None, answers |-> FALSE]
NoReading == [state |-> "starting", turn |-> 0]

\* identity: the CLI names the turn it reports on; lags: it may go on reporting
\* a question that has been answered.
Init ==
    /\ interactive \in BOOLEAN /\ identity \in BOOLEAN /\ lags \in BOOLEAN
    /\ status = "running" /\ gen = 0 /\ base = None /\ asked = None
    /\ turn = 0 /\ phase = "starting" /\ typed = 0 /\ printed = 0
    /\ native = [state |-> "starting", turn |-> 0]
    /\ call = NoCall
    /\ promised = 0 /\ acked = 0
    /\ pc = "probe" /\ reading = NoReading /\ seen = "running" /\ fresh = FALSE
    /\ lastGen = 0 /\ saw = TRUE /\ mark = None
    /\ resumeEvidence = None /\ lastEvidence = None /\ unchanged = 1

-----------------------------------------------------------------------------
(* The provider, its terminal and its CLI, while the job is open.  A        *)
(* question is answered only by a reply of send_user_input.                 *)

Works ==
    /\ status \in Open
    /\ \/ phase = "starting" /\ UNCHANGED turn
       \/ phase \in {"blocked", "done"} /\ typed > turn /\ turn' = turn + 1
    /\ phase' = "working" /\ unchanged' = 0
    /\ UNCHANGED <<kind, meta, typed, printed, native, client, memory, poll>>

Asks ==
    /\ status \in Open
    /\ phase = "working" /\ phase' = "blocked" /\ unchanged' = 0
    /\ UNCHANGED <<kind, meta, turn, typed, printed, native, client, memory, poll>>

Answers ==
    /\ status \in Open
    /\ phase = "working" /\ phase' = "done"
    /\ printed' = printed + 1 /\ unchanged' = 0
    /\ UNCHANGED <<kind, meta, turn, typed, native, client, memory, poll>>

Breaks ==
    /\ status \in Open
    /\ phase \in {"starting", "working"} /\ phase' = "failed" /\ unchanged' = 0
    /\ UNCHANGED <<kind, meta, turn, typed, printed, native, client, memory, poll>>

Reports ==
    /\ status \in Open
    /\ phase # "gone" /\ ~ (phase = "blocked" /\ typed > turn)
    /\ native # [state |-> phase, turn |-> turn]
    /\ native' = [state |-> phase, turn |-> turn]
    /\ UNCHANGED <<kind, meta, turn, phase, typed, printed, client, memory, poll, unchanged>>

\* "The native CLI can briefly still report the previous turn's done state."
ReportsOldTurn ==
    /\ status \in Open
    /\ native.turn < typed /\ native.turn <= turn /\ native.state \in {"working", "blocked"}
    /\ native.turn = turn => phase = "blocked"
    /\ native' = [native EXCEPT !.state = "done"]
    /\ UNCHANGED <<kind, meta, turn, phase, typed, printed, client, memory, poll, unchanged>>

\* interactive_tmux_output_complete_since: a complete answer behind that
\* position, and nothing busy behind the answer.
CompleteSince(position) == position # None /\ printed > position /\ phase # "working"

-----------------------------------------------------------------------------
(* send_user_input *)

\* The status is read outside any lock.
Check ==
    /\ interactive /\ call.at = "idle" /\ typed < MaxReplies /\ status \in Open
    /\ call' = [call EXCEPT !.at = "measure", !.initial = status]
    /\ UNCHANGED <<kind, meta, world, promised, acked, memory, poll, unchanged>>

MeasureTranscript ==
    /\ call.at = "measure"
    /\ call' = [call EXCEPT !.at = "type", !.baseline = printed]
    /\ UNCHANGED <<kind, meta, world, promised, acked, memory, poll, unchanged>>

\* tmux send-keys: the text, half a second, Enter.
Type ==
    /\ call.at = "type" /\ phase # "gone"
    /\ typed' = typed + 1 /\ unchanged' = 0
    /\ native' \in IF native.state # "blocked" \/ lags THEN {native}
                   ELSE {[native EXCEPT !.state = "done"], [state |-> "working", turn |-> typed']}
    /\ call' = [call EXCEPT !.at = "record",
                            !.answers = /\ call.initial = "awaiting_input"
                                        /\ phase = "blocked" /\ asked = turn /\ typed = turn]
    /\ UNCHANGED <<kind, meta, turn, phase, printed, promised, acked, memory, poll>>

TypeFails ==
    /\ call.at = "type" /\ call' = NoCall
    /\ UNCHANGED <<kind, meta, world, promised, acked, memory, poll, unchanged>>

Acknowledge == acked' = typed /\ promised' = IF call.answers THEN typed ELSE promised

\* Under the meta lock; a job that ended meanwhile is job_already_terminal.
Record ==
    /\ call.at = "record"
    /\ IF status \in Open
       THEN /\ gen' = gen + 1 /\ base' = call.baseline
            /\ IF call.initial = "awaiting_input"
               THEN call' = [call EXCEPT !.at = "resume"] /\ UNCHANGED <<promised, acked>>
               ELSE call' = NoCall /\ Acknowledge
       ELSE call' = NoCall /\ UNCHANGED <<gen, base, promised, acked>>
    /\ UNCHANGED <<kind, status, asked, world, memory, poll, unchanged>>

\* transition_job_status(running, allowed_from {awaiting_input}).
Resume ==
    /\ call.at = "resume"
    /\ call' = NoCall
    /\ IF status = "awaiting_input"
       THEN status' = "running" /\ asked' = None /\ Acknowledge
       ELSE UNCHANGED <<status, asked, promised, acked>>
    /\ UNCHANGED <<kind, gen, base, world, memory, poll, unchanged>>

-----------------------------------------------------------------------------
(* The monitor loop *)

PollEnds == reading' = NoReading /\ seen' = "running" /\ fresh' = FALSE

Publish(s) == status' = IF status \in Open THEN s ELSE status

\* _terminalize_runtime_deadline and a failing provider cancel the session.
Ends(s) ==
    /\ Publish(s) /\ phase' = "gone" /\ pc' = "over"
    /\ PollEnds
    /\ UNCHANGED <<kind, gen, base, asked, turn, typed, printed, native, client, memory, unchanged>>

\* job_stop (JobLifecycle).
Stops ==
    /\ status \in Open /\ status' = "stopped" /\ phase' = "gone"
    /\ UNCHANGED <<kind, gen, base, asked, turn, typed, printed, native, client, memory, poll, unchanged>>

\* The head of the loop and adapter.status().  A session that the CLI calls
\* working has an idle process when the provider is not at work: over a
\* question, replied to or not, and after an answer.
Probe ==
    /\ pc = "probe"
    /\ IF status \notin Open THEN pc' = "over" /\ PollEnds
       ELSE /\ pc' = "look" /\ UNCHANGED <<seen, fresh>>
            /\ \/ reading' = native
               \/ /\ native.state = "working" /\ phase \in {"blocked", "done"}
                  /\ reading' = [native EXCEPT !.state = "idle"]
    /\ UNCHANGED <<kind, meta, world, client, memory, unchanged>>

\* A probe that times out leaves the loop where it was; max_runtime, or a
\* failure of the probe or of reading the logs, ends the job.
DeadlinePasses == pc = "probe" /\ status \in Open /\ Ends("failed")
MonitorFails == pc \in {"probe", "publish"} /\ Ends("failed")

Evidence(r) == IF identity THEN r.turn ELSE None

\* Mutant: a new reply does not reset what was seen of the turn before it.
MutLook ==
    /\ pc = "look"
    /\ IF status \notin Open THEN pc' = "over" /\ PollEnds /\ UNCHANGED memory
       ELSE /\ pc' = "judge" /\ seen' = status /\ fresh' = (gen # lastGen)
            /\ lastGen' = gen
            /\ mark' = IF fresh' THEN base ELSE mark
            /\ resumeEvidence' = IF fresh' THEN lastEvidence ELSE resumeEvidence
            /\ UNCHANGED <<reading, saw, lastEvidence>>
    /\ UNCHANGED <<kind, meta, world, client, unchanged>>

\* The meta snapshot, read after the probe.
Look ==
    /\ pc = "look"
    /\ IF status \notin Open THEN pc' = "over" /\ PollEnds /\ UNCHANGED memory
       ELSE /\ pc' = "judge" /\ seen' = status /\ fresh' = (gen # lastGen)
            /\ lastGen' = gen
            /\ saw' = ((saw /\ ~ fresh') \/ reading.state \in {"working", "idle"})
            /\ mark' = IF fresh' THEN base ELSE mark
            /\ resumeEvidence' = IF fresh' THEN lastEvidence ELSE resumeEvidence
            /\ UNCHANGED <<reading, lastEvidence>>
    /\ UNCHANGED <<kind, meta, world, client, unchanged>>

\* Mutant: the transcript is not consulted.
MutNewTurnShown == saw \/ (identity /\ resumeEvidence # None /\ reading.turn # resumeEvidence)

NewTurnShown ==
    \/ saw
    \/ identity /\ resumeEvidence # None /\ reading.turn # resumeEvidence
    \/ CompleteSince(mark)

Move(to) ==
    /\ pc' = to
    /\ IF to \in {"probe", "over"} THEN PollEnds ELSE UNCHANGED <<reading, seen, fresh>>
    /\ UNCHANGED <<kind, meta, world, client>>

\* The count of a poll that is no evidence of an idle process starts again, at
\* what the monitor has read of the logs.
Restarted == IF unchanged = 0 THEN 0 ELSE 1

Remember(n) ==
    /\ lastEvidence' = Evidence(reading) /\ unchanged' = n
    /\ UNCHANGED <<lastGen, saw, mark, resumeEvidence>>

\* stale_done_ignored; a done reading of a paused job is of the turn before.
JudgeDone ==
    /\ pc = "judge" /\ reading.state = "done"
    /\ saw' = NewTurnShown /\ UNCHANGED <<lastGen, mark, resumeEvidence>>
    /\ IF NewTurnShown /\ seen # "awaiting_input"
       THEN Move("publish") /\ lastEvidence' = Evidence(reading) /\ unchanged' = Restarted
       ELSE Move("probe") /\ UNCHANGED <<lastEvidence, unchanged>>

JudgeFailed ==
    pc = "judge" /\ reading.state = "failed" /\ Move("publish") /\ Remember(Restarted)

\* idle_finalized: unchanged logs in polls of an idle process, and some answer
\* of the provider in them, of whichever turn: _screen_reader_final_response
\* looks for the last one, and what a provider says before a question is one.
JudgeWorking ==
    /\ pc = "judge" /\ reading.state \in {"starting", "working", "idle"}
    /\ LET polls == IF reading.state # "idle" THEN 1 ELSE IF unchanged = 3 THEN 3 ELSE unchanged + 1
       IN  /\ Remember(polls)
           /\ \/ polls = 3 /\ Move("publish")
              \/ Move("probe")

\* Mutant: a blocked reading older than the reply pauses the job again.
MutJudgeBlocked ==
    /\ pc = "judge" /\ reading.state = "blocked" /\ interactive
    /\ Remember(Restarted)
    /\ \/ seen # "awaiting_input" /\ CompleteSince(base) /\ Move("publish")
       \/ status # "awaiting_input" /\ Move("pause")
       \/ status = "awaiting_input" /\ Move("probe")

\* A transcript complete since the reply outweighs a blocked reading; one
\* taken before the reply was recorded is ignored.
JudgeBlocked ==
    /\ pc = "judge" /\ reading.state = "blocked" /\ interactive
    /\ Remember(Restarted)
    /\ \/ seen # "awaiting_input" /\ CompleteSince(mark) /\ Move("publish")
       \/ /\ seen = "awaiting_input" \/ ~ CompleteSince(mark)
          /\ Move(IF fresh \/ status = "awaiting_input" THEN "probe" ELSE "pause")

\* A question in a job that nobody can answer: cancel it, failed.
BlockedNoninteractive ==
    /\ pc = "judge" /\ reading.state = "blocked" /\ ~ interactive
    /\ Ends("failed")

\* transition_job_status(awaiting_input, require_meta input_generation).
Pause ==
    /\ pc = "pause"
    /\ pc' = IF status \in Open THEN "probe" ELSE "over"
    /\ IF status \in Open /\ gen = lastGen
       THEN status' = "awaiting_input" /\ asked' = reading.turn
       ELSE UNCHANGED <<status, asked>>
    /\ PollEnds
    /\ UNCHANGED <<kind, gen, base, world, client, memory, unchanged>>

\* A session whose final response cannot be recovered from its logs failed.
PublishVerdict ==
    /\ pc = "publish" /\ pc' = "over"
    /\ \E s \in IF reading.state = "failed" THEN {"failed"} ELSE {"succeeded", "failed"} : Publish(s)
    /\ PollEnds
    /\ UNCHANGED <<kind, gen, base, asked, world, client, memory, unchanged>>

-----------------------------------------------------------------------------
ProviderTakesTurn == Works \/ Answers
Surprise == Asks \/ Breaks \/ ReportsOldTurn \/ Stops \/ DeadlinePasses \/ TypeFails
            \/ MonitorFails
SendStep == MeasureTranscript \/ Type \/ Record \/ Resume
MonitorStep ==
    \/ Probe \/ Look \/ JudgeDone \/ JudgeFailed \/ JudgeWorking \/ JudgeBlocked
    \/ BlockedNoninteractive \/ Pause \/ PublishVerdict

Next == ProviderTakesTurn \/ Reports \/ Surprise \/ Check \/ SendStep \/ MonitorStep

Spec == Init /\ [][Next]_vars
FairSpec == Spec /\ WF_vars(MonitorStep) /\ WF_vars(Reports)

-----------------------------------------------------------------------------
\* The turn of that reply has run to its answer, or to a question replied to.
Over(t) == turn > t \/ (turn = t /\ phase # "working" /\ (phase = "blocked" => typed > t))

\* A reply accepted as the answer to the question that paused the job is
\* waited for: no done reading, no transcript and no turn identity of the turn
\* before it makes the job a success.  An idle process may (CompletionIsNew).
SuccessAnswersReply ==
    [][status' = "succeeded" /\ status # "succeeded" /\ reading.state # "idle" /\ promised > 0
       => Over(promised)]_vars

\* What the monitor's comment on its memory of a reply says: "A repeated state
\* is never promoted by elapsed polls or transcript growth alone."  Three
\* polls of an idle process promote the text of the turn before the reply.
CompletionIsNew == status = "succeeded" /\ promised > 0 => Over(promised)

\* Where the CLI drops a question once it is answered, a reply accepted as
\* its answer is never followed by a pause for the same question, whenever
\* the monitor read its evidence.
NoPauseAfterAnswer ==
    [][status' = "awaiting_input" /\ status # "awaiting_input" /\ ~ lags
       => asked' >= promised]_vars

Finished ==
    /\ status = "running" /\ phase = "done" /\ turn = typed /\ gen = typed
    /\ call.at = "idle" /\ pc = "probe"

\* A poll of a running job that begins after the provider finished the turn
\* of the last recorded reply leads to its result (or another reply comes):
\* the guard against a stale done strands no job, with or without turn
\* identities, and neither does a CLI that still reports the answered question.
FinishedIsPublished == Finished ~> (status \notin Open \/ call.at # "idle")

\* What send_user_input's "a successful reply starts another provider turn"
\* and the monitor's comment on its compare-and-swap say: no accepted reply
\* leaves the job paused for the question it answered.  The code reads the
\* status that decides about resuming before it types.
ReplyResumes ==
    ~ (~ lags /\ status = "awaiting_input" /\ call.at = "idle" /\ asked < acked)
=============================================================================
