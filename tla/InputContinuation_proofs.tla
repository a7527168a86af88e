---------------------- MODULE InputContinuation_proofs ----------------------
(***************************************************************************)
(* A success answers the replies that were accepted, and no accepted reply *)
(* is followed by a pause for the question it answered, for any number of  *)
(* replies.                                                                *)
(***************************************************************************)
EXTENDS InputContinuation, TLAPS

-----------------------------------------------------------------------------
(* The invariant                                                           *)

\* The reply whose answer is due: one typed to answer the pause, already
\* before it is accepted, or the last one accepted.
Answering == call.at \in {"record", "resume"} /\ call.answers
Owed == IF Answering THEN typed ELSE promised
Outstanding == Owed > 0 /\ ~ Over(Owed)

\* The monitor has a reading in hand.
Polling == pc \notin {"probe", "over"}

\* Counters keep in step, and what a step left behind is cleared.
Bounded ==
    /\ turn <= typed /\ native.turn <= typed /\ gen <= typed
    /\ printed <= turn + 1
    /\ phase \in {"starting", "working", "blocked"} => printed <= turn
    /\ phase = "starting" => turn = 0
    /\ call.at \in {"measure", "type"} => typed < MaxReplies
    /\ call.at \in {"measure", "type", "idle"} => ~ call.answers
    /\ call.answers \/ call.at = "resume" => call.initial = "awaiting_input"
    /\ pc = "probe" => reading = NoReading
    /\ pc \in {"probe", "look"} => seen = "running" /\ ~ fresh

\* A success is the monitor's, and its last step.
SuccessIsLast == status = "succeeded" => pc = "over"

\* A reply is recorded once, right after it is typed.
Numbered ==
    /\ phase # "gone" /\ pc # "over"
    /\ gen = IF call.at = "record" THEN typed - 1 ELSE typed
    /\ lastGen <= gen /\ promised <= gen

\* What the CLI reports was so, and a turn it calls done is over.
Reported ==
    /\ \/ native.turn <= turn
       \/ native = [state |-> "working", turn |-> turn + 1] /\ phase = "blocked" /\ typed > turn
    /\ native.state = "blocked" => native.turn < turn \/ (native.turn = turn /\ phase = "blocked")
    /\ native.state = "done" => Over(native.turn) /\ phase # "starting"
    /\ native.state = "blocked" /\ ~ lags => native.turn = typed

\* The same of the reading that the monitor goes by, which may be older.
Read == Polling =>
    /\ reading.turn <= native.turn
    /\ reading.state = "done" => Over(reading.turn) /\ phase # "starting"
    /\ reading.state = "blocked" =>
         \/ reading.turn < turn
         \/ reading.turn = turn /\ phase = "blocked" /\ (typed = turn => native = reading)
    /\ reading.state = "blocked" /\ ~ lags /\ ~ fresh => reading.turn >= lastGen
    /\ pc = "pause" => reading.state = "blocked" /\ ~ fresh

\* A paused job has a question that was seen; until it is replied to, nobody
\* sees anything else.
Paused == status = "awaiting_input" =>
    /\ asked \in Turns /\ asked <= turn /\ asked <= native.turn
    /\ Polling => asked <= reading.turn
    /\ asked = turn => phase = "blocked"
    /\ asked = turn /\ typed = turn =>
         /\ native = [state |-> "blocked", turn |-> turn]
         /\ reading \in {NoReading, native}
    /\ identity => lastEvidence >= asked

\* A reply to a paused job: only the reply itself resumes the job, and its
\* baseline is what the transcript shows as long as the question stands.
Called ==
    /\ call.at # "idle" /\ call.initial = "awaiting_input" => status = "awaiting_input"
    /\ call.at = "type" /\ call.initial = "awaiting_input" /\ asked = turn /\ typed = turn
         => call.baseline = printed

\* A poll that found the job running judges with the last reply's record in
\* hand, and what it is about to publish answers the reply that is waited for,
\* unless an idle process is all it goes by.
Polls ==
    /\ pc \in {"judge", "pause", "publish"} /\ seen = "running"
         => status = "running" /\ promised <= lastGen
    /\ pc = "publish" => seen = "running" \/ reading.state \in {"idle", "failed"}
    /\ pc = "publish" /\ reading.state \notin {"failed", "idle"} /\ promised > 0 => Over(promised)
    /\ pc = "pause" => status = "running"

\* Turn identities only grow on their way from the CLI into the monitor's
\* memory, and a reply that is waited for came after its question was seen.
Evidences ==
    /\ IF identity THEN lastEvidence <= native.turn ELSE lastEvidence = None
    /\ Polling /\ identity => lastEvidence <= reading.turn
    /\ resumeEvidence <= lastEvidence
    /\ pc = "pause" /\ identity => lastEvidence = reading.turn
    /\ identity /\ Owed > 0 => lastEvidence >= Owed - 1

\* While an answer is due, neither the provider nor its transcript nor its
\* CLI shows one.
Awaited == Outstanding =>
    /\ turn = Owed \/ (turn = Owed - 1 /\ phase = "blocked")
    /\ native.state = "working" => native.turn >= Owed
    /\ Polling /\ reading.state \in {"working", "idle"} => reading.turn >= Owed
    /\ call.at \in {"type", "record"} => call.baseline = printed
    /\ gen >= Owed => base = printed

\* While an answer is due and the monitor knows of the reply, it remembers
\* nothing of the turns before it that could pass for one.
CaughtUp == Outstanding /\ lastGen >= Owed =>
    /\ mark = printed
    /\ identity => resumeEvidence >= Owed - 1
    /\ saw => native.turn >= Owed /\ (Polling => reading.turn >= Owed)

OpenInv ==
    /\ Numbered /\ Reported /\ Read /\ Paused /\ Called
    /\ Polls /\ Evidences /\ Awaited /\ CaughtUp

IInv == TypeOK /\ Bounded /\ SuccessIsLast /\ (status \in Open => OpenInv)

-----------------------------------------------------------------------------
(* Types and bounds                                                        *)

\* The Boolean and the other half of TypeOK.
Flags ==
    /\ interactive \in BOOLEAN /\ identity \in BOOLEAN /\ lags \in BOOLEAN
    /\ fresh \in BOOLEAN /\ saw \in BOOLEAN

Calls == [at : {"idle", "measure", "type", "record", "resume"},
          initial : Open, baseline : Positions, answers : BOOLEAN]

OtherTypes ==
    /\ status \in Open \cup {"succeeded", "failed", "stopped"}
    /\ gen \in Turns /\ base \in Positions /\ asked \in Turns \cup {None}
    /\ turn \in Turns /\ phase \in States \cup {"gone"} /\ typed \in Turns
    /\ printed \in 0 .. MaxReplies + 1
    /\ native \in [state : States, turn : Turns]
    /\ call \in Calls
    /\ promised \in Turns /\ acked \in Turns
    /\ pc \in {"probe", "look", "judge", "pause", "publish", "over"}
    /\ reading \in [state : States \cup {"idle"}, turn : Turns]
    /\ seen \in Open
    /\ lastGen \in Turns /\ mark \in Positions
    /\ resumeEvidence \in Turns \cup {None} /\ lastEvidence \in Turns \cup {None}
    /\ unchanged \in 0 .. 3

LEMMA TypesSplit == TypeOK <=> Flags /\ OtherTypes
  BY DEF TypeOK, Flags, OtherTypes, Calls

LEMMA InitInv == Init => IInv
<1> SUFFICES ASSUME Init PROVE IInv
  OBVIOUS
<1>1. Flags
  BY DEF Init, Flags
<1>2. OtherTypes
  BY MaxRepliesAssumption DEF Init, OtherTypes, NoCall, NoReading, Calls, Open, Positions, Turns, None, States
<1>3. Bounded /\ SuccessIsLast
  BY DEF Init, Bounded, SuccessIsLast, NoCall, NoReading
<1>4. Numbered /\ Reported /\ Read /\ Paused /\ Called
  BY DEF Init, NoCall, NoReading, Numbered, Reported, Read, Paused, Called, Polling
<1>5. Polls /\ Evidences /\ Awaited /\ CaughtUp
  BY DEF Init, NoCall, NoReading, Polls, Evidences, Awaited, CaughtUp, Polling, Owed, Outstanding,
         Answering, None
<1> QED BY <1>1, <1>2, <1>3, <1>4, <1>5, TypesSplit DEF IInv, OpenInv

LEMMA KeepsFlags == ASSUME TypeOK, [Next]_vars PROVE Flags'
<1> USE DEF TypeOK, Flags, kind, meta, world, client, memory, poll
<1>1. CASE ProviderTakesTurn \/ Reports
  BY <1>1 DEF ProviderTakesTurn, Works, Answers, Reports
<1>2. CASE Surprise
  BY <1>2 DEF Surprise, Asks, Breaks, ReportsOldTurn, Stops, DeadlinePasses, TypeFails, MonitorFails,
              Ends, PollEnds
<1>3. CASE Check \/ SendStep
  BY <1>3 DEF Check, SendStep, MeasureTranscript, Type, Record, Resume
<1>4. CASE MonitorStep
  <2>1. CASE Probe \/ Look
    BY <2>1 DEF Probe, Look, PollEnds
  <2>2. CASE JudgeDone
    BY <2>2 DEF JudgeDone, NewTurnShown, CompleteSince, Move, PollEnds
  <2>3. CASE JudgeFailed \/ JudgeWorking \/ JudgeBlocked
    BY <2>3 DEF JudgeFailed, JudgeWorking, JudgeBlocked, Move, Remember, PollEnds
  <2>4. CASE BlockedNoninteractive \/ Pause \/ PublishVerdict
    BY <2>4 DEF BlockedNoninteractive, Pause, PublishVerdict, Ends, PollEnds
  <2> QED BY <1>4, <2>1, <2>2, <2>3, <2>4 DEF MonitorStep
<1>5. CASE UNCHANGED vars
  BY <1>5 DEF vars
<1> QED BY <1>1, <1>2, <1>3, <1>4, <1>5 DEF Next

LEMMA CallForms ==
    /\ NoCall \in Calls /\ NoCall.at = "idle" /\ ~ NoCall.answers
    /\ \A c \in Calls : \A a \in {"idle", "measure", "type", "record", "resume"} :
         LET d == [c EXCEPT !.at = a]
         IN  d \in Calls /\ d.at = a /\ d.initial = c.initial /\ d.answers = c.answers
<1>1. NoCall \in Calls
  BY DEF NoCall, Calls, Open, Positions, None
<1> QED BY <1>1 DEF NoCall, Calls

LEMMA KeepsOtherTypes == ASSUME IInv, [Next]_vars PROVE OtherTypes' /\ Bounded'
<1> USE MaxRepliesAssumption DEF OtherTypes, Bounded, Calls, kind, meta, world, client, memory, poll,
        Turns, Positions, None, Open, States, NoCall, NoReading, PollEnds
<1>1. OtherTypes /\ Bounded /\ TypeOK
  BY TypesSplit DEF IInv
<1>2. CASE ProviderTakesTurn \/ Reports
  BY <1>1, <1>2 DEF ProviderTakesTurn, Works, Answers, Reports
<1>3. CASE Asks \/ Breaks \/ Stops \/ DeadlinePasses \/ MonitorFails
  BY <1>1, <1>3 DEF Asks, Breaks, Stops, DeadlinePasses, MonitorFails, Ends, Publish
<1>4. CASE TypeFails
  <2>1. call' \in Calls /\ call'.at = "idle" /\ ~ call'.answers
    BY <1>4, CallForms DEF TypeFails
  <2> HIDE DEF Calls, NoCall
  <2> QED BY <1>1, <1>4, <2>1 DEF TypeFails
<1>5. CASE ReportsOldTurn
  BY <1>1, <1>5 DEF ReportsOldTurn
<1>6. CASE Check
  <2>1. call' \in Calls
    BY <1>1, <1>6 DEF Check
  <2>2. call'.at = "measure" /\ call'.answers = call.answers
    BY <1>1, <1>6 DEF Check
  <2> HIDE DEF Calls
  <2> QED BY <1>1, <1>6, <2>1, <2>2 DEF Check
<1>7. CASE MeasureTranscript
  <2>1. call' \in Calls
    BY <1>1, <1>7 DEF MeasureTranscript
  <2>2. call'.at = "type" /\ call'.answers = call.answers
    BY <1>1, <1>7 DEF MeasureTranscript
  <2> HIDE DEF Calls
  <2> QED BY <1>1, <1>7, <2>1, <2>2 DEF MeasureTranscript
<1>8. CASE Resume
  BY <1>1, <1>8 DEF Resume, Acknowledge
<1>9. CASE Type
  <2>1. typed' \in Turns /\ typed < typed'
    BY <1>1, <1>9 DEF Type
  <2>2. native' \in [state : States, turn : Turns] /\ native'.turn <= typed'
    <3>1. \/ native' = native
          \/ native' = [native EXCEPT !.state = "done"]
          \/ native' = [state |-> "working", turn |-> typed']
      BY <1>9 DEF Type
    <3> QED BY <1>1, <2>1, <3>1
  <2>3. call' \in Calls /\ call'.at = "record" /\ (call'.answers => call'.initial = "awaiting_input")
    BY <1>1, <1>9 DEF Type
  <2>4. unchanged' = 0 /\ UNCHANGED <<kind, meta, turn, phase, printed, promised, acked, memory, poll>>
    BY <1>9 DEF Type
  <2> HIDE DEF Calls
  <2> QED BY <1>1, <2>1, <2>2, <2>3, <2>4
<1>10. CASE Record
  <2>1. status \in Open => gen < typed
    BY <1>1, <1>10 DEF IInv, OpenInv, Numbered, Record
  <2>2. CASE status \in Open
    <3>1. gen' = gen + 1 /\ base' = call.baseline
      BY <1>10, <2>2 DEF Record
    <3>2. call' \in Calls /\ call'.at \in {"resume", "idle"} /\ (call'.at = "idle" => ~ call'.answers)
      <4>1. call' = [call EXCEPT !.at = "resume"] \/ call' = NoCall
        BY <1>10, <2>2 DEF Record
      <4> HIDE DEF Calls, NoCall
      <4>2. CASE call' = NoCall
        BY <4>2, CallForms
      <4>3. CASE call' = [call EXCEPT !.at = "resume"]
        BY <1>1, <4>3 DEF Calls
      <4> QED BY <4>1, <4>2, <4>3
    <3>3. call'.at = "resume" => call'.initial = "awaiting_input"
      BY <1>1, <1>10, <2>2 DEF Record
    <3>4. call'.answers => call'.initial = "awaiting_input"
      BY <1>1, <1>10, <2>2 DEF Record
    <3>5. promised' \in Turns /\ acked' \in Turns
      BY <1>1, <1>10, <2>2 DEF Record, Acknowledge
    <3>6. UNCHANGED <<kind, status, asked, world, memory, poll, unchanged>>
      BY <1>10 DEF Record
    <3>7. base' \in Positions
      BY <1>1, <3>1
    <3> HIDE DEF Calls
    <3> QED BY <1>1, <2>1, <2>2, <3>1, <3>2, <3>3, <3>4, <3>5, <3>6, <3>7
  <2>3. CASE status \notin Open
    <3> HIDE DEF Calls, NoCall
    <3>1. call' \in Calls /\ call'.at = "idle" /\ ~ call'.answers
      BY <1>10, <2>3, CallForms DEF Record
    <3> QED BY <1>1, <1>10, <2>3, <3>1 DEF Record
  <2> QED BY <2>2, <2>3
<1>11. CASE Probe
  BY <1>1, <1>11 DEF Probe
<1>12. CASE Look
  BY <1>1, <1>12 DEF Look
<1>13. CASE JudgeDone
  BY <1>1, <1>13 DEF JudgeDone, Move, Evidence, Restarted
<1>14. CASE JudgeFailed \/ JudgeWorking \/ JudgeBlocked
  BY <1>1, <1>14 DEF JudgeFailed, JudgeWorking, JudgeBlocked, Move, Remember, Restarted, Evidence
<1>15. CASE BlockedNoninteractive \/ PublishVerdict
  BY <1>1, <1>15 DEF BlockedNoninteractive, PublishVerdict, Ends, Publish
<1>16. CASE Pause
  <2>1. asked' \in Turns \cup {None} /\ status' \in Open \cup {"succeeded", "failed", "stopped"}
    BY <1>1, <1>16 DEF Pause
  <2>2. pc' \in {"probe", "over"} /\ reading' = NoReading /\ seen' = "running" /\ ~ fresh'
    BY <1>16 DEF Pause
  <2>3. UNCHANGED <<kind, gen, base, world, client, memory, unchanged>>
    BY <1>16 DEF Pause
  <2> QED BY <1>1, <2>1, <2>2, <2>3
<1>17. CASE UNCHANGED vars
  BY <1>1, <1>17 DEF vars
<1> QED
  BY <1>2, <1>3, <1>4, <1>5, <1>6, <1>7, <1>8, <1>9, <1>10, <1>11, <1>12, <1>13, <1>14, <1>15,
     <1>16, <1>17
  DEF Next, Surprise, SendStep, MonitorStep

LEMMA KeepsTypes == ASSUME IInv, [Next]_vars PROVE TypeOK' /\ Bounded'
<1>1. Flags' /\ OtherTypes' => TypeOK'
  BY DEF TypeOK, Flags, OtherTypes, Calls
<1>2. TypeOK
  BY DEF IInv
<1> QED BY <1>1, <1>2, KeepsFlags, KeepsOtherTypes

-----------------------------------------------------------------------------
(* Steps of an open job                                                    *)

\* The types the arithmetic needs.
Numbers ==
    /\ turn \in Int /\ typed \in Int /\ gen \in Int /\ lastGen \in Int /\ promised \in Int
    /\ 0 <= turn /\ 0 <= typed /\ 0 <= promised /\ 0 <= gen /\ 0 <= lastGen
    /\ native.turn \in Int /\ 0 <= native.turn /\ reading.turn \in Int /\ 0 <= reading.turn
    /\ printed \in Int /\ base \in Int /\ mark \in Int /\ call.baseline \in Int
    /\ lastEvidence \in Int /\ resumeEvidence \in Int /\ asked \in Int
    /\ -1 <= resumeEvidence /\ -1 <= lastEvidence
    /\ native = [state |-> native.state, turn |-> native.turn]
    /\ reading = [state |-> reading.state, turn |-> reading.turn]
    /\ call = [at |-> call.at, initial |-> call.initial, baseline |-> call.baseline, answers |-> call.answers]

LEMMA TypeGivesNumbers == (TypeOK => Numbers) /\ (TypeOK' => Numbers')
<1> USE MaxRepliesAssumption DEF TypeOK, Turns, Positions, None
<1>1. ASSUME TypeOK PROVE Numbers
  <2>1. /\ call.baseline \in Int
        /\ call = [at |-> call.at, initial |-> call.initial, baseline |-> call.baseline,
                    answers |-> call.answers]
    BY <1>1
  <2>2. native.turn \in Int /\ 0 <= native.turn /\ native = [state |-> native.state, turn |-> native.turn]
    BY <1>1
  <2>3. reading.turn \in Int /\ 0 <= reading.turn /\ reading = [state |-> reading.state, turn |-> reading.turn]
    BY <1>1
  <2> QED BY <1>1, <2>1, <2>2, <2>3 DEF Numbers
<1>2. ASSUME TypeOK' PROVE Numbers'
  <2>1. /\ call'.baseline \in Int
        /\ call' = [at |-> call'.at, initial |-> call'.initial, baseline |-> call'.baseline,
                     answers |-> call'.answers]
    BY <1>2
  <2>2. native'.turn \in Int /\ 0 <= native'.turn
        /\ native' = [state |-> native'.state, turn |-> native'.turn]
    BY <1>2
  <2>3. reading'.turn \in Int /\ 0 <= reading'.turn
        /\ reading' = [state |-> reading'.state, turn |-> reading'.turn]
    BY <1>2
  <2> QED BY <1>2, <2>1, <2>2, <2>3 DEF Numbers
<1> QED BY <1>1, <1>2

OpenStep ==
    \/ Works \/ Answers \/ Asks \/ Breaks
    \/ Reports \/ ReportsOldTurn
    \/ Check \/ MeasureTranscript \/ TypeFails
    \/ Type \/ Record \/ Resume
    \/ Probe \/ Look \/ JudgeDone \/ JudgeFailed \/ JudgeWorking \/ JudgeBlocked \/ Pause

Stepping ==
    /\ IInv /\ OpenInv /\ Numbers /\ Numbers'
    /\ status \in Open /\ status' \in Open /\ OpenStep /\ UNCHANGED kind

\* A job that is open was open before, and its step is none of those that
\* end it.
LEMMA OpenSteps == ASSUME IInv, TypeOK', Next, status' \in Open PROVE Stepping
<1>1. Numbers /\ Numbers'
  BY TypeGivesNumbers DEF IInv
<1>2. status \in Open
  BY DEF Next, ProviderTakesTurn, Works, Answers, Reports, Surprise, Asks, Breaks, ReportsOldTurn, Stops,
     DeadlinePasses, TypeFails, MonitorFails, Ends, Publish, Check, SendStep, MeasureTranscript, Type,
     Record, Resume, MonitorStep, Probe, Look, JudgeDone, JudgeFailed, JudgeWorking, JudgeBlocked,
     BlockedNoninteractive, Pause, PublishVerdict, Move, meta, Open
<1>3. ~ (Stops \/ DeadlinePasses \/ MonitorFails \/ BlockedNoninteractive \/ PublishVerdict)
  BY <1>2 DEF Stops, DeadlinePasses, MonitorFails, BlockedNoninteractive, PublishVerdict, Ends, Publish, Open
<1>4. OpenStep
  BY <1>3 DEF Next, ProviderTakesTurn, Surprise, SendStep, MonitorStep, OpenStep
<1>5. UNCHANGED kind
  BY <1>4 DEF OpenStep, Works, Answers, Reports, Asks, Breaks, ReportsOldTurn, TypeFails,
     Check, MeasureTranscript, Type, Record, Resume, Probe, Look, JudgeDone, JudgeFailed, JudgeWorking,
     JudgeBlocked, Pause, Move
<1> QED BY <1>1, <1>2, <1>4, <1>5 DEF Stepping, IInv

\* A turn that is over stays over.
LEMMA OverHolds ==
    ASSUME Stepping, NEW t \in Int, Over(t), t > 0 \/ phase # "starting"
    PROVE  Over(t)'
<1> USE DEF Stepping, Numbers, IInv, Bounded, Over, world
<1>1. CASE Works \/ Answers \/ Asks \/ Breaks
  BY <1>1 DEF Works, Answers, Asks, Breaks
<1>2. CASE Reports \/ ReportsOldTurn \/ Check \/ MeasureTranscript \/ TypeFails \/ Record \/ Resume
  BY <1>2 DEF Reports, ReportsOldTurn, Check, MeasureTranscript, TypeFails, Record, Resume
<1>3. CASE Type
  BY <1>3 DEF Type
<1>4. CASE Probe \/ Look \/ JudgeDone \/ JudgeFailed \/ JudgeWorking \/ JudgeBlocked \/ Pause
  BY <1>4 DEF Probe, Look, JudgeDone, JudgeFailed, JudgeWorking, JudgeBlocked, Pause, Move
<1> QED BY <1>1, <1>2, <1>3, <1>4 DEF OpenStep

LEMMA PublishVerdictOnly ==
    ASSUME Next, status # "succeeded", status' = "succeeded" PROVE PublishVerdict
BY DEF Next, ProviderTakesTurn, Works, Answers, Reports, Surprise, Asks, Breaks,
   ReportsOldTurn, Stops, DeadlinePasses, TypeFails, MonitorFails, Ends, Publish, Check, SendStep,
   MeasureTranscript, Type, Record, Resume, MonitorStep, Probe, Look, JudgeDone, JudgeFailed,
   JudgeWorking, JudgeBlocked, BlockedNoninteractive, Pause, Move, meta

LEMMA KeepsSuccess == ASSUME IInv, [Next]_vars PROVE SuccessIsLast'
<1>1. ASSUME status = "succeeded" PROVE SuccessIsLast'
  <2>1. pc = "over"
    BY <1>1 DEF IInv, SuccessIsLast
  <2>2. UNCHANGED pc
    BY <1>1, <2>1 DEF Next, ProviderTakesTurn, Works, Answers, Reports, Surprise, Asks, Breaks,
       ReportsOldTurn, Stops, DeadlinePasses, TypeFails, MonitorFails, Check, SendStep,
       MeasureTranscript, Type, Record, Resume, MonitorStep, Probe, Look, JudgeDone, JudgeFailed,
       JudgeWorking, JudgeBlocked, BlockedNoninteractive, Pause, PublishVerdict, Open, vars, poll
  <2> QED BY <2>1, <2>2 DEF SuccessIsLast
<1>2. ASSUME status # "succeeded", status' = "succeeded" PROVE SuccessIsLast'
  <2>1. Next
    BY <1>2 DEF vars, meta
  <2> QED BY <1>2, <2>1, PublishVerdictOnly DEF PublishVerdict, SuccessIsLast
<1>3. CASE status' # "succeeded"
  BY <1>3 DEF SuccessIsLast
<1> QED BY <1>1, <1>2, <1>3

-----------------------------------------------------------------------------
(* The reply whose answer is due                                           *)

LEMMA CallSteps ==
    ASSUME Stepping
    PROVE  /\ Check => /\ call.at = "idle" /\ call'.at = "measure" /\ call'.answers = call.answers
                       /\ call'.initial = status /\ call'.baseline = call.baseline
           /\ MeasureTranscript => /\ call.at = "measure" /\ call'.at = "type"
                                   /\ call'.answers = call.answers /\ call'.initial = call.initial
                                   /\ call'.baseline = printed
           /\ TypeFails => call.at = "type" /\ call'.at = "idle" /\ ~ call'.answers
           /\ Type => /\ call.at = "type" /\ call'.at = "record" /\ call'.initial = call.initial
                      /\ call'.baseline = call.baseline
           /\ Record => /\ call.at = "record"
                        /\ IF call.initial = "awaiting_input"
                           THEN call'.at = "resume" /\ call'.answers = call.answers
                                /\ call'.initial = call.initial
                           ELSE call'.at = "idle" /\ ~ call'.answers
           /\ Resume => call.at = "resume" /\ call'.at = "idle" /\ ~ call'.answers
           /\ ~ (Check \/ MeasureTranscript \/ TypeFails \/ Type \/ Record \/ Resume) => UNCHANGED client
<1> USE DEF Stepping, Numbers, NoCall, client
<1>1. Check => /\ call.at = "idle" /\ call'.at = "measure" /\ call'.answers = call.answers
               /\ call'.initial = status /\ call'.baseline = call.baseline
  BY DEF Check
<1>2. MeasureTranscript => /\ call.at = "measure" /\ call'.at = "type"
                           /\ call'.answers = call.answers /\ call'.initial = call.initial
                           /\ call'.baseline = printed
  BY DEF MeasureTranscript
<1>3. TypeFails => call.at = "type" /\ call'.at = "idle" /\ ~ call'.answers
  BY DEF TypeFails
<1>4. Type => /\ call.at = "type" /\ call'.at = "record" /\ call'.initial = call.initial
              /\ call'.baseline = call.baseline
  BY DEF Type
<1>5. Record => /\ call.at = "record"
                /\ IF call.initial = "awaiting_input"
                   THEN call'.at = "resume" /\ call'.answers = call.answers
                        /\ call'.initial = call.initial
                   ELSE call'.at = "idle" /\ ~ call'.answers
  BY DEF Record
<1>6. Resume => call.at = "resume" /\ call'.at = "idle" /\ ~ call'.answers
  BY DEF Resume
<1>7. ~ (Check \/ MeasureTranscript \/ TypeFails \/ Type \/ Record \/ Resume) => UNCHANGED client
  BY DEF OpenStep, Works, Answers, Asks, Breaks, Reports, ReportsOldTurn, Probe, Look, JudgeDone,
         JudgeFailed, JudgeWorking, JudgeBlocked, Pause, Move
<1> QED BY <1>1, <1>2, <1>3, <1>4, <1>5, <1>6, <1>7

\* Only a reply that answers the pause makes an answer due.
LEMMA StaysOwed == ASSUME Stepping, Type => ~ call'.answers PROVE Owed' = Owed
<1> USE CallSteps DEF Stepping, Numbers, IInv, Bounded, Owed, Answering, client, world
<1>1. CASE Check \/ MeasureTranscript \/ TypeFails
  BY <1>1 DEF Check, MeasureTranscript, TypeFails
<1>2. CASE Type
  BY <1>2 DEF Type
<1>3. CASE Record
  BY <1>3 DEF Record, Acknowledge
<1>4. CASE Resume
  BY <1>4 DEF Resume, Acknowledge, OpenInv, Called
<1>5. CASE ~ (Check \/ MeasureTranscript \/ TypeFails \/ Type \/ Record \/ Resume)
  BY <1>5 DEF OpenStep, Works, Answers, Asks, Breaks, Reports, ReportsOldTurn, Probe, Look, JudgeDone,
              JudgeFailed, JudgeWorking, JudgeBlocked, Pause, Move
<1> QED BY <1>1, <1>2, <1>3, <1>4, <1>5

\* It is typed while the question it answers is all that anybody can see.
LEMMA AnswerTyped ==
    ASSUME Stepping, Type, call'.answers
    PROVE  /\ Owed' = typed + 1 /\ typed' = typed + 1 /\ turn = typed /\ phase = "blocked"
           /\ UNCHANGED <<kind, meta, turn, phase, printed, promised, memory, poll>>
           /\ call.baseline = printed /\ status = "awaiting_input"
           /\ native = [state |-> "blocked", turn |-> turn] /\ reading \in {NoReading, native}
           /\ native' \in {native, [native EXCEPT !.state = "done"], [state |-> "working", turn |-> typed']}
           /\ identity => lastEvidence >= typed
<1> USE DEF Stepping, Numbers
<1>1. /\ typed' = typed + 1 /\ UNCHANGED <<kind, meta, turn, phase, printed, promised, memory, poll>>
      /\ native' \in {native, [native EXCEPT !.state = "done"], [state |-> "working", turn |-> typed']}
  BY DEF Type
<1>2. call.initial = "awaiting_input" /\ phase = "blocked" /\ asked = turn /\ typed = turn
  BY DEF Type
<1>3. Owed' = typed'
  BY CallSteps DEF Owed, Answering
<1>4. status = "awaiting_input" /\ call.baseline = printed
  BY <1>2, CallSteps DEF OpenInv, Called
<1> QED BY <1>1, <1>2, <1>3, <1>4 DEF OpenInv, Paused

\* Until there is a new one, an answer that is due was due before.
LEMMA WasDue ==
    ASSUME Stepping, Outstanding', ~ (Type /\ call'.answers)
    PROVE  Owed' = Owed /\ Outstanding
<1>1. Owed' = Owed
  BY StaysOwed
<1>2. Owed \in Int
  BY DEF Stepping, Numbers, Owed
<1>3. Over(Owed) /\ Owed > 0
        => turn' > Owed \/ (turn' = Owed /\ phase' # "working" /\ (phase' = "blocked" => typed' > Owed))
  BY <1>2, OverHolds DEF Over
<1> QED BY <1>1, <1>3 DEF Outstanding, Over

-----------------------------------------------------------------------------
(* Every part of the invariant, over the steps of an open job              *)

LEMMA KeepsNumbered == ASSUME Stepping PROVE Numbered'
<1> USE DEF Stepping, Numbers, OpenInv, Numbered, Open, world, meta, client, memory, poll, NoCall
<1>1. CASE Works \/ Answers \/ Asks \/ Breaks
  BY <1>1 DEF Works, Answers, Asks, Breaks
<1>2. CASE Reports \/ ReportsOldTurn
  BY <1>2 DEF Reports, ReportsOldTurn
<1>3. CASE Check \/ MeasureTranscript \/ TypeFails
  BY <1>3, CallSteps DEF Check, MeasureTranscript, TypeFails
<1>4. CASE Type
  BY <1>4 DEF Type
<1>5. CASE Record
  BY <1>5 DEF Record, Acknowledge, IInv, Bounded
<1>6. CASE Resume
  BY <1>6 DEF Resume, Acknowledge
<1>7. CASE Probe \/ Look
  BY <1>7 DEF Probe, Look
<1>8. CASE JudgeDone \/ JudgeFailed \/ JudgeWorking \/ JudgeBlocked \/ Pause
  BY <1>8 DEF JudgeDone, JudgeFailed, JudgeWorking, JudgeBlocked, Pause, Move, Remember
<1> QED BY <1>1, <1>2, <1>3, <1>4, <1>5, <1>6, <1>7, <1>8 DEF OpenStep

LEMMA KeepsReported == ASSUME Stepping PROVE Reported'
<1> USE DEF Stepping, Numbers, OpenInv, Numbered, Reported, IInv, Bounded, Over, world, kind
<1>1. CASE Works \/ Answers \/ Asks \/ Breaks
  BY <1>1 DEF Works, Answers, Asks, Breaks
<1>2. CASE Reports
  BY <1>2 DEF Reports
<1>3. CASE ReportsOldTurn
  BY <1>3 DEF ReportsOldTurn
<1>4. CASE Type
  BY <1>4 DEF Type
<1>5. CASE Check \/ MeasureTranscript \/ TypeFails \/ Record \/ Resume
  BY <1>5 DEF Check, MeasureTranscript, TypeFails, Record, Resume
<1>6. CASE Probe \/ Look \/ JudgeDone \/ JudgeFailed \/ JudgeWorking \/ JudgeBlocked \/ Pause
  BY <1>6 DEF Probe, Look, JudgeDone, JudgeFailed, JudgeWorking, JudgeBlocked, Pause, Move
<1> QED BY <1>1, <1>2, <1>3, <1>4, <1>5, <1>6 DEF OpenStep

LEMMA KeepsPaused == ASSUME Stepping PROVE Paused'
<1> USE DEF Stepping, Numbers, OpenInv, Paused, Polling, kind, meta, world, memory, poll, Open, None
<1>1. CASE Works \/ Answers \/ Asks \/ Breaks
  BY <1>1 DEF Works, Answers, Asks, Breaks
<1>2. CASE Reports \/ ReportsOldTurn
  BY <1>2 DEF Reports, ReportsOldTurn
<1>3. CASE Type
  BY <1>3 DEF Type, Reported, IInv, Bounded
<1>4. CASE Check \/ MeasureTranscript \/ TypeFails \/ Record \/ Resume
  BY <1>4 DEF Check, MeasureTranscript, TypeFails, Record, Resume
<1>5. CASE Probe \/ Look
  BY <1>5 DEF Probe, Look, IInv, Bounded
<1>6. CASE JudgeDone \/ JudgeFailed \/ JudgeWorking \/ JudgeBlocked
  BY <1>6 DEF JudgeDone, JudgeFailed, JudgeWorking, JudgeBlocked, Move, Remember, Evidence, PollEnds,
              Evidences
<1>7. CASE Pause
  BY <1>7 DEF Pause, PollEnds, Read, Evidences, IInv, TypeOK
<1> QED BY <1>1, <1>2, <1>3, <1>4, <1>5, <1>6, <1>7 DEF OpenStep

LEMMA KeepsCalled == ASSUME Stepping PROVE Called'
<1> USE DEF Stepping, Numbers, OpenInv, Called, meta, world, client, Open, NoCall, None
<1>1. CASE Works \/ Answers \/ Asks \/ Breaks
  BY <1>1 DEF Works, Answers, Asks, Breaks, Paused
<1>2. CASE Reports \/ ReportsOldTurn \/ TypeFails
  BY <1>2 DEF Reports, ReportsOldTurn, TypeFails
<1>3. CASE Check \/ MeasureTranscript
  BY <1>3 DEF Check, MeasureTranscript, IInv, TypeOK
<1>4. CASE Type
  BY <1>4 DEF Type, IInv, TypeOK
<1>5. CASE Record \/ Resume
  BY <1>5 DEF Record, Resume, IInv, TypeOK
<1>6. CASE Probe \/ Look \/ JudgeDone \/ JudgeFailed \/ JudgeWorking \/ JudgeBlocked
  BY <1>6 DEF Probe, Look, JudgeDone, JudgeFailed, JudgeWorking, JudgeBlocked, Move
<1>7. CASE Pause
  BY <1>7 DEF Pause, Polls
<1> QED BY <1>1, <1>2, <1>3, <1>4, <1>5, <1>6, <1>7 DEF OpenStep

LEMMA KeepsRead == ASSUME Stepping PROVE Read'
<1> USE DEF Stepping, Numbers, OpenInv, Read, Polling, kind, meta, world, client, memory, poll
<1>1. reading.state = "done" /\ Polling
        => turn' > reading.turn
           \/ (turn' = reading.turn /\ phase' # "working" /\ (phase' = "blocked" => typed' > reading.turn))
  BY OverHolds DEF Over
<1>2. CASE Works \/ Answers \/ Asks \/ Breaks
  BY <1>1, <1>2 DEF Works, Answers, Asks, Breaks, Over
<1>3. CASE Reports
  BY <1>1, <1>3 DEF Reports, Over, Reported, Numbered, IInv, Bounded
<1>4. CASE ReportsOldTurn
  BY <1>1, <1>4 DEF ReportsOldTurn, Over
<1>5. CASE Check \/ MeasureTranscript \/ TypeFails \/ Record \/ Resume
  BY <1>1, <1>5 DEF Check, MeasureTranscript, TypeFails, Record, Resume, Over
<1>6. CASE Type
  BY <1>1, <1>6 DEF Type, Over, IInv, Bounded
<1>7. CASE Probe
  <2>1. Numbered /\ Reported /\ native.state # "idle" /\ UNCHANGED world
    BY <1>7 DEF IInv, TypeOK, States, Probe
  <2>2. CASE reading'.state = "idle" /\ reading'.turn = native.turn
    BY <1>7, <2>1, <2>2 DEF Probe
  <2>3. CASE reading' = native
    BY <1>7, <2>1, <2>3 DEF Probe, Over, Reported, Numbered, IInv, Bounded
  <2> QED BY <1>7, <2>1, <2>2, <2>3 DEF Probe, Numbered
<1>8. CASE Look
  <2>1. /\ UNCHANGED <<reading, turn, phase, typed, native, lags>>
        /\ pc' = "judge" /\ lastGen' = gen /\ (~ fresh' => gen = lastGen)
    BY <1>8 DEF Look
  <2>2. ~ fresh /\ Polling /\ pc # "pause"
    BY <1>8 DEF Look, IInv, Bounded
  <2> QED BY <1>1, <2>1, <2>2 DEF Over
<1>9. CASE JudgeDone \/ JudgeFailed \/ JudgeWorking \/ JudgeBlocked
  BY <1>1, <1>9 DEF JudgeDone, JudgeFailed, JudgeWorking, JudgeBlocked, Move, Remember, PollEnds, Over
<1>10. CASE Pause
  BY <1>10 DEF Pause, PollEnds
<1> QED BY <1>2, <1>3, <1>4, <1>5, <1>6, <1>7, <1>8, <1>9, <1>10 DEF OpenStep

LEMMA KeepsEvidences == ASSUME Stepping PROVE Evidences'
<1> USE DEF Stepping, Numbers, OpenInv, Evidences, Polling, kind, meta, world, client, memory, poll
<1>1. CASE Type /\ call'.answers
  BY <1>1, AnswerTyped DEF IInv, TypeOK
<1>2. CASE ~ (Type /\ call'.answers)
  <2>1. Owed' = Owed /\ Owed \in Int
    BY <1>2, StaysOwed DEF Owed
  <2>2. CASE Works \/ Answers \/ Asks \/ Breaks
    BY <2>1, <2>2 DEF Works, Answers, Asks, Breaks
  <2>3. CASE Reports \/ ReportsOldTurn
    BY <2>1, <2>3 DEF Reports, ReportsOldTurn, Reported
  <2>4. CASE Check \/ MeasureTranscript \/ TypeFails \/ Record \/ Resume
    BY <2>1, <2>4 DEF Check, MeasureTranscript, TypeFails, Record, Resume
  <2>5. CASE Type
    BY <2>1, <2>5 DEF Type, IInv, Bounded
  <2>6. CASE Probe
    BY <2>1, <2>6 DEF Probe
  <2>7. CASE Look
    BY <2>1, <2>7 DEF Look
  <2>8. CASE JudgeDone
    BY <2>1, <2>8 DEF JudgeDone, Move, PollEnds, Evidence, Read
  <2>9. CASE JudgeFailed \/ JudgeWorking \/ JudgeBlocked
    BY <2>1, <2>9 DEF JudgeFailed, JudgeWorking, JudgeBlocked, Move, Remember, PollEnds, Evidence, Read
  <2>10. CASE Pause
    BY <2>1, <2>10 DEF Pause, PollEnds
  <2> QED BY <2>2, <2>3, <2>4, <2>5, <2>6, <2>7, <2>8, <2>9, <2>10 DEF OpenStep
<1> QED BY <1>1, <1>2

LEMMA KeepsAwaited == ASSUME Stepping, Outstanding' PROVE Awaited'
<1> USE DEF Stepping, Numbers, OpenInv, Awaited, Polling, kind, meta, world, client, memory, poll
<1>1. CASE Type /\ call'.answers
  <2>1. gen' < Owed'
    BY <1>1, AnswerTyped DEF Numbered
  <2>2. native'.state = "working" => native'.turn = typed'
    BY <1>1, AnswerTyped
  <2>3. ~ (Polling' /\ reading'.state \in {"working", "idle"})
    BY <1>1, AnswerTyped DEF NoReading, IInv, Bounded
  <2>4. call'.baseline = printed'
    BY <1>1, AnswerTyped, CallSteps
  <2> QED BY <1>1, <2>1, <2>2, <2>3, <2>4, AnswerTyped
<1>2. CASE ~ (Type /\ call'.answers)
  <2>1. Owed' = Owed /\ Owed \in Int /\ Outstanding
    BY <1>2, WasDue DEF Owed
  <2>2. CASE Works \/ Answers \/ Asks \/ Breaks
    BY <2>1, <2>2 DEF Works, Answers, Asks, Breaks, Outstanding, Over, Owed, Answering
  <2>3. CASE Reports \/ ReportsOldTurn
    BY <2>1, <2>3 DEF Reports, ReportsOldTurn, Outstanding, Over
  <2>4. CASE Check \/ MeasureTranscript \/ TypeFails
    BY <2>1, <2>4, CallSteps DEF Check, MeasureTranscript, TypeFails
  <2>5. CASE Type
    <3>1. Owed <= typed'
      BY <2>5 DEF Type, Owed, Answering, Numbered
    <3>2. \/ native' = native \/ native' = [native EXCEPT !.state = "done"]
          \/ native' = [state |-> "working", turn |-> typed']
      BY <2>5 DEF Type
    <3>3. native'.state = "working" => native'.turn >= Owed
      BY <2>1, <3>1, <3>2
    <3>4. UNCHANGED <<turn, phase, printed, promised, gen, base, pc, reading>> /\ call'.baseline = call.baseline
      BY <2>5, CallSteps DEF Type
    <3>5. call.at = "type"
      BY <2>5, CallSteps
    <3> QED BY <2>1, <3>3, <3>4, <3>5
  <2>6. CASE Record
    BY <2>1, <2>6, CallSteps DEF Record
  <2>7. CASE Resume
    BY <2>1, <2>7, CallSteps DEF Resume
  <2>8. CASE Probe
    <3>1. UNCHANGED <<turn, phase, printed, promised, gen, base, native, call>> /\ phase # "gone"
      BY <2>8 DEF Probe, Numbered
    <3>2. reading' \in {native, [native EXCEPT !.state = "idle"]}
      BY <2>8, <3>1 DEF Probe
    <3>3. reading'.turn = native.turn /\ (reading'.state \in {"working", "idle"} => native.state = "working")
      BY <2>8, <3>1, <3>2 DEF Probe, IInv, TypeOK, States
    <3> QED BY <2>1, <3>1, <3>3
  <2>9. CASE Look
    BY <2>1, <2>9 DEF Look
  <2>10. CASE JudgeDone \/ JudgeFailed \/ JudgeWorking \/ JudgeBlocked
    BY <2>1, <2>10 DEF JudgeDone, JudgeFailed, JudgeWorking, JudgeBlocked, Move, Remember, PollEnds
  <2>11. CASE Pause
    BY <2>1, <2>11 DEF Pause, PollEnds
  <2> QED BY <2>2, <2>3, <2>4, <2>5, <2>6, <2>7, <2>8, <2>9, <2>10, <2>11 DEF OpenStep
<1> QED BY <1>1, <1>2

LEMMA KeepsCaughtUp == ASSUME Stepping, Outstanding', lastGen' >= Owed' PROVE CaughtUp'
<1> USE DEF Stepping, Numbers, OpenInv, CaughtUp, Polling, kind, meta, world, client, memory, poll
<1>1. CASE Type /\ call'.answers
  BY <1>1, AnswerTyped DEF Numbered
<1>2. CASE ~ (Type /\ call'.answers)
  <2>1. Owed' = Owed /\ Owed \in Int /\ Outstanding
    BY <1>2, WasDue DEF Owed
  <2>2. CASE Works \/ Answers \/ Asks \/ Breaks
    <3>1. ~ Answers
      BY <2>1, <2>2 DEF Answers, Awaited, Outstanding, Over
    <3> QED BY <2>1, <2>2, <3>1 DEF Works, Asks, Breaks
  <2>3. CASE Reports \/ ReportsOldTurn
    BY <2>1, <2>3 DEF Reports, ReportsOldTurn, Reported
  <2>4. CASE Check \/ MeasureTranscript \/ TypeFails \/ Record \/ Resume
    BY <2>1, <2>4 DEF Check, MeasureTranscript, TypeFails, Record, Resume
  <2>5. CASE Type
    BY <2>1, <2>5 DEF Type, IInv, Bounded
  <2>6. CASE Probe
    BY <2>1, <2>6 DEF Probe
  <2>7. CASE Look
    <3>1. /\ pc = "look" /\ pc' = "judge" /\ lastGen' = gen /\ UNCHANGED <<reading, native, printed>>
          /\ fresh' <=> gen # lastGen
          /\ saw' <=> (saw /\ ~ fresh') \/ reading.state \in {"working", "idle"}
          /\ mark' = IF fresh' THEN base ELSE mark
          /\ resumeEvidence' = IF fresh' THEN lastEvidence ELSE resumeEvidence
      BY <2>7 DEF Look
    <3>2. reading.state \in {"working", "idle"} => reading.turn >= Owed /\ native.turn >= Owed
      BY <2>1, <3>1 DEF Awaited, Read, Outstanding
    <3>3. gen >= Owed
      BY <2>1, <3>1
    <3>4. CASE fresh'
      BY <2>1, <3>1, <3>2, <3>3, <3>4 DEF Awaited, Evidences, Outstanding
    <3>5. CASE ~ fresh'
      BY <2>1, <3>1, <3>2, <3>3, <3>5
    <3> QED BY <3>4, <3>5
  <2>8. CASE JudgeDone
    BY <2>1, <2>8 DEF JudgeDone, Move, PollEnds, NewTurnShown, CompleteSince, Read, Evidences
  <2>9. CASE JudgeFailed \/ JudgeWorking \/ JudgeBlocked
    BY <2>1, <2>9 DEF JudgeFailed, JudgeWorking, JudgeBlocked, Move, Remember, PollEnds
  <2>10. CASE Pause
    BY <2>1, <2>10 DEF Pause, PollEnds
  <2> QED BY <2>2, <2>3, <2>4, <2>5, <2>6, <2>7, <2>8, <2>9, <2>10 DEF OpenStep
<1> QED BY <1>1, <1>2

LEMMA KeepsPolls == ASSUME Stepping PROVE Polls'
<1> USE DEF Stepping, Numbers, OpenInv, Polls, Open, kind, meta, world, client, memory, poll
<1>1. promised > 0 /\ Over(promised)
        => turn' > promised
           \/ (turn' = promised /\ phase' # "working" /\ (phase' = "blocked" => typed' > promised))
  BY OverHolds DEF Over
<1>2. status = "running" => ~ Answering /\ Owed = promised
  BY DEF Called, IInv, Bounded, Answering, Owed
<1>3. CASE Works \/ Answers \/ Asks \/ Breaks
  BY <1>1, <1>3 DEF Works, Answers, Asks, Breaks, Over
<1>4. CASE Reports \/ ReportsOldTurn
  BY <1>1, <1>4 DEF Reports, ReportsOldTurn, Over
<1>5. CASE Check \/ MeasureTranscript \/ TypeFails \/ Type
  BY <1>1, <1>5 DEF Check, MeasureTranscript, TypeFails, Type, Over
<1>6. CASE Record
  <2>1. promised' = promised
    BY <1>6 DEF Record, Acknowledge, IInv, Bounded
  <2> QED BY <1>1, <1>6, <2>1 DEF Record, Over
<1>7. CASE Resume
  <2>1. status = "awaiting_input" /\ call.at = "resume"
    BY <1>7, CallSteps DEF Called, IInv, Bounded
  <2>2. promised' = Owed
    BY <1>7, <2>1 DEF Resume, Acknowledge, Owed, Answering
  <2> QED BY <1>1, <1>7, <2>1, <2>2 DEF Resume, Over
<1>8. CASE Probe
  BY <1>8 DEF Probe
<1>9. CASE Look
  BY <1>9 DEF Look, Numbered
<1>10. CASE JudgeDone
  <2>1. ASSUME NewTurnShown, seen # "awaiting_input", promised > 0 PROVE Over(promised)
    <3>1. SUFFICES ASSUME ~ Over(promised) PROVE FALSE
      OBVIOUS
    <3>2. status = "running" /\ promised <= lastGen
      BY <1>10, <2>1 DEF JudgeDone, IInv, TypeOK
    <3>3. Owed = promised /\ Outstanding
      BY <1>2, <2>1, <3>1, <3>2 DEF Outstanding
    <3>4. reading.turn < promised
      BY <1>10, <3>1 DEF JudgeDone, Read, Polling, Over
    <3>5. mark = printed /\ (identity => resumeEvidence >= promised - 1) /\ ~ saw
      BY <1>10, <3>2, <3>3, <3>4 DEF JudgeDone, CaughtUp, Polling
    <3>6. identity => reading.turn = resumeEvidence
      BY <1>10, <3>4, <3>5 DEF JudgeDone, Evidences, Polling
    <3> QED BY <2>1, <3>5, <3>6 DEF NewTurnShown, CompleteSince
  <2> QED BY <1>10, <2>1 DEF JudgeDone, Move, PollEnds, Over, IInv, TypeOK
<1>11. CASE JudgeBlocked
  <2>1. ASSUME seen # "awaiting_input", promised > 0, CompleteSince(mark) PROVE Over(promised)
    <3>1. SUFFICES ASSUME ~ Over(promised) PROVE FALSE
      OBVIOUS
    <3>2. status = "running" /\ promised <= lastGen
      BY <1>11, <2>1 DEF JudgeBlocked, IInv, TypeOK
    <3>3. Owed = promised /\ Outstanding
      BY <1>2, <2>1, <3>1, <3>2 DEF Outstanding
    <3> QED BY <2>1, <3>2, <3>3 DEF CaughtUp, CompleteSince
  <2> QED BY <1>11, <2>1 DEF JudgeBlocked, Move, Remember, PollEnds, Over, IInv, TypeOK
<1>12. CASE JudgeFailed
  BY <1>12 DEF JudgeFailed, Move, Remember, PollEnds
<1>13. CASE JudgeWorking
  BY <1>13 DEF JudgeWorking, Move, Remember, PollEnds
<1>14. CASE Pause
  BY <1>14 DEF Pause, PollEnds
<1> QED BY <1>3, <1>4, <1>5, <1>6, <1>7, <1>8, <1>9, <1>10, <1>11, <1>12, <1>13, <1>14 DEF OpenStep

-----------------------------------------------------------------------------
(* The theorems                                                            *)

LEMMA KeepsInv == ASSUME IInv, [Next]_vars PROVE IInv'
<1>1. TypeOK' /\ Bounded' /\ SuccessIsLast'
  BY KeepsTypes, KeepsSuccess
<1>2. ASSUME Next, status' \in Open PROVE OpenInv'
  <2>1. Stepping
    BY <1>1, <1>2, OpenSteps
  <2>2. Awaited'
    BY <2>1, KeepsAwaited DEF Awaited
  <2>3. CaughtUp'
    BY <2>1, KeepsCaughtUp DEF CaughtUp
  <2> QED BY <2>1, <2>2, <2>3, KeepsNumbered, KeepsReported, KeepsRead, KeepsPaused, KeepsCalled, KeepsPolls,
             KeepsEvidences DEF OpenInv
<1>3. ASSUME UNCHANGED vars PROVE IInv'
  BY <1>1, <1>3 DEF IInv, OpenInv, vars, kind, meta, world, client, memory, poll, Numbered, Reported, Read,
     Paused, Called, Polls, Evidences, Awaited, CaughtUp, Outstanding, Owed, Answering, Polling, Over,
     CompleteSince
<1> QED BY <1>1, <1>2, <1>3 DEF IInv, Open

LEMMA Invariance == Spec => []IInv
  BY InitInv, KeepsInv, PTL DEF Spec

\* The job's record, its session and the monitor keep their shape.
THEOREM TypeCorrect == Spec => []TypeOK
  BY Invariance, PTL DEF IInv

\* No done reading, no transcript and no turn identity of the turn before a
\* reply that was accepted as the answer to its question makes the job a
\* success: whoever publishes one goes by that reply's turn, or by three polls
\* of an idle process, whose text may be of any turn.
THEOREM SuccessIsOfTheReply == Spec => SuccessAnswersReply
<1>1. ASSUME IInv, [Next]_vars
      PROVE  [status' = "succeeded" /\ status # "succeeded" /\ reading.state # "idle" /\ promised > 0
              => Over(promised)]_vars
  <2>1. SUFFICES ASSUME Next, status' = "succeeded", status # "succeeded", reading.state # "idle",
                        promised > 0
                 PROVE  Over(promised)
    BY <1>1 DEF vars, meta
  <2>2. PublishVerdict
    BY <2>1, PublishVerdictOnly
  <2>3. status \in Open /\ reading.state # "failed" /\ pc = "publish"
    BY <2>1, <2>2 DEF PublishVerdict, Publish
  <2> QED BY <1>1, <2>1, <2>3 DEF IInv, OpenInv, Polls
<1> QED BY <1>1, Invariance, PTL DEF Spec, SuccessAnswersReply

\* Where the CLI drops a question once it is answered, no pause follows for a
\* question older than the last reply accepted as an answer.
THEOREM AnsweredIsNotAskedAgain == Spec => NoPauseAfterAnswer
<1>1. ASSUME IInv, IInv', [Next]_vars
      PROVE  [status' = "awaiting_input" /\ status # "awaiting_input" /\ ~ lags => asked' >= promised]_vars
  <2>1. SUFFICES ASSUME Next, status' = "awaiting_input", status # "awaiting_input", ~ lags
                 PROVE  asked' >= promised
    BY <1>1 DEF vars, meta
  <2>2. Stepping
    BY <1>1, <2>1, OpenSteps DEF IInv, Open
  <2>3. Pause
    BY <2>1, <2>2 DEF Stepping, OpenStep, Works, Answers, Asks, Breaks, Reports, ReportsOldTurn, Check,
       MeasureTranscript, TypeFails, Type, Record, Resume, Probe, Look, JudgeDone, JudgeFailed, JudgeWorking,
       JudgeBlocked, Move, meta
  <2>4. gen = lastGen /\ asked' = reading.turn /\ pc = "pause"
    BY <2>1, <2>3 DEF Pause
  <2> QED BY <2>1, <2>2, <2>4 DEF Stepping, OpenInv, Read, Polling, Numbered, Numbers
<1> QED BY <1>1, Invariance, PTL DEF Spec, NoPauseAfterAnswer

-----------------------------------------------------------------------------
(* A finished turn is believed                                             *)

\* The position that a reply carries lies before the answer to it: it was
\* measured before the reply was typed, and the monitor compares with it.
Positioned ==
    /\ lastGen = 0 => saw
    /\ lastGen = gen /\ gen > 0 => mark = base
    /\ call.at \in {"type", "record"} => call.baseline \in 0 .. printed
    /\ call.at = "record" /\ turn = typed /\ phase = "done" => printed > call.baseline
    /\ gen > 0 => base \in 0 .. printed
    /\ gen > 0 /\ gen = typed /\ turn = typed /\ phase = "done" => printed > base

LEMMA KeepsPositioned == ASSUME Stepping, Positioned PROVE Positioned'
<1> USE DEF Stepping, Numbers, OpenInv, Numbered, IInv, Bounded, Positioned, Open,
            world, meta, client, memory, poll, NoCall
<1>1. CASE Works \/ Answers \/ Asks \/ Breaks
  BY <1>1 DEF Works, Answers, Asks, Breaks
<1>2. CASE Reports \/ ReportsOldTurn
  BY <1>2 DEF Reports, ReportsOldTurn
<1>3. CASE Check \/ TypeFails
  BY <1>3, CallSteps DEF Check, TypeFails
<1>4. CASE MeasureTranscript
  BY <1>4, CallSteps DEF MeasureTranscript, TypeOK
<1>5. CASE Type
  BY <1>5, CallSteps DEF Type
<1>6. CASE Record
  BY <1>6 DEF Record, Acknowledge
<1>7. CASE Resume
  BY <1>7 DEF Resume, Acknowledge
<1>8. CASE Probe
  BY <1>8 DEF Probe
<1>9. CASE Look
  <2>1. UNCHANGED <<gen, base, call, turn, phase, typed, printed>>
    BY <1>9, Zenon DEF Look, meta, client, world
  <2>2. CASE status \notin Open
    <3>1. UNCHANGED <<lastGen, saw, mark>>
      BY <1>9, <2>2, Zenon DEF Look, memory
    <3> QED BY <2>1, <3>1
  <2>3. CASE status \in Open /\ gen # lastGen
    <3>1. lastGen' = gen
      BY <1>9, <2>3, Zenon DEF Look
    <3>2. fresh' = TRUE
      BY <1>9, <2>3 DEF Look
    <3>3. mark' = base
      BY <1>9, <2>3, <3>2 DEF Look
    <3>4. gen # 0
      BY <2>3
    <3> QED BY <2>1, <3>1, <3>3, <3>4
  <2>4. CASE status \in Open /\ gen = lastGen
    <3>1. lastGen' = lastGen
      BY <1>9, <2>4, Zenon DEF Look
    <3>2. fresh' = FALSE
      BY <1>9, <2>4 DEF Look
    <3>3. mark' = mark
      BY <1>9, <2>4, <3>2 DEF Look
    <3>4. saw => saw'
      BY <1>9, <2>4, <3>2 DEF Look
    <3> QED BY <2>1, <2>4, <3>1, <3>3, <3>4
  <2> QED BY <2>2, <2>3, <2>4
<1>10. CASE JudgeDone
  BY <1>10 DEF JudgeDone, NewTurnShown, Move
<1>11. CASE JudgeFailed \/ JudgeWorking \/ JudgeBlocked \/ Pause
  BY <1>11 DEF JudgeFailed, JudgeWorking, JudgeBlocked, Pause, Move, Remember
<1> QED
  BY <1>1, <1>2, <1>3, <1>4, <1>5, <1>6, <1>7, <1>8, <1>9, <1>10, <1>11 DEF OpenStep

\* A monitor that judges after the turn of the last recorded reply is over.
FinishedIsBelieved ==
    /\ status \in Open /\ pc = "judge"
    /\ phase = "done" /\ turn = typed /\ gen = typed /\ lastGen = gen
    => NewTurnShown /\ (gen > 0 => CompleteSince(mark))

\* What keeps FinishedIsPublished from being stuck: the guard against a stale
\* done, and the transcript that outweighs a stale question, are open to a
\* monitor that knows of the last reply once its turn is over, with or without
\* turn identities and whenever the transcript was measured.
THEOREM FinishedIsNotTakenForStale == Spec => []FinishedIsBelieved
<1> DEFINE Holds == status \in Open => Positioned
<1>1. Init => Holds
  BY MaxRepliesAssumption DEF Init, Positioned, NoCall
<1>2. ASSUME IInv, IInv', Holds, [Next]_vars PROVE Holds'
  <2>1. ASSUME Next, status' \in Open PROVE Positioned'
    <3>1. Stepping
      BY <1>2, <2>1, OpenSteps DEF IInv
    <3> QED BY <1>2, <3>1, KeepsPositioned DEF Stepping
  <2>2. CASE UNCHANGED vars
    BY <1>2, <2>2 DEF vars, kind, meta, world, client, memory, poll, Positioned
  <2> QED BY <1>2, <2>1, <2>2 DEF Open
<1>3. ASSUME IInv, Holds PROVE FinishedIsBelieved
  <2> SUFFICES ASSUME status \in Open, phase = "done", turn = typed, gen = typed, lastGen = gen
               PROVE  NewTurnShown /\ (gen > 0 => CompleteSince(mark))
    BY DEF FinishedIsBelieved
  <2>1. Numbers
    BY <1>3, TypeGivesNumbers DEF IInv
  <2>2. gen > 0 => CompleteSince(mark)
    BY <1>3, <2>1 DEF Numbers, Positioned, CompleteSince, None
  <2>3. gen = 0 => saw
    BY <1>3 DEF Positioned
  <2> QED BY <2>1, <2>2, <2>3 DEF Numbers, NewTurnShown
<1> HIDE DEF Holds
<1> QED BY <1>1, <1>2, <1>3, Invariance, PTL DEF Spec
=============================================================================
