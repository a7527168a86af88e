--------------------------- MODULE Terminal_proofs ---------------------------
(***************************************************************************)
(* TerminalRunner: a job with a command line provider, for any number of   *)
(* failing tmux calls and crashes of the server.  TerminalWait: wait-job   *)
(* beside the end of its job, the event log and the output a client is     *)
(* shown, for any number of writers, events and bytes.                     *)
(***************************************************************************)
EXTENDS TerminalRunner, TerminalWait, SequenceTheorems, WellFoundedInduction, TLAPS

-----------------------------------------------------------------------------
(* TerminalRunner: success                                                 *)

\* Before its creation there is no command.
NotYet == pc \in {"start", "create", "spawn"} => provider = "absent"

\* A zero on disk was written after the command succeeded.
ZeroIsReal == exitFile = "zero" => provider = "succeeded"

\* What a reader is about to publish was true when it looked.
ReaderIsRight == reader = "ok" => provider = "succeeded" \/ answer

SuccessInv == TypeOK /\ NotYet /\ ZeroIsReal /\ ReaderIsRight /\ SuccessIsReal

\* The Boolean and the other half of TypeOK.
Flags ==
    /\ onOutput \in BOOLEAN /\ lease \in BOOLEAN /\ known \in BOOLEAN
    /\ answer \in BOOLEAN /\ sent \in BOOLEAN /\ due \in BOOLEAN

OtherTypes ==
    /\ transport \in {"tmux", "print"}
    /\ prompt \in {"typed", "argument", "redirected"}
    /\ status \in {"running", "stopped", "succeeded", "failed"}
    /\ outcome \in {"none", "ok", "fail"}
    /\ receipt \in {"none", "confirmed", "unconfirmed"}
    /\ session \in {"absent", "alive", "gone"}
    /\ provider \in {"absent", "working"} \cup Exited
    /\ exitFile \in {"none", "empty", "zero", "nonzero"}
    /\ pc \in {"start", "create", "unstarted", "recheck", "deliver", "describe", "reject",
               "monitor", "ended", "killDone", "spawn", "pid", "wait", "after"} \cup Over
    /\ call \in {"idle", "clean", "confirmed", "unconfirmed", "gone"}
    /\ reader \in {"idle", "ok", "fail"}
    /\ mishaps \in 0 .. MaxMishaps

LEMMA TypesSplit == TypeOK <=> Flags /\ OtherTypes
  BY DEF TypeOK, Flags, OtherTypes

LEMMA InitSuccess == Init => SuccessInv
<1> SUFFICES ASSUME Init PROVE SuccessInv
  OBVIOUS
<1>1. Flags
  BY DEF Init, Flags
<1>2. OtherTypes
  BY MaxMishapsAssumption DEF Init, Prompts, OtherTypes, Exited, Over
<1>3. NotYet /\ ZeroIsReal /\ ReaderIsRight /\ SuccessIsReal
  BY DEF Init, NotYet, ZeroIsReal, ReaderIsRight, SuccessIsReal
<1> QED BY <1>1, <1>2, <1>3, TypesSplit DEF SuccessInv

LEMMA KeepsFlags == ASSUME TypeOK, [Next]_vars PROVE Flags'
<1> USE DEF TypeOK, Flags, Exited, kind, record, world, Publish, Kill, Mishap, StopSeen
<1>1. CASE TmuxStarts \/ NewSession \/ NewSessionFails \/ NoCandidateLeft \/ Recheck
  BY <1>1 DEF TmuxStarts, NewSession, NewSessionFails, NoCandidateLeft, Recheck
<1>2. CASE NothingTyped \/ (\E accepted \in BOOLEAN : Deliver(accepted)) \/ Describe \/ Reject
  BY <1>2 DEF NothingTyped, Deliver, Describe, Reject
<1>3. CASE MonitorStops \/ MonitorSeesEnd \/ KillAfterResult \/ MonitorTimesOut \/ SessionEnded
  BY <1>3 DEF MonitorStops, MonitorSeesEnd, KillAfterResult, MonitorTimesOut, SessionEnded,
              ExitVerdict
<1>4. CASE MonitorCannotInspect \/ (\E o \in {"ok", "fail"} : MonitorSeesOutput(o))
  BY <1>4 DEF MonitorCannotInspect, MonitorSeesOutput
<1>5. CASE Popen \/ PopenFails \/ RecordPid \/ WaitEnds \/ PrintResult
  BY <1>5 DEF Popen, PopenFails, RecordPid, WaitEnds, PrintResult
<1>6. CASE StopMarks \/ StopKillsSession \/ StopSignalsGroup \/ StopPersists
  BY <1>6 DEF StopMarks, StopKillsSession, StopSignalsGroup, StopPersists
<1>7. CASE FinalizeReads \/ FinalizePublishes
  BY <1>7 DEF FinalizeReads, FinalizePublishes, ReadsExitFile, ReadsOutput, ExitVerdict
<1>8. CASE Answers \/ (\E how \in {"succeeded", "failed"} : ProviderExits(how)) \/ ShellStep
  BY <1>8 DEF Answers, ProviderExits, ShellStep
<1>9. CASE Tick \/ Crash \/ UNCHANGED vars
  BY <1>9 DEF Tick, Crash, vars
<1> QED
  BY <1>1, <1>2, <1>3, <1>4, <1>5, <1>6, <1>7, <1>8, <1>9
     DEF Next, WorkerStep, Surprise, StopStep, ReaderStep

LEMMA KeepsOtherTypes == ASSUME TypeOK, [Next]_vars PROVE OtherTypes'
<1> USE MaxMishapsAssumption
    DEF TypeOK, OtherTypes, Exited, Over, kind, record, world, Publish, Kill, Mishap, StopSeen
<1>1. CASE TmuxStarts \/ NewSession \/ NewSessionFails \/ NoCandidateLeft \/ Recheck
  BY <1>1 DEF TmuxStarts, NewSession, NewSessionFails, NoCandidateLeft, Recheck
<1>2. CASE NothingTyped \/ (\E accepted \in BOOLEAN : Deliver(accepted)) \/ Describe \/ Reject
  BY <1>2 DEF NothingTyped, Deliver, Describe, Reject
<1>3. CASE MonitorStops \/ MonitorSeesEnd \/ KillAfterResult \/ MonitorTimesOut \/ SessionEnded
  BY <1>3 DEF MonitorStops, MonitorSeesEnd, KillAfterResult, MonitorTimesOut, SessionEnded,
              ExitVerdict
<1>4. CASE MonitorCannotInspect \/ (\E o \in {"ok", "fail"} : MonitorSeesOutput(o))
  BY <1>4 DEF MonitorCannotInspect, MonitorSeesOutput
<1>5. CASE Popen \/ PopenFails \/ RecordPid \/ WaitEnds \/ PrintResult
  BY <1>5 DEF Popen, PopenFails, RecordPid, WaitEnds, PrintResult
<1>6. CASE StopMarks \/ StopKillsSession \/ StopSignalsGroup \/ StopPersists
  BY <1>6 DEF StopMarks, StopKillsSession, StopSignalsGroup, StopPersists
<1>7. CASE FinalizeReads \/ FinalizePublishes
  BY <1>7 DEF FinalizeReads, FinalizePublishes, ReadsExitFile, ReadsOutput, ExitVerdict
<1>8. CASE Answers \/ (\E how \in {"succeeded", "failed"} : ProviderExits(how)) \/ ShellStep
  BY <1>8 DEF Answers, ProviderExits, ShellStep
<1>9. CASE Tick \/ Crash \/ UNCHANGED vars
  BY <1>9 DEF Tick, Crash, vars
<1> QED
  BY <1>1, <1>2, <1>3, <1>4, <1>5, <1>6, <1>7, <1>8, <1>9
     DEF Next, WorkerStep, Surprise, StopStep, ReaderStep

LEMMA KeepsTypes == ASSUME TypeOK, [Next]_vars PROVE TypeOK'
  BY KeepsFlags, KeepsOtherTypes DEF TypeOK, Flags, OtherTypes

LEMMA KeepsSuccess == ASSUME SuccessInv, [Next]_vars PROVE SuccessInv'
<1> USE DEF SuccessInv, TypeOK, NotYet, ZeroIsReal, ReaderIsRight, SuccessIsReal,
            Exited, Over, kind, record, world, Publish, Kill, StopSeen
<1>0. TypeOK'
  BY KeepsTypes
<1> SUFFICES NotYet' /\ ZeroIsReal' /\ ReaderIsRight' /\ SuccessIsReal'
  BY <1>0
<1>1. CASE TmuxStarts \/ NewSession \/ NewSessionFails \/ NoCandidateLeft \/ Recheck
  BY <1>1 DEF TmuxStarts, NewSession, NewSessionFails, NoCandidateLeft, Recheck
<1>2. CASE NothingTyped \/ (\E accepted \in BOOLEAN : Deliver(accepted)) \/ Describe \/ Reject
  BY <1>2 DEF NothingTyped, Deliver, Describe, Reject
<1>3. CASE MonitorStops \/ MonitorSeesEnd \/ KillAfterResult \/ MonitorTimesOut \/ SessionEnded
  BY <1>3 DEF MonitorStops, MonitorSeesEnd, KillAfterResult, MonitorTimesOut, SessionEnded,
              ExitVerdict
<1>4. CASE MonitorCannotInspect \/ (\E o \in {"ok", "fail"} : MonitorSeesOutput(o))
  BY <1>4 DEF MonitorCannotInspect, MonitorSeesOutput
<1>5. CASE Popen \/ PopenFails \/ RecordPid \/ WaitEnds \/ PrintResult
  BY <1>5 DEF Popen, PopenFails, RecordPid, WaitEnds, PrintResult
<1>6. CASE StopMarks \/ StopKillsSession \/ StopSignalsGroup \/ StopPersists
  BY <1>6 DEF StopMarks, StopKillsSession, StopSignalsGroup, StopPersists
<1>7. CASE FinalizeReads \/ FinalizePublishes
  BY <1>7 DEF FinalizeReads, FinalizePublishes, ReadsExitFile, ReadsOutput, ExitVerdict
<1>8. CASE Answers \/ (\E how \in {"succeeded", "failed"} : ProviderExits(how)) \/ ShellStep
  BY <1>8 DEF Answers, ProviderExits, ShellStep
<1>9. CASE Tick \/ Crash \/ UNCHANGED vars
  BY <1>9 DEF Tick, Crash, vars
<1> QED
  BY <1>1, <1>2, <1>3, <1>4, <1>5, <1>6, <1>7, <1>8, <1>9
     DEF Next, WorkerStep, Surprise, StopStep, ReaderStep

\* The record, the terminal and the files are well-formed.
THEOREM TypeCorrect == Spec => []TypeOK
<1>1. SuccessInv => TypeOK
  BY DEF SuccessInv
<1> QED BY <1>1, InitSuccess, KeepsSuccess, PTL DEF Spec

\* Whoever publishes it, a success is the command's own zero or a finished
\* turn on its terminal; no crash, stop or half-written file makes one.
THEOREM SuccessHasACause == Spec => []SuccessIsReal
<1>1. SuccessInv => SuccessIsReal
  BY DEF SuccessInv
<1> QED BY <1>1, InitSuccess, KeepsSuccess, PTL DEF Spec

-----------------------------------------------------------------------------
(* TerminalRunner: the lease of a tmux job, as long as nothing fails       *)

Fine == transport = "tmux" /\ mishaps = 0

\* Nothing of an unstarted session exists for a reader or a monitor.
Unstarted ==
    /\ transport = "tmux" => pc \notin {"spawn", "pid", "wait", "after"}
    /\ transport = "tmux" /\ pc \in {"start", "create"} =>
           provider = "absent" /\ exitFile = "none" /\ ~known /\ reader = "idle"
    /\ Fine /\ pc = "unstarted" => provider = "absent"

\* The command lives in its session only.
InItsSession ==
    /\ transport = "tmux" /\ provider = "working" => session = "alive"
    /\ exitFile # "none" => provider \in Exited
    /\ pc = "ended" => session # "alive"

\* While the command works a reader of a healthy tmux finds nothing.
ReaderWaits == Fine /\ reader # "idle" => provider # "working"

\* An open job holds its lease; a stop is on record before it cleans up.
OpenHolds ==
    /\ status = "running" => lease
    /\ call \in {"clean", "confirmed", "unconfirmed"} => status = "stopped"

\* Until the session was looked at again only a stop can have ended the job.
EarlyEndIsStop ==
    Fine /\ (pc \in {"start", "create"} \/ (pc = "recheck" /\ provider = "working"))
        => status \in {"running", "stopped"}

\* A cleanup that was confirmed left no session, or one the worker will end.
ConfirmedEnds ==
    Fine /\ call = "confirmed" /\ provider = "working" => pc = "recheck"

LeaseInv ==
    /\ TypeOK /\ NotYet /\ Unstarted /\ InItsSession /\ ReaderWaits /\ OpenHolds
    /\ EarlyEndIsStop /\ ConfirmedEnds /\ LeaseCoversSession

LEMMA InitLease == Init => LeaseInv
<1> SUFFICES ASSUME Init PROVE LeaseInv
  OBVIOUS
<1>1. TypeOK
  BY InitSuccess DEF SuccessInv
<1> QED
  BY <1>1 DEF Init, LeaseInv, NotYet, Unstarted, InItsSession, ReaderWaits, OpenHolds, EarlyEndIsStop,
              ConfirmedEnds, LeaseCoversSession, Fine

LEMMA KeepsLease == ASSUME LeaseInv, [Next]_vars PROVE LeaseInv'
<1> USE DEF LeaseInv, TypeOK, NotYet, Unstarted, InItsSession, ReaderWaits, OpenHolds, EarlyEndIsStop,
            ConfirmedEnds, LeaseCoversSession, Fine,
            Exited, Over, kind, record, world, Publish, Kill, Mishap, StopSeen
<1>0. TypeOK'
  BY KeepsTypes
<1> SUFFICES /\ NotYet' /\ Unstarted' /\ InItsSession' /\ ReaderWaits' /\ OpenHolds'
             /\ EarlyEndIsStop' /\ ConfirmedEnds' /\ LeaseCoversSession'
  BY <1>0
<1>1. CASE TmuxStarts \/ NewSession \/ NewSessionFails \/ NoCandidateLeft \/ Recheck
  <2>1. CASE TmuxStarts
    BY <2>1 DEF TmuxStarts
  <2>2. CASE NewSession
    <3>1. /\ pc = "create" /\ pc' = "recheck" /\ provider' = "working" /\ session' = "alive"
          /\ UNCHANGED <<kind, record, known, exitFile, call, reader, mishaps>>
      BY <2>2 DEF NewSession
    <3> QED BY <3>1
  <2>3. CASE NewSessionFails
    <3>1. /\ pc = "create" /\ pc' = "unstarted"
          /\ UNCHANGED <<kind, record, known, exitFile, call, reader>>
          /\ \/ UNCHANGED <<session, provider, mishaps>>
             \/ mishaps' # 0 /\ session' = "alive" /\ provider' = "working"
      BY <2>3 DEF NewSessionFails
    <3> QED BY <3>1
  <2>4. CASE NoCandidateLeft
    BY <2>4 DEF NoCandidateLeft
  <2>5. CASE Recheck
    BY <2>5 DEF Recheck
  <2> QED BY <1>1, <2>1, <2>2, <2>3, <2>4, <2>5
<1>2. CASE NothingTyped \/ (\E accepted \in BOOLEAN : Deliver(accepted)) \/ Describe \/ Reject
  BY <1>2 DEF NothingTyped, Deliver, Describe, Reject
<1>3. CASE MonitorStops \/ MonitorSeesEnd \/ KillAfterResult \/ MonitorTimesOut \/ SessionEnded
  BY <1>3 DEF MonitorStops, MonitorSeesEnd, KillAfterResult, MonitorTimesOut, SessionEnded,
              ExitVerdict
<1>4. CASE MonitorCannotInspect \/ (\E o \in {"ok", "fail"} : MonitorSeesOutput(o))
  BY <1>4 DEF MonitorCannotInspect, MonitorSeesOutput
<1>5. CASE Popen \/ PopenFails \/ RecordPid \/ WaitEnds \/ PrintResult
  <2>1. transport = "print"
    BY <1>5 DEF Popen, PopenFails, RecordPid, WaitEnds, PrintResult
  <2>2. CASE Popen \/ PopenFails \/ RecordPid
    <3>1. /\ pc \in {"spawn", "pid"} /\ pc' \in {"pid", "wait", "after"}
          /\ UNCHANGED <<kind, record, exitFile, call, reader, mishaps>>
          /\ pc = "spawn" \/ UNCHANGED provider
      BY <2>2 DEF Popen, PopenFails, RecordPid
    <3>2. provider' = "working" \/ UNCHANGED provider
      BY <2>2 DEF Popen, PopenFails, RecordPid
    <3> QED BY <2>1, <3>1, <3>2
  <2>3. CASE WaitEnds
    BY <2>1, <2>3 DEF WaitEnds
  <2>4. CASE PrintResult
    BY <2>1, <2>4 DEF PrintResult
  <2> QED BY <1>5, <2>2, <2>3, <2>4
<1>6. CASE StopMarks \/ StopKillsSession \/ StopSignalsGroup \/ StopPersists
  BY <1>6 DEF StopMarks, StopKillsSession, StopSignalsGroup, StopPersists
<1>7. CASE FinalizeReads \/ FinalizePublishes
  BY <1>7 DEF FinalizeReads, FinalizePublishes, ReadsExitFile, ReadsOutput, ExitVerdict
<1>8. CASE Answers \/ (\E how \in {"succeeded", "failed"} : ProviderExits(how)) \/ ShellStep
  BY <1>8 DEF Answers, ProviderExits, ShellStep
<1>9. CASE Tick \/ Crash \/ UNCHANGED vars
  BY <1>9 DEF Tick, Crash, vars
<1> QED
  BY <1>1, <1>2, <1>3, <1>4, <1>5, <1>6, <1>7, <1>8, <1>9
     DEF Next, WorkerStep, Surprise, StopStep, ReaderStep

\* Without a failing tmux call or a crash, a tmux job that gave its lease up
\* has a working command only where its worker is about to end it.
THEOREM LeaseCovers == Spec => []LeaseCoversSession
<1>1. LeaseInv => LeaseCoversSession
  BY DEF LeaseInv
<1> QED BY <1>1, InitLease, KeepsLease, PTL DEF Spec

-----------------------------------------------------------------------------
(* TerminalRunner: a stopped session has somebody to end it                *)

\* As long as nothing fails, the session of a stopped tmux job is alive only
\* while the stop is about to kill it or the worker to look for the stop.
AboutToEnd == Fine /\ status = "stopped" /\ session = "alive" => call = "clean" \/ pc = "recheck"

NoSessionYet == Fine /\ pc \in {"start", "create"} => session = "absent"

LEMMA KeepsAboutToEnd ==
    ASSUME LeaseInv, NoSessionYet, AboutToEnd, [Next]_vars
    PROVE  NoSessionYet' /\ AboutToEnd'
<1> USE DEF LeaseInv, TypeOK, OpenHolds, Unstarted, NoSessionYet, AboutToEnd, Fine,
            kind, record, world, Publish, Kill, Mishap, StopSeen
<1>1. CASE TmuxStarts \/ NewSession \/ NewSessionFails \/ NoCandidateLeft \/ Recheck
  BY <1>1 DEF TmuxStarts, NewSession, NewSessionFails, NoCandidateLeft, Recheck
<1>2. CASE NothingTyped \/ (\E accepted \in BOOLEAN : Deliver(accepted)) \/ Describe \/ Reject
  BY <1>2 DEF NothingTyped, Deliver, Describe, Reject
<1>3. CASE MonitorStops \/ MonitorSeesEnd \/ KillAfterResult \/ MonitorTimesOut \/ SessionEnded
  BY <1>3 DEF MonitorStops, MonitorSeesEnd, KillAfterResult, MonitorTimesOut, SessionEnded,
              ExitVerdict
<1>4. CASE MonitorCannotInspect \/ (\E o \in {"ok", "fail"} : MonitorSeesOutput(o))
  BY <1>4 DEF MonitorCannotInspect, MonitorSeesOutput
<1>5. CASE Popen \/ PopenFails \/ RecordPid \/ WaitEnds \/ PrintResult
  BY <1>5 DEF Popen, PopenFails, RecordPid, WaitEnds, PrintResult
<1>6. CASE StopMarks \/ StopKillsSession \/ StopSignalsGroup \/ StopPersists
  BY <1>6 DEF StopMarks, StopKillsSession, StopSignalsGroup, StopPersists
<1>7. CASE FinalizeReads \/ FinalizePublishes
  BY <1>7 DEF FinalizeReads, FinalizePublishes, ReadsExitFile, ReadsOutput
<1>8. CASE Answers \/ (\E how \in {"succeeded", "failed"} : ProviderExits(how)) \/ ShellStep
  BY <1>8 DEF Answers, ProviderExits, ShellStep
<1>9. CASE Tick \/ Crash \/ UNCHANGED vars
  BY <1>9 DEF Tick, Crash, vars
<1> QED
  BY <1>1, <1>2, <1>3, <1>4, <1>5, <1>6, <1>7, <1>8, <1>9
     DEF Next, WorkerStep, Surprise, StopStep, ReaderStep

\* What keeps StopEndsSession from being stuck: a session that survives the
\* stop of its job is one that the stop call or its creator still has to look
\* at, wherever the start-up was when the stop came.
THEOREM SessionHasAnEnder == Spec => []AboutToEnd
<1>1. Init => NoSessionYet /\ AboutToEnd
  BY DEF Init, NoSessionYet, AboutToEnd
<1>2. LeaseInv /\ NoSessionYet /\ AboutToEnd /\ [Next]_vars => NoSessionYet' /\ AboutToEnd'
  BY KeepsAboutToEnd
<1> QED BY <1>1, <1>2, InitLease, KeepsLease, PTL DEF Spec

-----------------------------------------------------------------------------
(* TerminalWait: the waiter                                                *)

\* A success was read from result.json.
SuccessWasRead == exit = "success" => result = "ok" \/ died

\* The hand-off lasts while the decided request is unconsumed, and whoever
\* looked at the job meanwhile has seen the decision.
HandoffIsSeen ==
    /\ handoff => request = "decided"
    /\ step = "inspect" /\ handoff => meta.request = "decided"
    /\ handoff \in BOOLEAN

WaitInv == SuccessWasRead /\ HandoffIsSeen

LEMMA InitWait == WaitInit => WaitInv
  BY DEF WaitInit, WaitInv, SuccessWasRead, HandoffIsSeen

LEMMA KeepsWait == ASSUME WaitInv, [WaitNext]_clientVars PROVE WaitInv'
<1> USE DEF WaitInv, SuccessWasRead, HandoffIsSeen, waitVars, jobVars, Watched
<1>1. ASSUME UNCHANGED <<jobVars, waitVars>> PROVE WaitInv'
  BY <1>1
<1>2. CASE /\ Watched /\ JobStep
           /\ handoff' = (handoff /\ request' = "decided")
           /\ UNCHANGED <<logVars, late, step, meta, exit>>
  <2>1. SuccessWasRead'
    BY <1>2 DEF JobStep, Pauses, Decides, Resumes, WritesResult, WritesStatus, PublisherDies,
                StopWritesStatus, StopWritesResult
  <2>2. HandoffIsSeen'
    BY <1>2
  <2> QED BY <2>1, <2>2
<1>3. CASE Watched /\ Waits /\ UNCHANGED <<logVars, jobVars>>
  <2> USE DEF Moves, Leaves
  <2>1. CASE Poll
    BY <1>3, <2>1 DEF Poll
  <2>2. CASE ReadsMeta
    BY <1>3, <2>2 DEF ReadsMeta
  <2>3. CASE ReadsResult
    BY <1>3, <2>3 DEF ReadsResult, Verdict
  <2>4. CASE Observes
    BY <1>3, <2>4 DEF Observes, ReadMeta
  <2>5. CASE Inspects
    BY <1>3, <2>5 DEF Inspects
  <2> QED BY <1>3, <2>1, <2>2, <2>3, <2>4, <2>5 DEF Waits
<1>4. CASE Watched /\ DeadlinePasses /\ UNCHANGED <<logVars, jobVars>>
  BY <1>4 DEF DeadlinePasses
<1> QED
  BY <1>1, <1>2, <1>3, <1>4 DEF WaitNext, clientVars

LEMMA WaitInvariance == WaitSpec => []WaitInv
  BY InitWait, KeepsWait, PTL DEF WaitSpec

\* A success that wait-job reported is the job's durable end, unless the
\* publisher died between its two writes.
THEOREM SuccessHolds == WaitSpec => SuccessIsDurable
<1>1. ASSUME WaitInv, [WaitNext]_clientVars PROVE [exit = "success" => result' = "ok" \/ died]_clientVars
  BY <1>1 DEF WaitInv, SuccessWasRead, WaitNext, clientVars, jobVars, waitVars, JobStep, Pauses, Decides,
              Resumes, WritesResult, WritesStatus, PublisherDies, StopWritesStatus, StopWritesResult
<1> QED BY <1>1, WaitInvariance, PTL DEF WaitSpec, SuccessIsDurable

\* A permission request whose decision was on record when the poll began is not
\* reported as waiting for one, however the polls fall between the decision and
\* its consumption.  One decided between the two reads of a poll is reported.
THEOREM DecidedIsNotReported == WaitSpec => NoPhantomRequest
<1>1. ASSUME WaitInv, [WaitNext]_clientVars
      PROVE  [exit' = "needs_input" /\ exit = "none" => ~ handoff]_clientVars
  <2>1. CASE Inspects
    BY <1>1, <2>1 DEF WaitInv, HandoffIsSeen, Inspects, NeedsInput, Moves, Leaves
  <2>2. CASE ~Inspects
    BY <1>1, <2>2 DEF WaitNext, clientVars, waitVars, Waits, Poll, ReadsMeta, ReadsResult, Observes,
                      Verdict, Moves, Leaves, DeadlinePasses
  <2> QED BY <2>1, <2>2
<1> QED BY <1>1, WaitInvariance, PTL DEF WaitSpec, NoPhantomRequest

-----------------------------------------------------------------------------
(* TerminalWait: the output                                                *)

\* The client is never ahead of the file.
OutputInv ==
    /\ size \in Nat
    /\ offset \in {NoOffset} \cup 0 .. size
    /\ OutputKeepsItsPlace

LEMMA MinOfTwo ==
    ASSUME NEW a \in Int, NEW b \in Int
    PROVE  Min({a, b}) \in {a, b} /\ Min({a, b}) <= a /\ Min({a, b}) <= b
<1>1. \E x \in {a, b} : \A y \in {a, b} : x <= y
  <2>1. CASE a <= b
    BY <2>1
  <2>2. CASE b <= a
    BY <2>2
  <2> QED BY <2>1, <2>2
<1> QED BY <1>1 DEF Min

LEMMA InitOutput == WaitInit => OutputInv
  BY LogBoundsAssumption DEF WaitInit, LogInit, OutputInv, OutputKeepsItsPlace, NoOffset

\* What is decoded of a slice, whole or cut in two, are its characters.
LEMMA DecodedIs ==
    ASSUME NEW a \in Int, NEW e \in Int
    PROVE  Decoded(a, e) \cup Replaced(a, e) = {b \in a .. e - 1 : IsLead(b)}
<1>1. \A b \in a .. e - 1 : (b + 1 < e) \/ (b + 1 = e)
  OBVIOUS
<1>2. \A b : b \in Decoded(a, e) <=> b \in a .. e - 1 /\ IsLead(b) /\ (b + 1 < e)
  BY Zenon DEF Decoded
<1>3. \A b : b \in Replaced(a, e) <=> b \in a .. e - 1 /\ IsLead(b) /\ (b + 1 = e)
  BY Zenon DEF Replaced
<1> QED BY <1>1, <1>2, <1>3, Zenon

\* One slice moves the offset forward, within the file, over shown bytes and
\* at most over the second byte of a character.
LEMMA SliceKeeps == ASSUME OutputInv, ReadOutputSince PROVE OutputInv'
<1> DEFINE start == CharacterStart(offset)
<1>1. PICK limit \in 1 .. MaxOutput :
        LET cut == Min({limit, size - start})
            whole == IF ~ IsLead(start + cut) /\ start + cut < size THEN cut + 1 ELSE cut
        IN  /\ shown' = shown \cup Decoded(start, start + whole)
            /\ split' = split \cup Replaced(start, start + whole)
            /\ offset' = IF size = start THEN start ELSE NextOffset(start, whole)
  BY DEF ReadOutputSince
<1> DEFINE cut == Min({limit, size - start})
           whole == IF ~ IsLead(start + cut) /\ start + cut < size THEN cut + 1 ELSE cut
<1>2. offset \in 0 .. size /\ size \in Nat
  BY DEF OutputInv, ReadOutputSince
<1>3. start \in offset .. size /\ (start # offset => start = offset + 1 /\ offset % 2 = 1)
  BY <1>2 DEF CharacterStart, IsLead
<1>4. cut \in Int /\ cut <= size - start /\ (size = start \/ cut >= 1)
  <2>1. limit \in Int /\ limit >= 1 /\ size - start \in Int
    BY <1>2, <1>3, LogBoundsAssumption
  <2> HIDE DEF start
  <2>2. cut \in {limit, size - start} /\ cut <= size - start
    BY <2>1, MinOfTwo
  <2> HIDE DEF cut
  <2> QED BY <1>2, <1>3, <2>1, <2>2
<1>5. whole \in Int /\ whole <= size - start /\ (size = start \/ whole >= 1)
  <2> HIDE DEF start, cut
  <2> QED BY <1>2, <1>3, <1>4
<1>6. /\ shown' = shown \cup Decoded(start, start + whole)
      /\ split' = split \cup Replaced(start, start + whole)
  BY <1>1
<1>7. offset' = IF size = start THEN start ELSE start + whole
  BY <1>1 DEF NextOffset
<1>8. UNCHANGED <<size, tailed>>
  BY DEF ReadOutputSince
<1> HIDE DEF start, cut, whole
<1>9. offset' \in 0 .. size
  BY <1>2, <1>3, <1>5, <1>7
<1>10. ASSUME tailed = "no", NEW b \in 0 .. offset' - 1, IsLead(b) PROVE b \in shown' \cup split'
  <2>1. CASE b < offset
    BY <1>2, <1>6, <2>1, <1>10 DEF OutputInv, OutputKeepsItsPlace, NoOffset
  <2>2. CASE b >= offset
    <3>1. b >= start
      BY <1>2, <1>3, <1>9, <1>10, <2>2 DEF IsLead
    <3>2. b <= start + whole - 1 /\ b \in Int
      BY <1>2, <1>3, <1>5, <1>7, <1>9, <1>10, <3>1
    <3>3. b \in Decoded(start, start + whole) \cup Replaced(start, start + whole)
      BY <1>3, <1>5, <1>10, <3>1, <3>2, DecodedIs
    <3> QED BY <1>6, <3>3
  <2> QED BY <1>2, <1>9, <2>1, <2>2
<1> HIDE DEF IsLead
<1> QED BY <1>2, <1>8, <1>9, <1>10 DEF OutputInv, OutputKeepsItsPlace

LEMMA KeepsOutput == ASSUME OutputInv, [WaitNext]_clientVars PROVE OutputInv'
<1>1. ASSUME UNCHANGED outputVars PROVE OutputInv'
  BY <1>1 DEF outputVars, OutputInv, OutputKeepsItsPlace
<1>2. CASE Prints
  BY <1>2 DEF Prints, OutputInv, OutputKeepsItsPlace, NoOffset
<1>3. CASE TailOutput \/ StatOutput
  BY <1>3 DEF TailOutput, StatOutput, OutputInv, OutputKeepsItsPlace, NoOffset
<1>4. \/ Prints \/ TailOutput \/ StatOutput \/ ReadOutputSince
      \/ UNCHANGED outputVars
  BY DEF WaitNext, clientVars, Watched, Write, Reload, AppendLine, DieWriting, Unlock, TailEvents
<1> QED BY <1>1, <1>2, <1>3, <1>4, SliceKeeps

\* A client that follows the byte offset from the start is shown every
\* character, for any slicing and any growth of the file, except those that the
\* file ended inside when they were read.
THEOREM OutputIsComplete == WaitSpec => []OutputKeepsItsPlace
<1>1. OutputInv => OutputKeepsItsPlace
  BY DEF OutputInv
<1> QED BY <1>1, InitOutput, KeepsOutput, PTL DEF WaitSpec

-----------------------------------------------------------------------------
(* TerminalWait: the event log                                             *)

\* The first n numbers.
Ident(n) == [i \in 1 .. n |-> i]

\* The facts about sequences of numbers that the log needs.
LEMMA IdentIsSeq ==
    ASSUME NEW n \in Nat
    PROVE  /\ Ident(n) \in Seq(Nat) /\ Len(Ident(n)) = n
           /\ \A i \in 1 .. n : Ident(n)[i] = i
<1>1. Ident(n) \in [1 .. n -> Nat]
  BY DEF Ident
<1>2. Ident(n) \in Seq(Nat)
  BY <1>1
<1>3. DOMAIN Ident(n) = 1 .. n
  BY DEF Ident
<1>4. Len(Ident(n)) = n
  BY <1>2, <1>3, LenProperties
<1> QED BY <1>2, <1>4 DEF Ident

LEMMA IdentAppend == ASSUME NEW n \in Nat PROVE Append(Ident(n), n + 1) = Ident(n + 1)
<1>1. Append(Ident(n), n + 1) \in Seq(Nat) /\ Len(Append(Ident(n), n + 1)) = n + 1
  BY IdentIsSeq
<1>2. \A i \in 1 .. n + 1 : Append(Ident(n), n + 1)[i] = i
  BY IdentIsSeq
<1> QED BY <1>1, <1>2, IdentIsSeq, SeqEqual

LEMMA IdentSubSeq == ASSUME NEW n \in Nat, NEW m \in 0 .. n PROVE SubSeq(Ident(n), 1, m) = Ident(m)
<1>1. SubSeq(Ident(n), 1, m) \in Seq(Nat) /\ Len(SubSeq(Ident(n), 1, m)) = m
  BY IdentIsSeq
<1>2. \A i \in 1 .. m : SubSeq(Ident(n), 1, m)[i] = i
  BY IdentIsSeq
<1>3. Ident(m) \in Seq(Nat) /\ Len(Ident(m)) = m /\ \A i \in 1 .. m : Ident(m)[i] = i
  BY IdentIsSeq
<1> HIDE DEF Ident
<1> DEFINE s == SubSeq(Ident(n), 1, m)
           t == Ident(m)
<1>4. s \in Seq(Nat) /\ t \in Seq(Nat) /\ Len(s) = Len(t) /\ \A i \in 1 .. Len(s) : s[i] = t[i]
  BY <1>1, <1>2, <1>3
<1> HIDE DEF s, t
<1>5. s = t
  BY ONLY <1>4, SeqEqual
<1> QED BY <1>5 DEF s, t

\* A set of numbers has a least one: the library's WFMin, for <.
LEMMA LeastNumber ==
    ASSUME NEW T, T \subseteq Nat, T # {}
    PROVE  \E i \in T : \A j \in T : ~ (j < i)
<1> DEFINE R == OpToRel(<, Nat)
<1>1. IsWellFoundedOn(R, Nat)
  BY NatLessThanWellFounded, Zenon
<1>2. \A i, j \in Nat : j < i => <<j, i>> \in R
  BY Zenon DEF OpToRel
<1> HIDE DEF R
<1>3. PICK i \in T : \A j \in T : ~ (<<j, i>> \in R)
  BY <1>1, WFMin, Zenon
<1> QED BY <1>2, <1>3

LEMMA AppendElements ==
    ASSUME NEW s \in Seq(Nat), NEW e \in Nat
    PROVE  /\ Append(s, e) \in Seq(Nat) /\ Len(Append(s, e)) = Len(s) + 1
           /\ \A k \in 1 .. Len(s) + 1 : Append(s, e)[k] = IF k <= Len(s) THEN s[k] ELSE e
  OBVIOUS

\* _read_since_locked returns exactly the numbers beyond the cursor, in order.
\* That there is one such function, and that it is Beyond, is shown by exhibiting
\* it (Known) and by the least index at which Beyond could differ.
LEMMA BeyondIs ==
    ASSUME log = Ident(Len(log)), Len(log) \in Nat, cursor \in 0 .. Len(log)
    PROVE  /\ Unseen \in Seq(Nat) /\ Len(Unseen) = Len(log) - cursor
           /\ \A i \in 1 .. Len(log) - cursor : Unseen[i] = cursor + i
<1> DEFINE n == Len(log)
           Step(f) == [i \in 0 .. n |-> IF i = 0 THEN << >>
                        ELSE IF log[i] > cursor THEN Append(f[i - 1], log[i]) ELSE f[i - 1]]
           Rest(i) == [k \in 1 .. i - cursor |-> cursor + k]
           Known == [i \in 0 .. n |-> IF i <= cursor THEN << >> ELSE Rest(i)]
<1>0. \A i \in 1 .. n : log[i] = i
  BY IdentIsSeq
<1>1. \A i \in 0 .. n : /\ Known[i] \in Seq(Nat)
                        /\ Len(Known[i]) = IF i <= cursor THEN 0 ELSE i - cursor
                        /\ \A k \in 1 .. Len(Known[i]) : Known[i][k] = cursor + k
  <2> SUFFICES ASSUME NEW i \in 0 .. n
               PROVE  /\ Known[i] \in Seq(Nat)
                      /\ Len(Known[i]) = IF i <= cursor THEN 0 ELSE i - cursor
                      /\ \A k \in 1 .. Len(Known[i]) : Known[i][k] = cursor + k
    OBVIOUS
  <2>1. CASE i <= cursor
    BY <2>1
  <2>2. CASE i > cursor
    <3>1. Known[i] = Rest(i) /\ i - cursor \in Nat
      BY <2>2
    <3>2. Rest(i) \in [1 .. i - cursor -> Nat] /\ DOMAIN Rest(i) = 1 .. i - cursor
      OBVIOUS
    <3>3. Rest(i) \in Seq(Nat)
      BY <3>1, <3>2
    <3>4. Len(Rest(i)) = i - cursor
      BY <3>1, <3>2, <3>3, LenProperties
    <3> QED BY <2>2, <3>1, <3>3, <3>4
  <2> QED BY <2>1, <2>2
<1>2. Known = Step(Known)
  <2>1. Known[0] = << >> /\ Known = [i \in 0 .. n |-> Known[i]]
    OBVIOUS
  <2>2. ASSUME NEW i \in 1 .. n
        PROVE  Known[i] = IF log[i] > cursor THEN Append(Known[i - 1], log[i]) ELSE Known[i - 1]
    <3>1. log[i] = i /\ i - 1 \in 0 .. n /\ i \in Nat /\ i \in 0 .. n /\ cursor \in Nat
      BY <1>0
    <3>2. CASE i <= cursor
      BY <3>1, <3>2
    <3>3. CASE i > cursor
      <4> DEFINE p == Known[i - 1]
                 a == Append(p, i)
                 r == Known[i]
      <4> HIDE DEF Known
      <4>1. p \in Seq(Nat) /\ Len(p) = i - 1 - cursor /\ \A k \in 1 .. Len(p) : p[k] = cursor + k
        BY <1>1, <3>1, <3>3
      <4>2. r \in Seq(Nat) /\ Len(r) = i - cursor /\ \A k \in 1 .. Len(r) : r[k] = cursor + k
        <5>1. /\ r \in Seq(Nat)
              /\ Len(r) = IF i <= cursor THEN 0 ELSE i - cursor
              /\ \A k \in 1 .. Len(r) : r[k] = cursor + k
          BY <1>1, <3>1
        <5> HIDE DEF r
        <5>2. ~ (i <= cursor)
          BY <3>1, <3>3
        <5> QED BY <5>1, <5>2
      <4> HIDE DEF p, r
      <4>3. a \in Seq(Nat) /\ Len(a) = i - cursor /\ \A k \in 1 .. Len(a) : a[k] = cursor + k
        BY <3>1, <3>3, <4>1, AppendElements
      <4> HIDE DEF a
      <4>4. r = a
        BY <4>2, <4>3, SeqEqual
      <4> QED BY <3>1, <3>3, <4>4 DEF r, a, p
    <3> QED BY <3>1, <3>2, <3>3
  <2> HIDE DEF Known
  <2>3. \A i \in 0 .. n :
          Known[i] = IF i = 0 THEN << >>
                     ELSE IF log[i] > cursor THEN Append(Known[i - 1], log[i]) ELSE Known[i - 1]
    <3> TAKE i \in 0 .. n
    <3>1. CASE i = 0
      BY <2>1, <3>1
    <3>2. CASE i # 0
      <4>1. i \in 1 .. n
        BY <3>2
      <4> QED BY <2>2, <3>2, <4>1
    <3> QED BY <3>1, <3>2
  <2> QED BY <2>1, <2>3
<1> HIDE DEF Known
<1>3. Beyond = Step(Beyond)
  <2>1. Beyond = CHOOSE f : f = Step(f)
    BY DEF Beyond
  <2> HIDE DEF Step
  <2> QED BY <1>2, <2>1
<1>4. \A i \in 0 .. n : Beyond[i] = Known[i]
  <2> DEFINE Bad == {i \in 0 .. n : Beyond[i] # Known[i]}
  <2> SUFFICES ASSUME Bad # {} PROVE FALSE
    OBVIOUS
  <2>1. PICK i \in Bad : \A j \in Bad : ~ (j < i)
    <3>1. Bad \subseteq Nat
      OBVIOUS
    <3> HIDE DEF Bad
    <3> QED BY <3>1, LeastNumber
  <2>2. i \in 0 .. n /\ Beyond[i] # Known[i] /\ \A j \in 0 .. n : j < i => Beyond[j] = Known[j]
    BY <2>1
  <2>3. i = 0 \/ (i - 1 \in 0 .. n /\ i - 1 < i)
    BY <2>2
  <2>4. Step(Beyond)[i] = Step(Known)[i]
    BY <2>2, <2>3
  <2> HIDE DEF Step
  <2> QED BY <1>2, <1>3, <2>2, <2>4
<1>5. Unseen = Known[n]
  BY <1>4 DEF Unseen
<1>6. n \in 0 .. n /\ (n <= cursor => cursor = n)
  OBVIOUS
<1> QED BY <1>1, <1>5, <1>6

LEMMA ConcatElements ==
    ASSUME NEW s \in Seq(Nat), NEW t \in Seq(Nat)
    PROVE  /\ s \o t \in Seq(Nat) /\ Len(s \o t) = Len(s) + Len(t)
           /\ \A i \in 1 .. Len(s) + Len(t) : (s \o t)[i] = IF i <= Len(s) THEN s[i] ELSE t[i - Len(s)]
  OBVIOUS

\* The next n numbers, after the first c.
LEMMA IdentConcat ==
    ASSUME NEW c \in Nat, NEW n \in Nat, NEW s \in Seq(Nat), Len(s) = n, \A i \in 1 .. n : s[i] = c + i
    PROVE  Ident(c) \o s = Ident(c + n)
<1>1. Ident(c) \in Seq(Nat) /\ Len(Ident(c)) = c /\ \A i \in 1 .. c : Ident(c)[i] = i
  BY IdentIsSeq
<1>2. Ident(c + n) \in Seq(Nat) /\ Len(Ident(c + n)) = c + n /\ \A i \in 1 .. c + n : Ident(c + n)[i] = i
  BY IdentIsSeq
<1> DEFINE p == Ident(c)
           t == Ident(c + n)
           r == p \o s
<1> HIDE DEF p, t, Ident
<1>3. r \in Seq(Nat) /\ Len(r) = c + n /\ \A i \in 1 .. c + n : r[i] = i
  <2>1. p \in Seq(Nat) /\ Len(p) = c /\ \A i \in 1 .. c : p[i] = i
    BY <1>1 DEF p
  <2>2. /\ r \in Seq(Nat) /\ Len(r) = c + n
        /\ \A i \in 1 .. c + n : r[i] = IF i <= c THEN p[i] ELSE s[i - c]
    BY <2>1, ConcatElements
  <2> HIDE DEF r
  <2>3. ASSUME NEW i \in 1 .. c + n PROVE r[i] = i
    <3>1. CASE i <= c
      BY <2>1, <2>2, <3>1
    <3>2. CASE ~ (i <= c)
      <4>1. i - c \in 1 .. n
        BY <3>2
      <4> QED BY <2>2, <3>2, <4>1
    <3> QED BY <3>1, <3>2
  <2> QED BY <2>2, <2>3
<1> HIDE DEF r
<1>4. r = t
  BY <1>2, <1>3, SeqEqual DEF t
<1> QED BY <1>4 DEF r, p, t

\* The highest number of a log without gaps is its length.
LEMMA HighestIs ==
    ASSUME Len(log) \in Nat, log = Ident(Len(log))
    PROVE  Highest = Len(log)
<1> DEFINE n == Len(log)
           S == {0} \cup Elements(log)
<1>1. \A i \in 1 .. n : log[i] = i
  BY IdentIsSeq
<1>2. Elements(log) = 1 .. n
  BY <1>1 DEF Elements
<1>3. n \in S /\ \A y \in S : y \in Nat /\ y <= n
  BY <1>2
<1> HIDE DEF S
<1>4. Max(S) \in S /\ \A y \in S : Max(S) >= y
  BY <1>3 DEF Max
<1>5. Max(S) = n
  BY <1>3, <1>4
<1> QED BY <1>5 DEF S, Highest

\* The n-th line carries the number n, the writer that holds the lock is about
\* to write the next one, and the client has been given exactly the events up
\* to its cursor, which a log that can still be read holds.
LogInv ==
    /\ Len(log) \in Nat /\ log = Ident(Len(log))
    /\ cursor \in Nat /\ got = Ident(cursor) /\ (~ Unreadable => cursor <= Len(log))
    /\ next \in [Writers -> Nat]
    /\ \A w \in Writers : next[w] # 0 => holder = w /\ next[w] = Len(log) + 1
    /\ spoiled \in BOOLEAN /\ ending \in {"nothing", "part", "whole"}
    /\ ending = "whole" => Len(log) > 0

LEMMA InitLog == WaitInit => LogInv
<1> SUFFICES ASSUME WaitInit PROVE LogInv
  OBVIOUS
<1>1. Ident(0) = << >>
  BY DEF Ident
<1>2. log = << >> /\ got = << >> /\ cursor = 0 /\ next = [w \in Writers |-> 0] /\ Len(log) = 0
      /\ spoiled = FALSE /\ ending = "nothing"
  BY DEF WaitInit, LogInit
<1>3. log = Ident(Len(log)) /\ got = Ident(cursor) /\ Len(log) \in Nat /\ cursor \in Nat /\ cursor <= Len(log)
  BY <1>1, <1>2
<1>4. next \in [Writers -> Nat] /\ \A w \in Writers : next[w] = 0
  BY <1>2
<1> QED BY <1>2, <1>3, <1>4 DEF LogInv

\* Taking the last line away leaves a log without gaps.
LEMMA UnspoiledIs ==
    ASSUME LogInv
    PROVE  \E n \in 0 .. Len(log) : Unspoiled = Ident(n)
<1>1. CASE ending = "whole"
  <2>1. Len(log) - 1 \in 0 .. Len(log)
    BY <1>1 DEF LogInv
  <2>2. SubSeq(Ident(Len(log)), 1, Len(log) - 1) = Ident(Len(log) - 1)
    BY <2>1, IdentSubSeq DEF LogInv
  <2> QED BY <1>1, <2>1, <2>2 DEF LogInv, Unspoiled
<1>2. CASE ending # "whole"
  BY <1>2 DEF LogInv, Unspoiled
<1> QED BY <1>1, <1>2

\* The promise a step of the log keeps.
LogStep == [Promise!Log \/ Promise!Receive \/ Promise!Break]_(Promise!logVars)

\* A writer reads the number of the last line, and writes the next one; one
\* that dies in its line breaks the log, at once or for the next one.
LEMMA WriteKeeps ==
    ASSUME LogInv, NEW w \in Writers, Write(w) \/ DieWriting(w)
    PROVE  LogInv' /\ LogStep
<1> DEFINE Appends == /\ Unlock(w) /\ ending = "nothing" /\ log' = Append(log, next[w])
                      /\ ending' \in {"nothing", "whole"} /\ UNCHANGED <<spoiled, cursor, got>>
           Spoils == /\ Unlock(w) /\ log' = Unspoiled /\ spoiled' \in BOOLEAN
                     /\ (ending' = "nothing" /\ spoiled') \/ ending' = "part"
                     /\ UNCHANGED <<cursor, got>>
           Leaves0 == Unlock(w) /\ UNCHANGED <<log, spoiled, ending, cursor, got>>
<1>1. \A v \in Writers : v # w /\ holder \in {w, NoWriter} => next[v] = 0
  BY NoWriterAssumption DEF LogInv
<1>2. Unlock(w) => /\ \A v \in Writers : next'[v] = 0
                   /\ next' \in [Writers -> Nat]
  BY <1>1 DEF Unlock, LogInv
<1>3. CASE Reload(w)
  <2>1. Highest + 1 \in Nat /\ Highest + 1 = Len(log) + 1
    BY HighestIs DEF LogInv
  <2>2. \A v \in Writers : v # w => next[v] = 0
    BY <1>1, <1>3 DEF Reload
  <2>3. LogInv'
    BY <1>3, <2>1, <2>2 DEF Reload, LogInv, Unreadable
  <2>4. UNCHANGED Promise!logVars
    BY <1>3 DEF Reload, Promise!logVars, Unreadable
  <2> QED BY <2>3, <2>4 DEF LogStep
<1>4. CASE Leaves0
  <2>1. LogInv'
    BY <1>2, <1>4 DEF LogInv, Unreadable
  <2>2. UNCHANGED Promise!logVars
    BY <1>4 DEF Promise!logVars, Unreadable
  <2> QED BY <2>1, <2>2 DEF LogStep
<1>5. CASE Appends
  <2>1. next[w] = Len(log) + 1 /\ Len(log) \in Nat
    BY <1>5 DEF LogInv, Unlock
  <2>2. log' = Ident(Len(log) + 1) /\ log' = Append(log, Len(log) + 1)
    BY <1>5, <2>1, IdentAppend DEF LogInv
  <2>3. Len(log') = Len(log) + 1
    BY <2>1, <2>2, IdentIsSeq
  <2>4. Unreadable' = spoiled /\ Unreadable = spoiled
    BY <1>5 DEF Unreadable, LogInv
  <2>5. LogInv'
    BY <1>2, <1>5, <2>1, <2>2, <2>3, <2>4 DEF LogInv
  <2>6. CASE ~ spoiled
    <3>1. Promise!Log
      BY <1>5, <2>2, <2>4, <2>6 DEF Promise!Log
    <3> QED BY <2>5, <3>1 DEF LogStep
  <2>7. CASE spoiled
    <3>1. Promise!Break
      BY <1>5, <2>4, <2>7 DEF Promise!Break, LogInv
    <3> QED BY <2>5, <3>1 DEF LogStep
  <2> QED BY <2>6, <2>7
<1>6. CASE Spoils
  <2>1. Unreadable' = TRUE /\ ending' # "whole"
    BY <1>6 DEF Unreadable
  <2>2. PICK n \in 0 .. Len(log) : log' = Ident(n)
    BY <1>6, UnspoiledIs
  <2>3. n \in Nat /\ Len(log') = n
    BY <2>2, IdentIsSeq DEF LogInv
  <2>4. LogInv'
    BY <1>2, <1>6, <2>1, <2>2, <2>3 DEF LogInv
  <2>5. Promise!Break
    BY <1>6, <2>1 DEF Promise!Break
  <2> QED BY <2>4, <2>5 DEF LogStep
<1>7. AppendLine(w) => Appends \/ Spoils
  BY DEF AppendLine, LogInv
<1>8. DieWriting(w) => Leaves0 \/ Appends \/ Spoils
  BY DEF DieWriting, LogInv
<1> QED BY <1>3, <1>4, <1>5, <1>6, <1>7, <1>8 DEF Write

\* A reply carries the next events in order, and its last_seq is the number of
\* the last one in it, however it was truncated.
LEMMA TailKeeps ==
    ASSUME LogInv, TailEvents
    PROVE  LogInv' /\ Promise!Receive
<1>0. ~ Unreadable /\ UNCHANGED <<Unreadable, spoiled, ending>> /\ cursor \in 0 .. Len(log)
  BY DEF TailEvents, Unreadable, LogInv
<1>1. PICK n \in 0 .. Len(Unseen) : got' = got \o SubSeq(Unseen, 1, n) /\ cursor' = CursorAfter(n)
  BY DEF TailEvents
<1>2. /\ Unseen \in Seq(Nat) /\ Len(Unseen) = Len(log) - cursor
      /\ \A i \in 1 .. Len(log) - cursor : Unseen[i] = cursor + i
  BY <1>0, BeyondIs DEF LogInv
<1>3. cursor \in Nat /\ Len(log) \in Nat /\ cursor <= Len(log) /\ n \in Nat /\ cursor + n <= Len(log)
  BY <1>0, <1>2 DEF LogInv
<1>4. cursor' = cursor + n
  <2>1. Highest = Len(log)
    BY HighestIs DEF LogInv
  <2>2. CursorAfter(n) = IF n = Len(log) - cursor THEN Len(log) ELSE IF n = 0 THEN cursor ELSE cursor + n
    BY <1>1, <1>2, <1>3, <2>1 DEF CursorAfter
  <2>3. cursor' = CursorAfter(n)
    BY <1>1
  <2>4. CASE n = Len(log) - cursor
    BY <1>3, <2>2, <2>3, <2>4
  <2>5. CASE n # Len(log) - cursor
    BY <1>3, <2>2, <2>3, <2>5
  <2> QED BY <2>4, <2>5
<1> DEFINE s == SubSeq(Unseen, 1, n)
<1>5. s \in Seq(Nat) /\ Len(s) = n /\ \A i \in 1 .. n : s[i] = cursor + i
  BY <1>1, <1>2, <1>3
<1>6. got' = Ident(cursor + n)
  <2>1. got' = Ident(cursor) \o s
    BY <1>1 DEF LogInv
  <2> HIDE DEF s
  <2> QED BY <1>3, <1>5, <2>1, IdentConcat
<1>7. LogInv'
  BY <1>0, <1>3, <1>4, <1>6 DEF TailEvents, LogInv
<1>8. got' = SubSeq(log, 1, cursor + n)
  BY <1>3, <1>6, IdentSubSeq DEF LogInv
<1>9. Len(got) = cursor
  BY <1>3, IdentIsSeq DEF LogInv
<1>10. Promise!Receive
  <2>1. cursor + n \in Len(got) .. Len(log) /\ UNCHANGED log
    BY <1>3, <1>9 DEF TailEvents
  <2> QED BY <1>0, <1>8, <2>1 DEF Promise!Receive
<1> QED BY <1>7, <1>10

LEMMA KeepsLog ==
    ASSUME LogInv, [WaitNext]_clientVars
    PROVE  LogInv' /\ LogStep
<1>1. CASE UNCHANGED logVars
  BY <1>1 DEF logVars, LogInv, LogStep, Promise!logVars, Unreadable
<1>2. \/ \E w \in Writers : Write(w) \/ DieWriting(w)
      \/ TailEvents \/ UNCHANGED logVars
  BY DEF WaitNext, clientVars, Prints, TailOutput, StatOutput, ReadOutputSince
<1> QED BY <1>1, <1>2, WriteKeeps, TailKeeps DEF LogStep

\* The event log refines the ordered log, for any number of writers in any
\* number of processes and any truncation of the replies: no event is lost,
\* repeated or reordered and the numbers have no gaps until a line is spoiled
\* by a writer that died in it, or in the one before; from then on no reader is
\* given anything.
THEOREM LogIsOrdered == WaitSpec => ImplementsOrderedLog
<1>1. WaitInit => Promise!LogInit
  BY DEF WaitInit, LogInit, Promise!LogInit, Unreadable
<1> QED BY <1>1, InitLog, KeepsLog, PTL DEF WaitSpec, ImplementsOrderedLog, Promise!LogSpec, LogStep

-----------------------------------------------------------------------------
(* TerminalWait: types                                                     *)

\* Every line has been counted, and the one about to be written as well.
Counted ==
    /\ written \in 0 .. MaxEvents /\ Len(log) <= written /\ cursor <= written
    /\ \A w \in Writers : next[w] # 0 => Len(log) < written
    /\ holder \in Writers \cup {NoWriter}

\* Only bytes that are in the file are shown.
Printed ==
    /\ size \in 0 .. MaxOutput /\ shown \subseteq 0 .. size - 1 /\ split \subseteq 0 .. size - 1
    /\ tailed \in {"no", "reading", "yes"}

WaiterTypes ==
    /\ client \in {"log", "output", "wait"}
    /\ jobStatus \in Open \cup {"succeeded", "failed", "stopped"}
    /\ result \in {"none", "ok", "fail", "stopped"}
    /\ request \in Requests /\ publishing \in BOOLEAN /\ died \in BOOLEAN /\ late \in BOOLEAN
    /\ step \in {"poll", "meta", "reread", "observe", "inspect", "over"}
    /\ meta \in [status : Open \cup {"succeeded", "failed", "stopped"}, request : Requests]
    /\ handoff \in BOOLEAN
    /\ exit \in {"none", "success", "failure", "deadline", "needs_input", "error"}

LEMMA InitTypes == WaitInit => Counted /\ Printed /\ WaiterTypes
<1> SUFFICES ASSUME WaitInit PROVE Counted /\ Printed /\ WaiterTypes
  OBVIOUS
<1>1. Counted
  BY LogBoundsAssumption DEF WaitInit, LogInit, Counted
<1>2. Printed
  BY LogBoundsAssumption DEF WaitInit, LogInit, Printed
<1>3. WaiterTypes
  BY DEF WaitInit, WaiterTypes, Open, Requests
<1> QED BY <1>1, <1>2, <1>3

LEMMA KeepsCounted == ASSUME LogInv, LogInv', Counted, [WaitNext]_clientVars PROVE Counted'
<1>1. ASSUME NEW w \in Writers, Reload(w) PROVE Counted'
  BY <1>1, LogBoundsAssumption DEF Reload, Counted, LogInv
<1>2. ASSUME NEW w \in Writers, AppendLine(w) \/ DieWriting(w) PROVE Counted'
  <2>1. next[w] = Len(log) + 1 /\ next[w] # 0 /\ Len(log) \in Nat /\ Len(log) < written
    BY <1>2 DEF AppendLine, DieWriting, Unlock, LogInv, Counted
  <2>2. log' = log \/ log' = Unspoiled \/ log' = Append(log, next[w])
    BY <1>2 DEF AppendLine, DieWriting
  <2>3. Len(log') <= written
    <3>1. CASE log' = log
      BY <2>1, <3>1 DEF Counted
    <3>2. CASE log' = Append(log, next[w])
      <4>1. log' = Ident(Len(log) + 1)
        BY <2>1, <3>2, IdentAppend DEF LogInv
      <4>2. Len(log') = Len(log) + 1
        BY <2>1, <4>1, IdentIsSeq
      <4> QED BY <2>1, <4>2 DEF Counted
    <3>3. CASE log' = Unspoiled
      <4>1. PICK n \in 0 .. Len(log) : log' = Ident(n)
        BY <3>3, UnspoiledIs
      <4>2. Len(log') = n
        BY <2>1, <4>1, IdentIsSeq
      <4> QED BY <2>1, <4>1, <4>2 DEF Counted
    <3> QED BY <2>2, <3>1, <3>2, <3>3
  <2>4. \A v \in Writers : next'[v] = 0
    BY <1>2, <2>1, NoWriterAssumption DEF AppendLine, DieWriting, Unlock, LogInv
  <2>5. UNCHANGED <<written, cursor>> /\ holder' = NoWriter
    BY <1>2 DEF AppendLine, DieWriting, Unlock
  <2> QED BY <2>3, <2>4, <2>5 DEF Counted
<1>3. CASE TailEvents
  <2>1. UNCHANGED <<log, holder, next, written>> /\ ~ Unreadable'
    BY <1>3 DEF TailEvents, Unreadable
  <2>2. cursor' <= Len(log)
    BY <2>1 DEF LogInv
  <2> QED BY <2>1, <2>2 DEF Counted, LogInv
<1>4. CASE UNCHANGED <<log, holder, next, written, cursor>>
  BY <1>4 DEF Counted
<1> QED
  BY <1>1, <1>2, <1>3, <1>4
     DEF WaitNext, Write, clientVars, logVars, Prints, TailOutput, StatOutput, ReadOutputSince

LEMMA KeepsPrinted == ASSUME OutputInv, Printed, [WaitNext]_clientVars PROVE Printed'
<1>1. CASE Prints
  BY <1>1, LogBoundsAssumption DEF Prints, Printed
<1>2. CASE TailOutput \/ StatOutput
  BY <1>2 DEF TailOutput, StatOutput, Printed, Decoded, Replaced
<1>3. CASE ReadOutputSince
  <2> DEFINE start == CharacterStart(offset)
  <2>1. PICK limit \in 1 .. MaxOutput :
          LET cut == Min({limit, size - start})
              whole == IF ~ IsLead(start + cut) /\ start + cut < size THEN cut + 1 ELSE cut
          IN  /\ shown' = shown \cup Decoded(start, start + whole)
              /\ split' = split \cup Replaced(start, start + whole)
    BY <1>3 DEF ReadOutputSince
  <2> DEFINE cut == Min({limit, size - start})
             whole == IF ~ IsLead(start + cut) /\ start + cut < size THEN cut + 1 ELSE cut
  <2>2. offset \in 0 .. size /\ size \in Nat /\ UNCHANGED <<size, tailed>>
    BY <1>3, LogBoundsAssumption DEF OutputInv, ReadOutputSince
  <2>3. start \in 0 .. size
    BY <2>2 DEF CharacterStart
  <2>4. cut \in Int /\ cut <= size - start
    <3>1. limit \in Int /\ size - start \in Int
      BY <2>2, <2>3, LogBoundsAssumption
    <3> HIDE DEF start
    <3>2. cut \in {limit, size - start} /\ cut <= size - start
      BY <3>1, MinOfTwo
    <3> QED BY <3>1, <3>2
  <2>5. /\ shown' = shown \cup Decoded(start, start + whole)
        /\ split' = split \cup Replaced(start, start + whole)
    BY <2>1
  <2> HIDE DEF start, cut
  <2>6. whole \in Int /\ whole <= size - start
    BY <2>2, <2>3, <2>4
  <2> HIDE DEF whole
  <2>7. start .. start + whole - 1 \subseteq 0 .. size - 1
    BY <2>2, <2>3, <2>6
  <2>8. Decoded(start, start + whole) \cup Replaced(start, start + whole) \subseteq 0 .. size - 1
    BY <2>2, <2>3, <2>6, <2>7, DecodedIs
  <2>9. shown \cup split \subseteq 0 .. size - 1
    BY DEF Printed
  <2> QED BY <2>2, <2>5, <2>8, <2>9 DEF Printed
<1>4. CASE UNCHANGED outputVars
  BY <1>4 DEF outputVars, Printed
<1> QED
  BY <1>1, <1>2, <1>3, <1>4
     DEF WaitNext, clientVars, Watched, Write, Reload, AppendLine, DieWriting, Unlock, TailEvents

LEMMA KeepsWaiterTypes == ASSUME WaiterTypes, [WaitNext]_clientVars PROVE WaiterTypes'
<1> USE DEF WaiterTypes, Open, Requests, waitVars, jobVars, Watched
<1>1. ASSUME UNCHANGED <<client, jobVars, waitVars>> PROVE WaiterTypes'
  BY <1>1
<1>2. CASE /\ Watched /\ JobStep
           /\ handoff' = (handoff /\ request' = "decided")
           /\ UNCHANGED <<logVars, late, step, meta, exit>>
  <2>1. /\ jobStatus' \in Open \cup {"succeeded", "failed", "stopped"}
        /\ result' \in {"none", "ok", "fail", "stopped"} /\ request' \in Requests
    BY <1>2 DEF JobStep, Pauses, Decides, Resumes, WritesResult, WritesStatus, PublisherDies,
                StopWritesStatus, StopWritesResult
  <2>2. publishing' \in BOOLEAN /\ died' \in BOOLEAN
    BY <1>2, Zenon DEF JobStep, Pauses, Decides, Resumes, WritesResult, WritesStatus, PublisherDies,
                StopWritesStatus, StopWritesResult
  <2>3. handoff' \in BOOLEAN
    BY <1>2
  <2> QED BY <1>2, <2>1, <2>2, <2>3
<1>3. CASE Watched /\ Waits /\ UNCHANGED <<logVars, jobVars>>
  <2> USE DEF Moves, Leaves
  <2>1. CASE Poll
    <3>1. handoff' \in BOOLEAN
      BY <2>1 DEF Poll
    <3> QED BY <1>3, <2>1, <3>1 DEF Poll
  <2>2. CASE ReadsMeta
    BY <1>3, <2>2 DEF ReadsMeta, ReadMeta
  <2>3. CASE ReadsResult
    BY <1>3, <2>3 DEF ReadsResult, Verdict
  <2>4. CASE Observes
    BY <1>3, <2>4 DEF Observes, ReadMeta
  <2>5. CASE Inspects
    BY <1>3, <2>5 DEF Inspects
  <2> QED BY <1>3, <2>1, <2>2, <2>3, <2>4, <2>5 DEF Waits
<1>4. CASE Watched /\ DeadlinePasses /\ UNCHANGED <<logVars, jobVars>>
  BY <1>4 DEF DeadlinePasses
<1> QED
  BY <1>1, <1>2, <1>3, <1>4 DEF WaitNext, clientVars

\* The log, its readers and the waiter keep their shape for any writers.
THEOREM WaitTypeCorrect == WaitSpec => []WaitTypeOK
<1>1. LogInv /\ OutputInv /\ Counted /\ Printed /\ WaiterTypes => WaitTypeOK
  <2> SUFFICES ASSUME LogInv, OutputInv, Counted, Printed, WaiterTypes PROVE WaitTypeOK
    OBVIOUS
  <2>1. ASSUME NEW n \in 0 .. MaxEvents PROVE Ident(n) \in Seq(1 .. MaxEvents)
    BY LogBoundsAssumption DEF Ident
  <2>2. Len(log) \in 0 .. MaxEvents /\ cursor \in 0 .. MaxEvents
    BY LogBoundsAssumption DEF LogInv, Counted
  <2>3. log \in Seq(1 .. MaxEvents) /\ got \in Seq(1 .. MaxEvents)
    BY <2>1, <2>2 DEF LogInv
  <2>4. next \in [Writers -> 0 .. MaxEvents]
    BY LogBoundsAssumption DEF LogInv, Counted
  <2>5. offset \in {NoOffset} \cup 0 .. MaxOutput /\ shown \cup split \subseteq 0 .. MaxOutput - 1
    BY LogBoundsAssumption DEF OutputInv, Printed
  <2>6. LogTypeOK
    BY <2>2, <2>3, <2>4, <2>5 DEF LogTypeOK, LogInv, Counted, Printed
  <2> QED BY <2>6 DEF WaitTypeOK, WaiterTypes
<1>2. LogInv /\ LogInv' /\ Counted /\ [WaitNext]_clientVars => Counted'
  BY KeepsCounted
<1>3. OutputInv /\ Printed /\ [WaitNext]_clientVars => Printed'
  BY KeepsPrinted
<1>4. WaiterTypes /\ [WaitNext]_clientVars => WaiterTypes'
  BY KeepsWaiterTypes
<1>5. LogInv /\ [WaitNext]_clientVars => LogInv'
  BY KeepsLog
<1> QED
  BY <1>1, <1>2, <1>3, <1>4, <1>5, InitTypes, InitLog, InitOutput, KeepsOutput, PTL DEF WaitSpec
=============================================================================
