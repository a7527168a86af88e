------------------------------ MODULE GuiSlot ------------------------------
(***************************************************************************)
(* Who may drive the browsers: the lock file of the host, the session slot *)
(* of ChatGptSessionManager and the "generating" event of each process     *)
(* (runner.py, gui_lifecycle.py).  What a turn does in a browser is in     *)
(* GuiTurn; here it submits or not and ends.                               *)
(***************************************************************************)
EXTENDS Naturals

CONSTANTS
    Turns,          \* chatgpt_pro jobs
    Procs,          \* MCP server processes of the host
    Proc,           \* turn -> the process it runs in
    ChainLength,    \* the fallback chain is 1 .. ChainLength
    NoTurn,
    MaxCrashes

ASSUME ProcAssumption == Proc \in [Turns -> Procs] /\ NoTurn \notin Turns
ASSUME BoundsAssumption == ChainLength \in Nat \ {0} /\ MaxCrashes \in Nat

VARIABLES
    file,       \* the lock file: who created it and what it says
    legacy,     \* the lock file where older versions put it, under the state root
    session,    \* process -> the turn that owns the live session
    generating, \* process -> _chatgpt_turn_generating
    doing,      \* what each turn does next
    browser,    \* its place in the fallback chain
    crashes

process == <<session, generating>>
progress == <<doing, browser>>
world == <<legacy, crashes>>
slotVars == <<file, process, progress, world>>

NoFile == [by |-> NoTurn, says |-> "nothing"]

InBrowser == {"browse", "poll"}
Over == {"done", "refused", "dead"}
BeforeLock == {"look", "unlink", "create"}

Goto(t, step) == doing' = [doing EXCEPT ![t] = step]
Slot(t) == session[Proc[t]]
\* Mutant: the slot is cleared whoever owns it.
MutRetired(t) == [session EXCEPT ![Proc[t]] = NoTurn]

Retired(t) == [session EXCEPT ![Proc[t]] = IF @ = t THEN NoTurn ELSE @]
Working(t) == t \in Turns /\ doing[t] \notin BeforeLock \cup Over

SlotTypeOK ==
    /\ file \in [by : Turns \cup {NoTurn}, says : {"nothing", "fresh", "stale"}]
    /\ legacy \in {"none", "fresh"}
    /\ session \in [Procs -> Turns \cup {NoTurn}]
    /\ generating \in [Procs -> BOOLEAN]
    /\ doing \in [Turns -> BeforeLock \cup {"write", "next", "leave", "after", "release"}
                        \cup InBrowser \cup Over]
    /\ browser \in [Turns -> 1 .. ChainLength]
    /\ crashes \in 0 .. MaxCrashes

SlotInit ==
    /\ file = NoFile
    /\ legacy \in {"none", "fresh"}
    /\ session = [p \in Procs |-> NoTurn]
    /\ generating = [p \in Procs |-> FALSE]
    /\ doing = [t \in Turns |-> "look"]
    /\ browser = [t \in Turns |-> 1]
    /\ crashes = 0

-----------------------------------------------------------------------------
(* _acquire_chatgpt_lock *)

\* Mutant: only a file that cannot be parsed is removed.
MutRemovable == file # NoFile /\ file.says = "nothing"

\* A file that cannot be parsed is removed like a stale one, also where its
\* creator is about to write it.
Removable == file # NoFile /\ file.says # "fresh"

\* A legacy lock turns the job away; one that has aged, or cannot be read,
\* counts as none.
LookAtLock(t) ==
    /\ doing[t] = "look"
    /\ Goto(t, IF legacy = "fresh" THEN "refused" ELSE IF Removable THEN "unlink" ELSE "create")
    /\ UNCHANGED <<file, process, browser, world>>

UnlinkLock(t) ==
    /\ doing[t] = "unlink"
    /\ file' = NoFile
    /\ Goto(t, "create")
    /\ UNCHANGED <<process, browser, world>>

\* O_CREAT | O_EXCL
CreateLock(t) ==
    /\ doing[t] = "create"
    /\ IF file = NoFile
       THEN file' = [by |-> t, says |-> "nothing"] /\ Goto(t, "write")
       ELSE Goto(t, "refused") /\ UNCHANGED file
    /\ UNCHANGED <<process, browser, world>>

\* Into the file this turn created, whether it is still at the path or not.
WriteLock(t) ==
    /\ doing[t] = "write"
    /\ file' = IF file.by = t THEN [file EXCEPT !.says = "fresh"] ELSE file
    /\ Goto(t, "next")
    /\ UNCHANGED <<process, browser, world>>

\* A caller that found the lock taken may submit the job again.
TryAgain(t) ==
    /\ doing[t] = "refused" /\ \A u \in Turns : ~Working(u)
    /\ Goto(t, "look")
    /\ UNCHANGED <<file, process, browser, world>>

-----------------------------------------------------------------------------
(* run_gui_request *)

\* ChatGptSessionManager.acquire: one live session, retired ones do not count.
SlotFree(t) == Slot(t) \in {t, NoTurn}

\* The deadline and a stop may end the chain before any browser.
TakeSlot(t) ==
    /\ doing[t] = "next"
    /\ \/ /\ ~generating[Proc[t]] /\ SlotFree(t)
          /\ session' = [session EXCEPT ![Proc[t]] = t]
          /\ Goto(t, "browse")
       \/ Goto(t, "release") /\ UNCHANGED session
    /\ UNCHANGED <<file, generating, browser, world>>

Submit(t) ==
    /\ doing[t] = "browse"
    /\ generating' = [generating EXCEPT ![Proc[t]] = TRUE]
    /\ Goto(t, "poll")
    /\ UNCHANGED <<file, session, browser, world>>

\* A candidate ends.  Where it retires the session itself (a stop, an
\* exception, a window it lost) the slot is free before the cleanup ran.
EndCandidate(t) ==
    /\ doing[t] \in InBrowser
    /\ session' \in {session, Retired(t)}
    /\ Goto(t, "leave")
    /\ UNCHANGED <<file, generating, browser, world>>

\* finally: the event is cleared, whoever set it.
LeaveBrowser(t) ==
    /\ doing[t] = "leave"
    /\ generating' = [generating EXCEPT ![Proc[t]] = FALSE]
    /\ Goto(t, "after")
    /\ UNCHANGED <<file, session, browser, world>>

AfterCandidate(t) ==
    /\ doing[t] = "after"
    /\ session' = Retired(t)
    /\ \/ /\ browser[t] < ChainLength
          /\ browser' = [browser EXCEPT ![t] = @ + 1] /\ Goto(t, "next")
       \/ Goto(t, "release") /\ UNCHANGED browser
    /\ UNCHANGED <<file, generating, world>>

\* Mutant: the lock file is left to age.
MutRelease(t) ==
    /\ doing[t] = "release"
    /\ session' = Retired(t)
    /\ Goto(t, "done")
    /\ UNCHANGED <<file, generating, browser, world>>

\* finally: the session is retired and the file at the path goes, whose it is
\* is not looked at.
Release(t) ==
    /\ doing[t] = "release"
    /\ session' = Retired(t)
    /\ file' = NoFile
    /\ Goto(t, "done")
    /\ UNCHANGED <<generating, browser, world>>

-----------------------------------------------------------------------------
\* 900 seconds, which a turn of up to 1800 may well take.
LockAges ==
    /\ file.says = "fresh"
    /\ file' = [file EXCEPT !.says = "stale"]
    /\ UNCHANGED <<process, progress, world>>

\* An older version's job ends, or its lock ages.
LegacyEnds ==
    /\ legacy = "fresh"
    /\ legacy' = "none"
    /\ UNCHANGED <<file, process, progress, crashes>>

Crash(p) ==
    /\ crashes < MaxCrashes
    /\ crashes' = crashes + 1
    /\ doing' = [t \in Turns |-> IF Proc[t] = p /\ doing[t] \notin Over THEN "dead" ELSE doing[t]]
    /\ session' = [session EXCEPT ![p] = NoTurn]
    /\ generating' = [generating EXCEPT ![p] = FALSE]
    /\ UNCHANGED <<file, legacy, browser>>

TurnStep(t) ==
    \/ LookAtLock(t) \/ UnlinkLock(t) \/ CreateLock(t) \/ WriteLock(t) \/ TakeSlot(t)
    \/ Submit(t) \/ EndCandidate(t) \/ LeaveBrowser(t) \/ AfterCandidate(t) \/ Release(t)

SlotNext ==
    \/ \E t \in Turns : TurnStep(t) \/ TryAgain(t)
    \/ LockAges \/ LegacyEnds
    \/ \E p \in Procs : Crash(p)

SlotSpec == SlotInit /\ [][SlotNext]_slotVars

\* Turns have deadlines, time passes, and callers come back.
FairSlotSpec ==
    /\ SlotSpec
    /\ \A t \in Turns : WF_slotVars(TurnStep(t)) /\ WF_slotVars(EndCandidate(t))
                           /\ SF_slotVars(TryAgain(t))
    /\ WF_slotVars(LockAges) /\ WF_slotVars(LegacyEnds)

-----------------------------------------------------------------------------
(* Properties *)

\* Within a process the session slot keeps turns apart even where the lock
\* file let two of them in.
OneTurnPerProcess ==
    \A t, u \in Turns :
        t # u /\ Proc[t] = Proc[u] => ~(doing[t] \in InBrowser /\ doing[u] \in InBrowser)

\* Whoever waits for an answer still owns the session it submitted from.
PollerOwnsSession == \A t \in Turns : doing[t] \in InBrowser => Slot(t) = t

\* When no turn is at work any more, the lock file is gone unless a process
\* died with it, and no event or session is left to turn the next one away.
NothingLeftBehind ==
    (\A t \in Turns : ~Working(t)) =>
        /\ file = NoFile \/ doing[file.by] = "dead"
        /\ \A p \in Procs : session[p] = NoTurn /\ ~generating[p]

\* A lock whose owner died does not turn every later job away.
LockRecovers ==
    \A t \in Turns : doing[t] = "refused" ~> doing[t] \in {"next", "dead"}

\* Concurrent GUI turns are excluded host-wide.
ExcludedHostWide ==
    \A t, u \in Turns : t # u => ~(doing[t] \in InBrowser /\ doing[u] \in InBrowser)
=============================================================================
