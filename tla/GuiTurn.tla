------------------------------ MODULE GuiTurn ------------------------------
(***************************************************************************)
(* What one chatgpt_pro job does in the windows of the user's browsers     *)
(* (runner.py from run_gui_job down, gui_lifecycle.py); GuiSlot has the    *)
(* lock and the session slot that let it in.                               *)
(*                                                                         *)
(* The user of the machine types into the same composers and closes the    *)
(* same windows, and the driver may report a click that landed as failed,  *)
(* or the reverse.  Every look at a window is a step of its own, so that   *)
(* the user may act between any two.                                       *)
(***************************************************************************)
EXTENDS Naturals, FiniteSets

CONSTANTS
    LastBrowser,    \* the fallback chain is 1 .. LastBrowser, the last is Safari
    Temporary,      \* browsers where the user's window shows a temporary chat
    MaxMishaps      \* bound on what the user does and on misreported clicks

Browsers == 1 .. LastBrowser
Safari == LastBrowser

\* In each browser the user's ChatGPT window and the one opened for the turn.
Windows == Browsers \X {"user's", "turn's"}

ASSUME ChainAssumption ==
    LastBrowser \in Nat \ {0} /\ Temporary \subseteq Browsers /\ MaxMishaps \in Nat

VARIABLES
    attachments, \* the request has files to upload
    status,     \* meta.status
    cancel,     \* the cancel event, and when in the turn it was set
    result,     \* what run_gui_request returned
    stages,     \* the terminal stage in the TurnLifecycle record
    pc,         \* what the turn does next
    at,         \* its browser, window and progress there
    composer,   \* window -> what its composer holds
    older,      \* the user's windows show the answer to an earlier turn
    reply,      \* what the turn's window shows between its own markers
    sent,       \* what the Send presses put to ChatGPT, by browser
    acked,      \* the browsers whose Send press was reported as done
    mishaps

job == <<attachments, status, cancel, result, stages>>
turn == <<pc, at>>
site == <<composer, older, reply, sent, acked>>
vars == <<job, turn, site, mishaps>>

-----------------------------------------------------------------------------
\* A composer holds the prompt or a part of it, or what the user typed: into
\* an idle composer ("draft"), into one the turn is filling ("mixed"), or
\* after the turn's last look ("slipped").
Typed == {"draft", "mixed", "slipped"}
Texts == {"prompt", "part"} \cup Typed

\* The prompt asks for an answer between two markers of its own.  Its echo
\* shows them around a placeholder, or around what the user typed there.
Replies == {"absent", "echo", "altered echo", "answer"}

Filling == {"write", "verify", "presubmit"}
Committed == {"gate", "click"}
AtBrowser == {"open", "inspect", "poll"} \cup Filling \cup Committed

Start(b) == [browser |-> b, window |-> <<b, "user's">>, fresh |-> FALSE, way |-> 0, seen |-> 0]
Composer == composer[at.window]
Fill(text) == composer' = [composer EXCEPT ![at.window] = text]
\* Mutant: any window that is there will do.
MutComposerFree == Composer # "closed"

ComposerFree == Composer = "empty"
Mishap == mishaps < MaxMishaps /\ mishaps' = mishaps + 1
Charged(c) == IF c THEN Mishap ELSE UNCHANGED mishaps

TypeOK ==
    /\ attachments \in BOOLEAN
    /\ status \in {"running", "stopped", "succeeded", "failed"}
    /\ cancel \in {"no", "early", "late"}
    /\ result \in {"none", "ok", "cancelled", "failed", "timed out"}
    /\ stages \in {"open", "complete", "cancelled", "failed"}
    /\ pc \in {"start", "request", "next", "leave", "after", "publish", "done"} \cup AtBrowser
    /\ at \in [browser : Browsers, window : Windows, fresh : BOOLEAN,
               way : 0 .. 3, seen : 0 .. 1]
    /\ composer \in [Windows -> Texts \cup {"closed", "empty"}]
    /\ older \in BOOLEAN
    /\ reply \in Replies
    /\ sent \subseteq Browsers \X Texts
    /\ acked \subseteq Browsers
    /\ mishaps \in 0 .. MaxMishaps

\* A stop may have come before the worker thread looks.
Init ==
    /\ attachments \in BOOLEAN
    /\ status \in {"running", "stopped"}
    /\ cancel = "no" /\ result = "none" /\ stages = "open"
    /\ pc = "start" /\ at = Start(1)
    /\ \E text \in {"empty", "draft"} :
        composer = [w \in Windows |-> IF w[2] = "user's" THEN text ELSE "closed"]
    /\ older \in BOOLEAN
    /\ reply = "absent" /\ sent = {} /\ acked = {}
    /\ mishaps = 0

-----------------------------------------------------------------------------
(* run_gui_job and run_gui_request up to the first browser *)

\* The worker thread does nothing for a job that is over by then.
StartWork ==
    /\ pc = "start"
    /\ pc' = IF status = "running" THEN "request" ELSE "done"
    /\ UNCHANGED <<job, at, site, mishaps>>

\* Unusable context, a stop that came first, no lock.
Begin ==
    /\ pc = "request"
    /\ \/ pc' = "publish" /\ result' = IF cancel # "no" THEN "cancelled" ELSE "failed"
       \/ cancel = "no" /\ pc' = "next" /\ UNCHANGED result
    /\ UNCHANGED <<attachments, status, cancel, stages, at, site, mishaps>>

\* The chain ends for a stop, the deadline, or a slot that is not free.
NextBrowser ==
    /\ pc = "next"
    /\ \/ /\ result' = IF cancel # "no" THEN "cancelled" ELSE "failed"
          /\ pc' = "publish"
       \/ cancel = "no" /\ pc' = "open" /\ UNCHANGED result
    /\ UNCHANGED <<attachments, status, cancel, stages, at, site, mishaps>>

\* TurnLifecycle.enter: the record is shared by all browsers and its first
\* terminal stage stays.
Record(stage) == stages' = IF stages = "open" THEN stage ELSE stages

\* The candidate is over; its finally comes next.
Give(what) ==
    /\ result' = what
    /\ Record(CASE what = "ok" -> "complete" [] what = "cancelled" -> what [] OTHER -> "failed")
    /\ pc' = "leave"
    /\ at' = [at EXCEPT !.way = 0, !.seen = 0]

Fails == Give("failed") /\ UNCHANGED <<attachments, status, cancel, site, mishaps>>

\* Any call of the driver may raise.
DriverRaises == pc \in AtBrowser /\ Fails

\* The browser does not come up.
AppMissing == pc = "open" /\ cancel = "no" /\ Fails

\* A challenge, sign-in, a time limit, or no mark of a temporary chat.
PageUnusable == pc = "inspect" /\ Fails

\* The picker does not offer or does not confirm the model or the effort.
ModelUnconfirmed == pc = "inspect" /\ cancel = "no" /\ Fails

\* Files are never dropped silently: with or without an upload route the
\* turn ends here.
UploadRefused == pc = "inspect" /\ ComposerFree /\ attachments /\ Fails

SendMissing == pc = "click" /\ Fails

\* _check_cancelled, before the steps that touch the browser.
NoticeCancel ==
    /\ pc \in {"open", "inspect", "gate"} \/ (pc = "write" /\ at.way = 0)
    /\ cancel # "no"
    /\ Give("cancelled")
    /\ UNCHANGED <<attachments, status, cancel, site, mishaps>>

\* Mutant: the cancel event is not looked at again.
MutProceed(step) == pc' = step /\ UNCHANGED <<result, stages, at>>

Proceed(step) == cancel = "no" /\ pc' = step /\ UNCHANGED <<result, stages, at>>

-----------------------------------------------------------------------------
(* _run_chatgpt_browser_candidate *)

\* A window with an empty composer and the mark of a temporary chat counts as
\* fresh, whoever opened it; Safari gets none.
Fresh(w, windows) ==
    /\ at.browser # Safari /\ windows[w] = "empty"
    /\ w[2] = "user's" => at.browser \in Temporary

\* Else any window that shows ChatGPT.
Existing(w, windows) == windows[w] # "closed"

Asked == [composer EXCEPT ![<<at.browser, "turn's">>] = "empty"]

Open ==
    /\ pc = "open" /\ cancel = "no"
    /\ \E windows \in {composer, Asked}, w \in {at.browser} \X {"user's", "turn's"} :
        /\ composer' = windows
        /\ \/ Fresh(w, windows) /\ at' = [at EXCEPT !.window = w, !.fresh = TRUE]
           \/ Existing(w, windows) /\ at' = [at EXCEPT !.window = w, !.fresh = FALSE]
    /\ pc' = "inspect"
    /\ UNCHANGED <<job, older, reply, sent, acked, mishaps>>

\* The owned window is still there.
Owned == Composer # "closed"

\* A draft in the composer is never overwritten.
Inspect ==
    /\ pc = "inspect"
    /\ \/ ComposerFree /\ ~attachments /\ Proceed("write")
       \/ ~ComposerFree /\ cancel = "no" /\ Give("failed")
    /\ UNCHANGED <<attachments, status, cancel, site, mishaps>>

\* What each way of writing leaves when it works: set_value replaces the text,
\* a paste adds to it, typing starts with select-all, and Safari's insertion
\* through the page only goes into an empty composer.
SetValue == "prompt"
Paste == IF Composer = "empty" THEN "prompt" ELSE "part"
TypeOver == "prompt"
PageInsert == IF Composer = "empty" THEN "prompt" ELSE Composer

Written ==
    CASE at.way = 0 -> SetValue
      [] at.way = 1 -> Paste
      [] at.way = 2 -> IF at.browser = Safari THEN PageInsert ELSE TypeOver

\* _chatgpt_clear_composer: whatever is in there is taken for the turn's own.
Clear == IF Composer \in Texts THEN Fill("empty") ELSE UNCHANGED composer

NotDelivered == Clear /\ Give("failed")

\* _chatgpt_deliver_prompt and _chatgpt_page_insert_prompt: the driver accepts
\* a way, with its full effect, a part of it or none.
Write ==
    /\ pc = "write" /\ Owned /\ at.way < 3
    /\ at.way = 0 => cancel = "no"
    /\ Fill(Written) \/ Fill("part") \/ UNCHANGED composer
    /\ at' = [at EXCEPT !.way = @ + 1]
    /\ pc' = "verify"
    /\ UNCHANGED <<job, older, reply, sent, acked, mishaps>>

WriteRejected ==
    /\ pc = "write"
    /\ at.way = 0 => cancel = "no"
    /\ IF at.way = 0 \/ (at.way = 1 /\ at.browser = Safari)
       THEN at' = [at EXCEPT !.way = @ + 1] /\ UNCHANGED <<pc, composer, result, stages>>
       ELSE NotDelivered
    /\ UNCHANGED <<attachments, status, cancel, older, reply, sent, acked, mishaps>>

\* verify_paste.  A set_value that failed is cleaned up before the paste; a
\* paste or typing only goes on over an empty composer.
Verify ==
    /\ pc = "verify"
    /\ \/ /\ Composer = "prompt" /\ pc' = "presubmit"
          /\ UNCHANGED <<composer, result, stages, at>>
       \/ /\ Composer # "prompt"
          /\ at.way = 1 \/ (at.way = 2 /\ Composer = "empty")
          /\ Clear /\ pc' = "write" /\ UNCHANGED <<result, stages, at>>
       \/ /\ Composer # "prompt"
          /\ at.way = 3 \/ (at.way = 2 /\ Composer # "empty")
          /\ NotDelivered
    /\ UNCHANGED <<attachments, status, cancel, older, reply, sent, acked, mishaps>>

\* Mutant: something in the composer is enough.
MutExact == Composer # "empty"

\* A fresh snapshot right before Send must hold exactly the prompt.
Exact == Composer = "prompt"

Presubmit ==
    /\ pc = "presubmit"
    /\ IF Exact THEN pc' = "gate" /\ UNCHANGED <<composer, result, stages, at>>
                ELSE NotDelivered
    /\ UNCHANGED <<attachments, status, cancel, older, reply, sent, acked, mishaps>>

\* No stop arrived, and the window is still there or cannot be looked for.
Gate ==
    /\ pc = "gate"
    /\ \/ Proceed("click")
       \/ ~Owned /\ Give("failed")
    /\ UNCHANGED <<attachments, status, cancel, site, mishaps>>

\* What the page shows of the text that was sent.  A prompt that the user
\* went on typing in still has the markers, if he left them there.
Echoes(text) ==
    CASE text = "prompt" -> {"echo"}
      [] text = "slipped" -> {reply, "echo", "altered echo"}
      [] OTHER -> {reply}

\* The click may land or not, whatever the driver says of it.
Press ==
    /\ pc = "click"
    /\ \E lands, told \in BOOLEAN :
        /\ lands \/ told
        /\ Charged(lands # told)
        /\ IF lands
           THEN /\ Composer \in Texts
                /\ sent' = sent \cup {<<at.browser, Composer>>}
                /\ reply' \in Echoes(Composer)
                /\ Fill("empty")
           ELSE UNCHANGED <<sent, reply, composer>>
        /\ IF told
           THEN /\ acked' = acked \cup {at.browser}
                /\ pc' = "poll"
                /\ UNCHANGED <<result, stages, at>>
           ELSE Give("failed") /\ UNCHANGED acked
    /\ UNCHANGED <<attachments, status, cancel, older>>

\* The marked texts on the page, of this turn and of an earlier one.
Marked ==
    {<<"this", reply>>}
    \cup (IF older /\ at.window[2] = "user's" THEN {<<"earlier", "answer">>} ELSE {})

\* Mutant: anybody's markers will do.
MutShown == Owned /\ \E m \in Marked : m[2] \in {"altered echo", "answer"}

\* _extract_marked_response: the text between this turn's markers, unless it
\* is the placeholder.
Shown == Owned /\ \E m \in Marked : m[1] = "this" /\ m[2] \in {"altered echo", "answer"}

\* CompletionTracker: the same text twice in a row with nothing running and
\* the action buttons there.  A page that shows otherwise starts the count
\* again; an unreadable tree counts as one that shows the buttons, and a page
\* that could not be read in time leaves the count.
Proven == at.seen = 1

PollReads ==
    /\ pc = "poll" /\ cancel = "no"
    /\ \/ Shown /\ Proven /\ Give("ok")
       \/ Shown /\ ~Proven /\ at' = [at EXCEPT !.seen = 1] /\ UNCHANGED <<result, stages, pc>>
       \/ at.seen = 1 /\ at' = [at EXCEPT !.seen = 0] /\ UNCHANGED <<result, stages, pc>>
    /\ UNCHANGED <<attachments, status, cancel, site, mishaps>>

\* A stop clicks ChatGPT's Stop button, if it can.
PollCancelled ==
    /\ pc = "poll" /\ cancel # "no"
    /\ Give("cancelled")
    /\ UNCHANGED <<attachments, status, cancel, site, mishaps>>

\* DomHealthTracker: nothing appeared, or the answer vanished or stayed empty.
DomUnhealthy == pc = "poll" /\ cancel = "no" /\ ~Shown /\ Fails

Deadline ==
    /\ pc = "poll"
    /\ Give("timed out")
    /\ UNCHANGED <<attachments, status, cancel, site, mishaps>>

\* Its Close button failing, Cmd-W goes to the window in front of the browser.
CloseTurnWindow ==
    \E w \in {at.browser} \X {"user's", "turn's"} :
        composer' = [composer EXCEPT ![w] = "closed"] /\ Charged(w # at.window)

\* finally: the window taken as fresh is closed.
Leave ==
    /\ pc = "leave"
    /\ IF at.fresh THEN CloseTurnWindow ELSE UNCHANGED <<composer, mishaps>>
    /\ pc' = "after"
    /\ UNCHANGED <<job, at, older, reply, sent, acked>>

\* Mutant: any failure falls back to the next browser.
MutMayFallBack == result = "failed"

\* No other browser once the prompt is known to be submitted.
MayFallBack == result = "failed" /\ at.browser \notin acked

After ==
    /\ pc = "after"
    /\ IF MayFallBack /\ at.browser < LastBrowser
       THEN pc' = "next" /\ at' = Start(at.browser + 1) /\ reply' = "absent"
       ELSE pc' = "publish" /\ UNCHANGED <<at, reply>>
    /\ UNCHANGED <<job, composer, older, sent, acked, mishaps>>

\* run_gui_job: the handle is released, and set_result refuses to replace the
\* end somebody else wrote.
Publish ==
    /\ pc = "publish"
    /\ status' = IF status # "running" THEN status
                 ELSE IF result = "ok" THEN "succeeded" ELSE "failed"
    /\ pc' = "done"
    /\ UNCHANGED <<attachments, cancel, result, stages, at, site, mishaps>>

-----------------------------------------------------------------------------
(* Stops, ChatGPT and the user *)

\* A stop in the worker's process sets the event and then the status; one in
\* another process only sets the status.
HomeStop ==
    /\ pc # "done" /\ cancel = "no"
    /\ cancel' = IF pc = "click" THEN "late" ELSE "early"
    /\ UNCHANGED <<attachments, status, result, stages, turn, site, mishaps>>

StopJob ==
    /\ status = "running"
    /\ status' = "stopped"
    /\ UNCHANGED <<attachments, cancel, result, stages, turn, site, mishaps>>

\* ChatGPT answers between the markers; it need not.
ReplyCloses ==
    /\ reply \in {"echo", "altered echo"}
    /\ reply' = "answer"
    /\ UNCHANGED <<job, turn, composer, older, sent, acked, mishaps>>

UserTypes(w) ==
    /\ composer[w] # "closed" /\ Mishap
    /\ composer' = [composer EXCEPT ![w] =
            IF w = at.window /\ pc \in Committed THEN "slipped"
            ELSE IF w = at.window /\ pc \in Filling THEN "mixed" ELSE "draft"]
    /\ UNCHANGED <<job, turn, older, reply, sent, acked>>

UserCloses(w) ==
    /\ composer[w] # "closed" /\ Mishap
    /\ composer' = [composer EXCEPT ![w] = "closed"]
    /\ UNCHANGED <<job, turn, older, reply, sent, acked>>

-----------------------------------------------------------------------------
Candidate ==
    \/ NoticeCancel \/ AppMissing \/ Open \/ PageUnusable \/ ModelUnconfirmed \/ UploadRefused
    \/ Inspect \/ Write \/ WriteRejected \/ Verify \/ Presubmit \/ Gate \/ SendMissing \/ Press
    \/ PollCancelled \/ Deadline \/ Leave

Step == StartWork \/ Begin \/ NextBrowser \/ Candidate \/ After \/ Publish

Next ==
    \/ Step \/ DriverRaises \/ PollReads \/ DomUnhealthy
    \/ HomeStop \/ StopJob \/ ReplyCloses
    \/ \E w \in Windows : UserTypes(w) \/ UserCloses(w)

Spec == Init /\ [][Next]_vars

\* Every driver call has a timeout and the clock goes on; nobody owes the turn
\* an answer, nor a failure.
FairSpec == Spec /\ WF_vars(Step)

-----------------------------------------------------------------------------
(* Properties *)

\* Once a Send press is reported as done, no browser sees the prompt again:
\* run_gui_request stops its fallback on prompt_submitted.
AcknowledgedIsLast == \A b \in acked : \A s \in sent : s[1] <= b

\* Of its own writing the turn sends the exact prompt only, and of the user's
\* only what was typed after its last look at the composer.
OnlyVerifiedIsSent == \A s \in sent : s[2] \in {"prompt", "slipped"}

\* A success, and a lifecycle record that says "complete", come of what this
\* turn sent where the press was reported as done, never of the answer to an
\* earlier turn or of the echo of the exact prompt.  Of a text the user went on
\* typing in, the answer counts, and so does the echo.
SuccessIsOwnAnswer ==
    status = "succeeded" \/ stages = "complete" =>
        \E b \in acked :
            \/ reply = "answer" /\ <<b, "prompt">> \in sent
            \/ reply \in {"altered echo", "answer"} /\ <<b, "slipped">> \in sent

\* A prompt whose files could not be uploaded is never sent without them.
NothingSentWithoutFiles == attachments => sent = {}

\* A stop that set the event before the last gate of the browser at hand keeps
\* the prompt from being sent from then on, there and anywhere else.
EarlyStopPreventsSend == [][cancel = "early" => sent' = sent]_vars

\* A draft that was there before the turn looked is never typed over, cleared
\* or sent; its window may get closed.
DraftIsLeftAlone ==
    [][\A w \in Windows : composer[w] = "draft" => composer'[w] \in {"draft", "closed"}]_vars

\* "A truncated or altered composer must never be submitted."
AlteredNeverSent == \A s \in sent : s[2] = "prompt"

\* "A non-empty mismatch might be user/browser content. Never retry over it:
\* leave the composer untouched and refuse to submit."
MixedIsLeftAlone ==
    [][pc = "verify" /\ Composer = "mixed" => composer'[at.window] \in {"mixed", "closed"}]_vars

\* The turn ends whatever ChatGPT, the driver and the user do.
TurnEnds == <>(pc = "done")

\* "another candidate would duplicate the same request"
SentOnce == Cardinality({s \in sent : s[2] = "prompt"}) <= 1
=============================================================================
