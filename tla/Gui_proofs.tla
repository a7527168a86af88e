----------------------------- MODULE Gui_proofs -----------------------------
(***************************************************************************)
(* A turn in the user's browsers, for a fallback chain of any length and   *)
(* any number of interventions of the user and misreported clicks; and who *)
(* may take one, for any number of turns, server processes and crashes.    *)
(***************************************************************************)
EXTENDS GuiTurn, GuiSlot, TLAPS

-----------------------------------------------------------------------------
(* The inductive invariant.                                                *)

Places == [browser : Browsers, window : Windows, fresh : BOOLEAN, way : 0 .. 3, seen : 0 .. 1]

\* The turn works in a window of the browser at hand.
Shape ==
    /\ at \in Places /\ at.window \in {at.browser} \X {"user's", "turn's"}
    /\ composer \in [Windows -> Texts \cup {"closed", "empty"}]

\* A reported Send press ends the chain at the browser it was made in.
AckedHere ==
    /\ acked \subseteq {at.browser}
    /\ acked # {} => pc \in {"poll", "leave", "after", "publish", "done"}
    /\ pc = "poll" => at.browser \in acked
    /\ \A s \in sent : s[1] \in Browsers /\ s[1] <= at.browser

\* Past the last look the composer holds the prompt, or what slipped in.
Looked == pc \in Committed => Composer \in {"prompt", "slipped", "closed"}

\* What stands between the turn's markers comes of a text sent in the browser at
\* hand; the user's words are there only if he went on typing in it.
AnswerIsOwn ==
    /\ reply # "absent" => \E text \in {"prompt", "slipped"} : <<at.browser, text>> \in sent
    /\ reply = "altered echo" => <<at.browser, "slipped">> \in sent

OwnAnswer ==
    \E b \in acked :
        \/ reply = "answer" /\ <<b, "prompt">> \in sent
        \/ reply \in {"altered echo", "answer"} /\ <<b, "slipped">> \in sent

\* A success rests on such an answer, and ends the chain.
SuccessIsOwn ==
    /\ stages = "complete" \/ status = "succeeded" => result = "ok"
    /\ result = "ok" => OwnAnswer /\ pc \in {"leave", "after", "publish", "done"}

\* An early stop keeps the turn from the Send button.
StoppedShort == cancel = "early" => pc # "click"

\* The turn does not write into a window with a draft.
NoDraftAtHand == pc \in Filling \cup Committed => Composer # "draft"

\* The turn's windows are opened one after the other.
NotOpenedYet ==
    /\ \A b \in Browsers : b > at.browser => composer[<<b, "turn's">>] = "closed"
    /\ pc \in {"start", "request", "next", "open"} => composer[<<at.browser, "turn's">>] = "closed"

IInv ==
    /\ Shape /\ AckedHere /\ Looked /\ OnlyVerifiedIsSent /\ AnswerIsOwn /\ SuccessIsOwn
    /\ StoppedShort /\ NoDraftAtHand /\ NotOpenedYet

\* What the steps do to the turn's place.
LEMMA PlaceHas ==
    ASSUME NEW a \in Places
    PROVE  /\ a.browser \in Browsers /\ a.window \in Windows
           /\ a.way \in 0 .. 3 /\ a.seen \in 0 .. 1
  BY DEF Places

LEMMA WayTypes ==
    ASSUME NEW a \in Places, NEW n \in 0 .. 3
    PROVE  /\ [a EXCEPT !.way = n] \in Places
           /\ [a EXCEPT !.way = n].browser = a.browser
           /\ [a EXCEPT !.way = n].window = a.window
  BY DEF Places

LEMMA SeenTypes ==
    ASSUME NEW a \in Places, NEW n \in 0 .. 1
    PROVE  /\ [a EXCEPT !.seen = n] \in Places
           /\ [a EXCEPT !.seen = n].browser = a.browser
           /\ [a EXCEPT !.seen = n].window = a.window
  BY DEF Places

LEMMA WaySeenTypes ==
    ASSUME NEW a \in Places, NEW n \in 0 .. 3, NEW m \in 0 .. 1
    PROVE  /\ [a EXCEPT !.way = n, !.seen = m] \in Places
           /\ [a EXCEPT !.way = n, !.seen = m].browser = a.browser
           /\ [a EXCEPT !.way = n, !.seen = m].window = a.window
  BY DEF Places

LEMMA ResetTypes ==
    ASSUME NEW a \in Places
    PROVE  /\ [a EXCEPT !.way = 0, !.seen = 0] \in Places
           /\ [a EXCEPT !.way = 0, !.seen = 0].browser = a.browser
           /\ [a EXCEPT !.way = 0, !.seen = 0].window = a.window
<1>1. 0 \in 0 .. 3 /\ 0 \in 0 .. 1
  OBVIOUS
<1> QED BY <1>1, WaySeenTypes

LEMMA WindowTypes ==
    ASSUME NEW a \in Places, NEW w \in Windows
    PROVE  /\ [a EXCEPT !.window = w, !.fresh = TRUE] \in Places
           /\ [a EXCEPT !.window = w, !.fresh = TRUE].browser = a.browser
           /\ [a EXCEPT !.window = w, !.fresh = TRUE].window = w
           /\ [a EXCEPT !.window = w, !.fresh = FALSE] \in Places
           /\ [a EXCEPT !.window = w, !.fresh = FALSE].browser = a.browser
           /\ [a EXCEPT !.window = w, !.fresh = FALSE].window = w
  BY DEF Places

LEMMA StartTypes ==
    ASSUME NEW b \in Browsers
    PROVE  Start(b) \in Places /\ Start(b).browser = b /\ Start(b).window = <<b, "user's">>
<1>1. <<b, "user's">> \in Windows
  BY DEF Windows
<1> QED BY <1>1 DEF Start, Places

LEMMA ChainOrder ==
    ASSUME NEW a \in Browsers, NEW b \in Browsers
    PROVE  /\ a <= a /\ a + 1 > a
           /\ b > a + 1 => b > a
           /\ b <= a => b <= a + 1
<1>1. a \in Nat /\ b \in Nat
  BY ChainAssumption DEF Browsers
<1> QED BY <1>1

LEMMA InitIInv == Init => IInv
<1> SUFFICES ASSUME Init PROVE IInv
  OBVIOUS
<1>1. 1 \in Browsers
  BY ChainAssumption DEF Browsers
<1>2. Shape /\ at.browser = 1
  <2>1. at \in Places /\ at.browser = 1 /\ at.window = <<1, "user's">>
    BY <1>1, StartTypes DEF Init
  <2>2. composer \in [Windows -> Texts \cup {"closed", "empty"}]
    BY DEF Init, Texts, Typed
  <2> QED BY <2>1, <2>2 DEF Shape
<1>3. AckedHere /\ Looked /\ OnlyVerifiedIsSent /\ AnswerIsOwn
  BY <1>2 DEF Init, AckedHere, Looked, Committed, OnlyVerifiedIsSent, AnswerIsOwn
<1>4. SuccessIsOwn /\ StoppedShort /\ NoDraftAtHand
  BY DEF Init, SuccessIsOwn, StoppedShort, NoDraftAtHand, Filling, Committed
<1>5. NotOpenedYet
  BY <1>1, <1>2 DEF Init, NotOpenedYet, Windows
<1> QED BY <1>2, <1>3, <1>4, <1>5 DEF IInv


-----------------------------------------------------------------------------
(* Where the turn is.  Only opening a window and falling back move it.     *)

Stays == at'.browser = at.browser /\ at'.window = at.window
Opens == pc = "open" /\ pc' = "inspect" /\ at'.browser = at.browser
FallsBack ==
    /\ pc = "after" /\ pc' = "next"
    /\ at.browser \notin acked /\ at'.browser = at.browser + 1

LEMMA Moves ==
    ASSUME Shape, [Next]_vars
    PROVE  /\ at' \in Places /\ at'.window \in {at'.browser} \X {"user's", "turn's"}
           /\ Stays \/ Opens \/ FallsBack
<1> USE DEF Shape, Stays, Opens, FallsBack
<1>1. CASE UNCHANGED at
  BY <1>1
<1>2. ASSUME NEW what, Give(what)
      PROVE  at' \in Places /\ at'.window \in {at'.browser} \X {"user's", "turn's"} /\ Stays
  BY <1>2, ResetTypes DEF Give
<1>3. CASE Open
  <2>1. PICK w \in {at.browser} \X {"user's", "turn's"} :
           \/ at' = [at EXCEPT !.window = w, !.fresh = TRUE]
           \/ at' = [at EXCEPT !.window = w, !.fresh = FALSE]
    BY <1>3 DEF Open
  <2>2. w \in Windows
    BY PlaceHas DEF Windows
  <2>3. pc = "open" /\ pc' = "inspect"
    BY <1>3 DEF Open
  <2>4. at \in Places
    OBVIOUS
  <2>5. at' \in Places /\ at'.browser = at.browser /\ at'.window = w
    <3>1. CASE at' = [at EXCEPT !.window = w, !.fresh = TRUE]
      BY ONLY <3>1, <2>2, <2>4, WindowTypes, Zenon
    <3>2. CASE at' = [at EXCEPT !.window = w, !.fresh = FALSE]
      BY ONLY <3>2, <2>2, <2>4, WindowTypes, Zenon
    <3> QED BY <2>1, <3>1, <3>2
  <2> QED BY <2>3, <2>5
<1>4. CASE Write
  <2>1. at' = [at EXCEPT !.way = at.way + 1] /\ at.way < 3
    BY <1>4 DEF Write
  <2>2. at.way + 1 \in 0 .. 3
    BY <2>1, PlaceHas
  <2> QED BY <2>1, <2>2, WayTypes
<1>5. CASE WriteRejected
  <2>1. CASE at' = [at EXCEPT !.way = at.way + 1] /\ at.way \in {0, 1}
    <3>1. at.way + 1 \in 0 .. 3
      BY <2>1
    <3> QED BY <2>1, <3>1, WayTypes
  <2>2. CASE Give("failed")
    BY <1>2, <2>2
  <2> QED BY <1>5, <2>1, <2>2 DEF WriteRejected, NotDelivered
<1>6. CASE After
  <2>1. CASE MayFallBack /\ at.browser < LastBrowser
    <3>1. at' = Start(at.browser + 1) /\ pc = "after" /\ pc' = "next" /\ at.browser \notin acked
      BY <1>6, <2>1 DEF After, MayFallBack
    <3>2. at.browser \in Browsers /\ at.browser + 1 \in Browsers
      BY <2>1, PlaceHas, ChainAssumption DEF Browsers
    <3>3. /\ at' \in Places /\ at'.browser = at.browser + 1
          /\ at'.window = <<at.browser + 1, "user's">>
      BY <3>1, <3>2, StartTypes
    <3> QED BY <3>1, <3>3
  <2>2. CASE ~(MayFallBack /\ at.browser < LastBrowser)
    BY <1>1, <1>6, <2>2 DEF After
  <2> QED BY <2>1, <2>2
<1>7. CASE PollReads
  <2>1. ASSUME NEW n \in 0 .. 1, at' = [at EXCEPT !.seen = n]
        PROVE  at' \in Places /\ at'.window \in {at'.browser} \X {"user's", "turn's"} /\ Stays
    BY <2>1, SeenTypes
  <2>2. 0 \in 0 .. 1 /\ 1 \in 0 .. 1
    OBVIOUS
  <2>3. \/ Give("ok")
        \/ at' = [at EXCEPT !.seen = 1]
        \/ at' = [at EXCEPT !.seen = 0]
    BY <1>7 DEF PollReads
  <2> QED BY <1>2, <2>1, <2>2, <2>3
<1>8. CASE Inspect \/ Gate \/ Verify \/ Presubmit \/ Press \/ PollCancelled \/ Deadline \/ NoticeCancel
  BY <1>1, <1>2, <1>8
     DEF Inspect, Gate, Verify, Presubmit, Press, PollCancelled, Deadline, NoticeCancel, Proceed,
         NotDelivered
<1>9. CASE Fails
  BY <1>2, <1>9 DEF Fails
<1>10. CASE \/ StartWork \/ Begin \/ NextBrowser \/ Leave \/ Publish
            \/ HomeStop \/ StopJob \/ ReplyCloses
            \/ \E w \in Windows : UserTypes(w) \/ UserCloses(w)
  BY <1>1, <1>10
     DEF StartWork, Begin, NextBrowser, Leave, Publish, HomeStop, StopJob, ReplyCloses,
         UserTypes, UserCloses, turn
<1> QED
  BY <1>1, <1>3, <1>4, <1>5, <1>6, <1>7, <1>8, <1>9, <1>10
     DEF Next, Step, Candidate, AppMissing, PageUnusable, ModelUnconfirmed, UploadRefused,
         SendMissing, DriverRaises, DomUnhealthy, vars, turn

-----------------------------------------------------------------------------
(* What the steps do to the composers.  Except for the window at hand and  *)
(* for the one a browser opens, only the user changes them.                *)

LEMMA ComposerTypes == ASSUME Shape, [Next]_vars PROVE composer' \in [Windows -> Texts \cup {"closed", "empty"}]
<1> USE DEF Shape, Texts, Typed, Fill, Composer
<1>1. CASE UNCHANGED composer
  BY <1>1
<1>2. ASSUME Clear PROVE composer' \in [Windows -> Texts \cup {"closed", "empty"}]
  BY <1>1, <1>2 DEF Clear
<1>3. CASE Open
  BY <1>3 DEF Open, Asked
<1>4. CASE Write
  <2>1. at.way \in {0, 1, 2}
    BY <1>4, PlaceHas DEF Write
  <2>2. Written \in Texts \cup {"closed", "empty"}
    BY <2>1, PlaceHas DEF Written, SetValue, Paste, TypeOver, PageInsert
  <2> QED BY <1>4, <2>2 DEF Write
<1>5. CASE WriteRejected \/ Verify \/ Presubmit
  BY <1>1, <1>2, <1>5 DEF WriteRejected, Verify, Presubmit, NotDelivered
<1>6. CASE Press
  BY <1>6 DEF Press
<1>7. CASE Leave
  BY <1>7 DEF Leave, CloseTurnWindow
<1>8. ASSUME NEW w \in Windows, UserTypes(w) \/ UserCloses(w)
      PROVE  composer' \in [Windows -> Texts \cup {"closed", "empty"}]
  BY <1>8 DEF UserTypes, UserCloses
<1>9. CASE Fails \/ NoticeCancel \/ Inspect \/ Gate \/ PollReads \/ PollCancelled \/ Deadline
  BY <1>1, <1>9 DEF Fails, NoticeCancel, Inspect, Gate, PollReads, PollCancelled, Deadline, site
<1>10. CASE \/ StartWork \/ Begin \/ NextBrowser \/ After \/ Publish
            \/ HomeStop \/ StopJob \/ ReplyCloses
  BY <1>1, <1>10
     DEF StartWork, Begin, NextBrowser, After, Publish, HomeStop, StopJob, ReplyCloses, site
<1> QED
  BY <1>1, <1>3, <1>4, <1>5, <1>6, <1>7, <1>8, <1>9, <1>10
     DEF Next, Step, Candidate, AppMissing, PageUnusable, ModelUnconfirmed, UploadRefused,
         SendMissing, DriverRaises, DomUnhealthy, vars, site

LEMMA ShapeStays == ASSUME Shape, [Next]_vars PROVE Shape'
  BY Moves, ComposerTypes DEF Shape

\* The window at hand before a browser writes and while it does.
AtHand == Looked /\ NoDraftAtHand /\ NotOpenedYet

LEMMA AtHandStays == ASSUME Shape, AtHand, [Next]_vars PROVE AtHand'
<1>0. /\ at' \in Places /\ at'.window \in {at'.browser} \X {"user's", "turn's"}
      /\ Stays \/ Opens \/ FallsBack
      /\ at \in Places /\ at.browser \in Browsers /\ at.window \in Windows
      /\ at.window \in {at.browser} \X {"user's", "turn's"}
      /\ composer \in [Windows -> Texts \cup {"closed", "empty"}]
      /\ Browsers \subseteq Nat
  <2>1. at \in Places /\ Browsers \subseteq Nat
    BY ChainAssumption DEF Shape, Browsers
  <2>2. at.browser \in Browsers /\ at.window \in Windows
    BY <2>1, PlaceHas
  <2> QED BY <2>1, <2>2, Moves DEF Shape
<1> DEFINE Early == {"start", "request", "next", "open"}
           Others == \A w \in Windows : w # at.window => composer'[w] \in {composer[w], "closed"}
<1>1. \A b \in Browsers :
        <<b, "turn's">> \in Windows /\ (b # at.browser => <<b, "turn's">> # at.window)
  BY <1>0 DEF Windows
<1>2. ASSUME at'.browser = at.browser, pc' \notin Early, Others PROVE NotOpenedYet'
  BY <1>0, <1>1, <1>2 DEF AtHand, NotOpenedYet
<1>3. ASSUME pc' \notin Filling \cup Committed PROVE Looked' /\ NoDraftAtHand'
  BY <1>3 DEF Looked, NoDraftAtHand
<1>4. ASSUME Stays, composer'[at.window] # "draft",
             pc' \in Committed => composer'[at.window] \in {"prompt", "slipped", "closed"}
      PROVE  Looked' /\ NoDraftAtHand'
  BY <1>4 DEF Looked, NoDraftAtHand, Composer, Stays
<1>5. ASSUME NEW text, composer' = [composer EXCEPT ![at.window] = text]
      PROVE  Others /\ composer'[at.window] = text
  BY <1>0, <1>5
<1>6. ASSUME UNCHANGED composer PROVE Others /\ composer'[at.window] = composer[at.window]
  BY <1>6
<1>7. ASSUME Clear PROVE Others
  BY <1>5, <1>6, <1>7 DEF Clear, Fill
<1>8. ASSUME pc' = "leave", Others, Stays PROVE AtHand'
  BY <1>2, <1>3, <1>8 DEF AtHand, Stays, Filling, Committed
<1>9. pc \in Filling \cup Committed => composer[at.window] # "draft"
  BY DEF AtHand, NoDraftAtHand, Composer
<1>10. pc \in Committed => composer[at.window] \in {"prompt", "slipped", "closed"}
  BY DEF AtHand, Looked, Composer
<1> HIDE DEF Others
<1>11. CASE Open
  <2>1. PICK windows \in {composer, Asked} : composer' = windows
    BY <1>11 DEF Open
  <2>2. pc = "open" /\ pc' = "inspect" /\ at'.browser = at.browser
    BY <1>0, <1>11 DEF Open, Opens, Stays, FallsBack
  <2>3. \A b \in Browsers : b > at.browser => composer'[<<b, "turn's">>] = "closed"
    BY <1>0, <1>1, <2>1 DEF Asked, AtHand, NotOpenedYet
  <2>4. NotOpenedYet'
    BY <2>2, <2>3 DEF NotOpenedYet
  <2> QED BY <1>3, <2>2, <2>4 DEF AtHand, Filling, Committed
<1>12. CASE Write
  <2>1. Written \in {"prompt", "part", composer[at.window]}
    BY <1>0, <1>12, PlaceHas
       DEF Write, Written, SetValue, Paste, TypeOver, PageInsert, Composer
  <2>2. PICK text \in {"prompt", "part", composer[at.window]} :
          composer' = [composer EXCEPT ![at.window] = text]
    BY <1>0, <1>12, <2>1 DEF Write, Fill
  <2>3. pc = "write" /\ pc' = "verify" /\ Stays
    BY <1>0, <1>12 DEF Write, Opens, FallsBack
  <2> QED BY <1>2, <1>4, <1>5, <1>9, <2>2, <2>3 DEF AtHand, Stays, Filling, Committed
<1>13. CASE WriteRejected
  <2>1. pc = "write" /\ Stays
    BY <1>0, <1>13 DEF WriteRejected, Opens, FallsBack
  <2>2. CASE UNCHANGED <<pc, composer>>
    BY <1>2, <1>4, <1>6, <1>9, <2>1, <2>2 DEF AtHand, Stays, Filling, Committed
  <2>3. CASE NotDelivered
    BY <1>7, <1>8, <2>1, <2>3 DEF NotDelivered, Give
  <2> QED BY <1>13, <2>2, <2>3 DEF WriteRejected
<1>14. CASE Verify
  <2>1. pc = "verify" /\ Stays
    BY <1>0, <1>14 DEF Verify, Opens, FallsBack
  <2>2. CASE Composer = "prompt" /\ pc' = "presubmit" /\ UNCHANGED composer
    BY <1>2, <1>4, <1>6, <2>1, <2>2 DEF AtHand, Stays, Filling, Committed, Composer
  <2>3. CASE Clear /\ pc' = "write"
    <3>1. composer'[at.window] # "draft"
      BY <1>0, <1>5, <1>9, <2>1, <2>3 DEF Clear, Fill, Filling
    <3> QED BY <1>2, <1>4, <1>7, <2>1, <2>3, <3>1 DEF AtHand, Stays, Filling, Committed
  <2>4. CASE NotDelivered
    BY <1>7, <1>8, <2>1, <2>4 DEF NotDelivered, Give
  <2> QED BY <1>14, <2>2, <2>3, <2>4 DEF Verify
<1>15. CASE Presubmit
  <2>1. pc = "presubmit" /\ Stays
    BY <1>0, <1>15 DEF Presubmit, Opens, FallsBack
  <2>2. CASE Exact /\ pc' = "gate" /\ UNCHANGED composer
    BY <1>2, <1>4, <1>6, <2>1, <2>2 DEF AtHand, Stays, Filling, Committed, Composer, Exact
  <2>3. CASE NotDelivered
    BY <1>7, <1>8, <2>1, <2>3 DEF NotDelivered, Give
  <2> QED BY <1>15, <2>2, <2>3 DEF Presubmit
<1>16. CASE Press
  <2>1. pc = "click" /\ Stays /\ pc' \in {"poll", "leave"}
    BY <1>0, <1>16 DEF Press, Opens, FallsBack, Give
  <2>2. Others
    BY <1>5, <1>6, <1>16 DEF Press, Fill
  <2> QED BY <1>2, <1>3, <2>1, <2>2 DEF AtHand, Stays, Filling, Committed
<1>17. CASE Leave
  <2>1. \A w \in Windows : composer'[w] \in {composer[w], "closed"}
    BY <1>0, <1>17 DEF Leave, CloseTurnWindow
  <2>2. pc' = "after" /\ Stays
    BY <1>0, <1>17 DEF Leave, Opens, FallsBack
  <2> QED BY <1>2, <1>3, <2>1, <2>2 DEF AtHand, Stays, Filling, Committed, Others
<1>18. ASSUME NEW w \in Windows, UserTypes(w) \/ UserCloses(w) PROVE AtHand'
  <2>1. UNCHANGED <<pc, at>>
    BY <1>18 DEF UserTypes, UserCloses, turn
  <2>2. PICK text \in {"slipped", "mixed", "draft", "closed"} :
          /\ composer' = [composer EXCEPT ![w] = text]
          /\ w = at.window /\ pc \in Committed => text \in {"slipped", "closed"}
          /\ w = at.window /\ pc \in Filling \cup Committed => text # "draft"
    BY <1>18 DEF UserTypes, UserCloses
  <2>3. composer[w] # "closed"
    BY <1>18 DEF UserTypes, UserCloses
  <2>4. NotOpenedYet'
    BY <1>0, <1>1, <2>1, <2>2, <2>3 DEF AtHand, NotOpenedYet
  <2>5. Looked' /\ NoDraftAtHand'
    BY <1>0, <1>9, <1>10, <2>1, <2>2 DEF Looked, NoDraftAtHand, Composer
  <2> QED BY <2>4, <2>5 DEF AtHand
<1>19. CASE Fails \/ NoticeCancel \/ PollCancelled \/ Deadline
  <2>1. pc' = "leave" /\ UNCHANGED composer
    BY <1>19 DEF Fails, NoticeCancel, PollCancelled, Deadline, Give, site
  <2>2. Stays
    BY <1>0, <2>1 DEF Opens, FallsBack
  <2> QED BY <1>6, <1>8, <2>1, <2>2
<1>20. CASE Inspect \/ Gate \/ PollReads
  <2>1. Stays /\ UNCHANGED composer
    BY <1>0, <1>20 DEF Inspect, Gate, PollReads, Opens, FallsBack, site
  <2>2. \/ pc' = "leave"
        \/ pc' = "write" /\ composer[at.window] = "empty"
        \/ pc = "gate" /\ pc' = "click"
        \/ pc' = "poll"
    BY <1>20 DEF Inspect, Gate, PollReads, Proceed, Give, ComposerFree, Composer
  <2> QED
    BY <1>2, <1>4, <1>6, <1>8, <1>9, <1>10, <2>1, <2>2, <1>3
       DEF AtHand, Stays, Filling, Committed
<1>21. CASE StartWork \/ Begin \/ NextBrowser \/ Publish
  <2>1. UNCHANGED <<at, composer>> /\ pc' \notin Filling \cup Committed
    BY <1>21 DEF StartWork, Begin, NextBrowser, Publish, site, Filling, Committed
  <2>2. pc' \in Early => pc \in Early
    BY <1>21 DEF StartWork, Begin, NextBrowser, Publish
  <2> QED BY <1>3, <2>1, <2>2 DEF AtHand, NotOpenedYet
<1>22. CASE After
  <2>1. UNCHANGED composer /\ pc' \in {"next", "publish"} /\ pc = "after"
    BY <1>22 DEF After
  <2>2. CASE MayFallBack /\ at.browser < LastBrowser
    <3>1. at.browser + 1 \in Browsers
      BY <1>0, <2>2, ChainAssumption DEF Browsers
    <3>2. at'.browser = at.browser + 1
      BY <1>22, <2>2, <3>1, StartTypes DEF After
    <3>3. /\ composer[<<at.browser + 1, "turn's">>] = "closed"
          /\ \A b \in Browsers : b > at.browser + 1 => composer[<<b, "turn's">>] = "closed"
      <4>1. \A b \in Browsers : b > at.browser => composer[<<b, "turn's">>] = "closed"
        BY DEF AtHand, NotOpenedYet
      <4>2. /\ at.browser + 1 > at.browser
            /\ \A b \in Browsers : b > at.browser + 1 => b > at.browser
        BY <1>0, ChainOrder
      <4> QED BY <3>1, <4>1, <4>2
    <3>4. NotOpenedYet'
      BY <2>1, <3>2, <3>3 DEF NotOpenedYet
    <3> QED BY <1>3, <2>1, <3>4 DEF AtHand, Filling, Committed
  <2>3. CASE ~(MayFallBack /\ at.browser < LastBrowser)
    <3>1. Stays /\ pc' = "publish"
      BY <1>22, <2>3 DEF After, Stays
    <3> QED BY <1>2, <1>3, <1>6, <2>1, <3>1 DEF AtHand, Stays, Filling, Committed
  <2> QED BY <2>2, <2>3
<1>23. CASE HomeStop \/ StopJob \/ ReplyCloses \/ UNCHANGED vars
  <2>1. UNCHANGED <<pc, at, composer>>
    BY <1>23 DEF HomeStop, StopJob, ReplyCloses, site, turn, vars
  <2> QED BY <2>1 DEF AtHand, Looked, NoDraftAtHand, NotOpenedYet, Composer
<1> QED
  BY <1>11, <1>12, <1>13, <1>14, <1>15, <1>16, <1>17, <1>18, <1>19, <1>20, <1>21, <1>22, <1>23
     DEF Next, Step, Candidate, AppMissing, PageUnusable, ModelUnconfirmed, UploadRefused,
         SendMissing, DriverRaises, DomUnhealthy

\* A draft that the turn finds is left alone, in any window and by any way of
\* writing; only the user goes on with it.
LEMMA DraftStays ==
    ASSUME Shape, AtHand, [Next]_vars, NEW w \in Windows, composer[w] = "draft"
    PROVE  composer'[w] \in {"draft", "closed"}
<1>1. /\ composer \in [Windows -> Texts \cup {"closed", "empty"}] /\ at.browser \in Browsers
  BY PlaceHas DEF Shape
<1>2. pc \in Filling \cup Committed => w # at.window
  BY DEF AtHand, NoDraftAtHand, Composer
<1>3. pc = "open" => w # <<at.browser, "turn's">>
  BY DEF AtHand, NotOpenedYet
<1>4. ASSUME pc \in Filling \cup Committed, NEW text,
             composer' = [composer EXCEPT ![at.window] = text]
      PROVE  composer'[w] = "draft"
  BY <1>1, <1>2, <1>4
<1>5. CASE UNCHANGED composer
  BY <1>5
<1>6. ASSUME pc \in Filling \cup Committed, Clear PROVE composer'[w] \in {"draft", "closed"}
  BY <1>4, <1>5, <1>6 DEF Clear, Fill
<1>7. CASE Open
  BY <1>1, <1>3, <1>5, <1>7 DEF Open, Asked
<1>8. CASE Write
  <2>1. pc \in Filling
    BY <1>8 DEF Write, Filling
  <2> QED BY <1>4, <1>5, <1>8, <2>1 DEF Write, Fill
<1>9. CASE WriteRejected \/ Verify \/ Presubmit
  <2>1. pc \in Filling
    BY <1>9 DEF WriteRejected, Verify, Presubmit, Filling
  <2> QED BY <1>5, <1>6, <1>9, <2>1 DEF WriteRejected, Verify, Presubmit, NotDelivered
<1>10. CASE Press
  <2>1. pc \in Committed
    BY <1>10 DEF Press, Committed
  <2> QED BY <1>4, <1>5, <1>10, <2>1 DEF Press, Fill
<1>11. CASE Leave
  BY <1>1, <1>11 DEF Leave, CloseTurnWindow
<1>12. ASSUME NEW u \in Windows, UserTypes(u) \/ UserCloses(u)
       PROVE  composer'[w] \in {"draft", "closed"}
  BY <1>1, <1>2, <1>12 DEF UserTypes, UserCloses
<1>13. CASE Fails \/ NoticeCancel \/ Inspect \/ Gate \/ PollReads \/ PollCancelled \/ Deadline
  BY <1>5, <1>13 DEF Fails, NoticeCancel, Inspect, Gate, PollReads, PollCancelled, Deadline, site
<1>14. CASE \/ StartWork \/ Begin \/ NextBrowser \/ After \/ Publish
            \/ HomeStop \/ StopJob \/ ReplyCloses \/ UNCHANGED vars
  BY <1>5, <1>14
     DEF StartWork, Begin, NextBrowser, After, Publish, HomeStop, StopJob, ReplyCloses, site, vars
<1> QED
  BY <1>7, <1>8, <1>9, <1>10, <1>11, <1>12, <1>13, <1>14
     DEF Next, Step, Candidate, AppMissing, PageUnusable, ModelUnconfirmed, UploadRefused,
         SendMissing, DriverRaises, DomUnhealthy

-----------------------------------------------------------------------------
(* What was sent, and what the turn says of it.                            *)

Told == AckedHere /\ OnlyVerifiedIsSent /\ AnswerIsOwn /\ SuccessIsOwn /\ StoppedShort

LEMMA ToldStays == ASSUME Shape, Looked, Told, [Next]_vars PROVE Told'
<1>0. /\ at.browser \in Browsers /\ Browsers \subseteq Nat
      /\ Stays \/ Opens \/ FallsBack
  <2>1. Browsers \subseteq Nat
    BY ChainAssumption DEF Browsers
  <2> QED BY <2>1, Moves, PlaceHas DEF Shape
<1>1. ASSUME at'.browser = at.browser, UNCHANGED <<sent, acked>>,
             acked # {} => pc' \in {"poll", "leave", "after", "publish", "done"},
             pc' = "poll" => at.browser \in acked
      PROVE  AckedHere' /\ OnlyVerifiedIsSent' /\ (UNCHANGED reply => AnswerIsOwn')
  BY <1>1 DEF Told, AckedHere, OnlyVerifiedIsSent, AnswerIsOwn
<1> DEFINE Final == {"leave", "after", "publish", "done"}
<1>2. ASSUME UNCHANGED <<sent, acked, reply, result, stages, status>>, pc \in Final => pc' \in Final
      PROVE  SuccessIsOwn'
  BY <1>2 DEF Told, SuccessIsOwn, OwnAnswer
<1>20. ASSUME pc \notin Final PROVE result # "ok" /\ stages # "complete" /\ status # "succeeded"
  BY <1>20 DEF Told, SuccessIsOwn
<1>21. ASSUME pc \notin Final, UNCHANGED <<stages, status>>, result' # "ok" PROVE SuccessIsOwn'
  BY <1>20, <1>21 DEF SuccessIsOwn
<1>3. ASSUME NEW what, Give(what), what = "ok" => OwnAnswer, pc \in AtBrowser,
             UNCHANGED <<sent, acked, reply, status, cancel>>
      PROVE  Told'
  <2>1. pc' = "leave" /\ at'.browser = at.browser
    BY <1>0, <1>3 DEF Give, Stays, Opens, FallsBack
  <2>2. AckedHere' /\ OnlyVerifiedIsSent' /\ AnswerIsOwn'
    BY <1>1, <1>3, <2>1
  <2>3. SuccessIsOwn'
    <3>1. result # "ok" /\ stages # "complete" /\ status # "succeeded"
      BY <1>3, <1>20 DEF AtBrowser, Filling, Committed
    <3>2. result' = what /\ (stages' = "complete" => what = "ok")
      BY <1>3, <3>1 DEF Give, Record
    <3>3. OwnAnswer => OwnAnswer'
      BY <1>3 DEF OwnAnswer
    <3> QED BY <1>3, <2>1, <3>1, <3>2, <3>3 DEF SuccessIsOwn
  <2> QED BY <2>1, <2>2, <2>3 DEF Told, StoppedShort
<1>4. CASE pc \in AtBrowser /\ Fails
  BY <1>3, <1>4 DEF Fails, site
<1>5. CASE NoticeCancel \/ PollCancelled \/ Deadline
  <2>1. pc \in AtBrowser
    BY <1>5 DEF NoticeCancel, PollCancelled, Deadline, AtBrowser, Filling, Committed
  <2> QED BY <1>3, <1>5, <2>1 DEF NoticeCancel, PollCancelled, Deadline, site
<1>6. ASSUME at'.browser = at.browser, pc \in AtBrowser \ {"poll"},
             pc' \in AtBrowser \ {"click", "poll"},
             UNCHANGED <<sent, acked, reply, result, stages, status, cancel>>
      PROVE  Told'
  <2>1. acked = {} /\ pc' # "poll"
    BY <1>6 DEF Told, AckedHere, AtBrowser, Filling, Committed
  <2>2. SuccessIsOwn'
    <3>1. pc \notin Final
      BY <1>6 DEF AtBrowser, Filling, Committed
    <3> QED BY <1>6, <1>20, <1>21, <3>1
  <2> QED BY <1>1, <1>6, <2>1, <2>2 DEF Told, StoppedShort
<1>7. CASE Open \/ Write
  <2>1. at'.browser = at.browser
    BY <1>0, <1>7 DEF Stays, Opens, FallsBack, Open, Write
  <2> QED BY <1>6, <1>7, <2>1 DEF Open, Write, AtBrowser, Filling, Committed, job
<1>8. CASE WriteRejected \/ Verify \/ Presubmit
  <2>1. at'.browser = at.browser /\ pc \in Filling
    BY <1>0, <1>8 DEF WriteRejected, Verify, Presubmit, Stays, Opens, FallsBack, Filling
  <2>2. UNCHANGED <<sent, acked, reply, status, cancel>>
    BY <1>8 DEF WriteRejected, Verify, Presubmit
  <2>3. \/ pc' \in Filling \cup {"gate"} /\ UNCHANGED <<result, stages>>
        \/ Give("failed")
    BY <1>8 DEF WriteRejected, Verify, Presubmit, NotDelivered, Filling
  <2> QED BY <1>3, <1>6, <2>1, <2>2, <2>3 DEF AtBrowser, Filling, Committed
<1>9. CASE Inspect
  <2>1. \/ at' = at /\ pc' = "write" /\ UNCHANGED <<result, stages>>
        \/ Give("failed")
    BY <1>9 DEF Inspect, Proceed
  <2>2. pc = "inspect" /\ UNCHANGED <<sent, acked, reply, status, cancel>>
    BY <1>9 DEF Inspect, site
  <2> QED BY <1>3, <1>6, <2>1, <2>2 DEF AtBrowser, Filling, Committed
<1>10. CASE Gate
  <2>1. pc = "gate" /\ UNCHANGED <<sent, acked, reply, status, cancel>>
    BY <1>10 DEF Gate, site
  <2>2. CASE Give("failed")
    BY <1>3, <2>1, <2>2 DEF AtBrowser, Committed
  <2>3. CASE Proceed("click")
    <3>1. acked = {}
      BY <2>1 DEF Told, AckedHere
    <3>2. SuccessIsOwn'
      BY <1>2, <2>1, <2>3 DEF Proceed
    <3> QED BY <1>1, <2>1, <2>3, <3>1, <3>2 DEF Proceed, Told, StoppedShort
  <2> QED BY <1>10, <2>2, <2>3 DEF Gate
<1>11. CASE Press
  <2>1. PICK lands, told \in BOOLEAN :
          /\ IF lands
             THEN /\ Composer \in Texts
                  /\ sent' = sent \cup {<<at.browser, Composer>>}
                  /\ reply' \in Echoes(Composer)
             ELSE UNCHANGED <<sent, reply>>
          /\ IF told
             THEN /\ acked' = acked \cup {at.browser}
                  /\ pc' = "poll"
                  /\ UNCHANGED <<result, stages, at>>
             ELSE Give("failed") /\ UNCHANGED acked
    BY <1>11 DEF Press
  <2>2. pc = "click" /\ UNCHANGED <<status, cancel>>
    BY <1>11 DEF Press
  <2>3. at'.browser = at.browser
    BY <1>0, <2>1, <2>2 DEF Stays, Opens, FallsBack
  <2>4. pc' \in {"poll", "leave"} /\ (pc' = "poll" => at.browser \in acked')
    BY <2>1 DEF Give
  <2>5. acked = {} /\ acked' \subseteq {at.browser}
    BY <2>1, <2>2 DEF Told, AckedHere
  <2>6. sent \subseteq sent' /\ \A s \in sent' : s \in sent \/ s = <<at.browser, Composer>>
    BY <2>1
  <2>7. AckedHere'
    <3>1. at.browser <= at.browser /\ <<at.browser, Composer>>[1] = at.browser
      BY <1>0, ChainOrder
    <3>2. \A s \in sent' : s[1] \in Browsers /\ s[1] <= at.browser
      BY <1>0, <2>6, <3>1 DEF Told, AckedHere
    <3> QED BY <2>3, <2>4, <2>5, <3>2 DEF AckedHere
  <2>8. OnlyVerifiedIsSent'
    BY <2>1, <2>2 DEF Told, OnlyVerifiedIsSent, Looked, Committed, Texts, Typed
  <2>9. AnswerIsOwn'
    <3>1. CASE lands
      <4>1. Composer \in {"prompt", "slipped"} /\ <<at.browser, Composer>> \in sent'
        BY <2>1, <2>2, <3>1 DEF Looked, Committed, Texts, Typed
      <4>2. reply' = "altered echo" => reply = "altered echo" \/ Composer = "slipped"
        BY <2>1, <3>1, <4>1 DEF Echoes
      <4> QED BY <2>3, <2>6, <4>1, <4>2 DEF Told, AnswerIsOwn
    <3>2. CASE ~lands
      <4>1. sent' = sent /\ reply' = reply
        BY <2>1, <3>2
      <4> QED BY <2>3, <4>1 DEF Told, AnswerIsOwn
    <3> QED BY <3>1, <3>2
  <2>10. SuccessIsOwn'
    <3>1. result # "ok" /\ stages # "complete" /\ status # "succeeded"
      BY <1>20, <2>2
    <3>2. result' # "ok" /\ stages' # "complete"
      BY <2>1, <3>1 DEF Give, Record
    <3> QED BY <2>2, <3>1, <3>2 DEF SuccessIsOwn
  <2> QED BY <2>4, <2>7, <2>8, <2>9, <2>10 DEF Told, StoppedShort
<1>12. CASE PollReads
  <2>1. pc = "poll" /\ UNCHANGED <<sent, acked, reply, status, cancel>>
    BY <1>12 DEF PollReads, site
  <2>2. \/ Give("ok") /\ reply \in {"altered echo", "answer"}
        \/ pc' = "poll" /\ UNCHANGED <<result, stages>>
    <3>1. Shown => reply \in {"altered echo", "answer"}
      <4>1. \A m \in Marked : m = <<"this", reply>> \/ m = <<"earlier", "answer">>
        BY DEF Marked
      <4>2. <<"this", reply>>[2] = reply /\ <<"earlier", "answer">>[1] # "this"
        OBVIOUS
      <4> QED BY <4>1, <4>2 DEF Shown
    <3> QED BY <1>12, <3>1 DEF PollReads
  <2>3. reply \in {"altered echo", "answer"} => OwnAnswer
    BY <2>1 DEF Told, AckedHere, AnswerIsOwn, OwnAnswer
  <2>4. CASE Give("ok") /\ reply \in {"altered echo", "answer"}
    BY <1>3, <2>1, <2>3, <2>4 DEF AtBrowser
  <2>5. CASE pc' = "poll" /\ UNCHANGED <<result, stages>>
    <3>1. at'.browser = at.browser
      BY <1>0, <2>5 DEF Stays, Opens, FallsBack
    <3>2. SuccessIsOwn'
      BY <1>2, <2>1, <2>5
    <3> QED BY <1>1, <2>1, <2>5, <3>1, <3>2 DEF Told, AckedHere, StoppedShort
  <2> QED BY <2>2, <2>4, <2>5
<1>13. CASE Leave
  BY <1>1, <1>2, <1>13 DEF Leave, Told, AckedHere, StoppedShort, job
<1>14. CASE StartWork \/ Begin \/ NextBrowser
  <2>1. pc \in {"start", "request", "next"} /\ acked = {}
    BY <1>14 DEF StartWork, Begin, NextBrowser, Told, AckedHere
  <2>2. pc' \notin {"poll", "click"} /\ UNCHANGED <<at, sent, acked, reply, status, cancel, stages>>
    BY <1>14 DEF StartWork, Begin, NextBrowser, job, site
  <2>3. result' # "ok" \/ result' = result
    BY <1>14 DEF StartWork, Begin, NextBrowser, job
  <2>4. SuccessIsOwn'
    BY <1>20, <1>21, <2>1, <2>2, <2>3
  <2> QED BY <1>1, <2>1, <2>2, <2>4 DEF Told, StoppedShort
<1>15. CASE After
  <2>1. pc = "after" /\ pc' \in {"next", "publish"} /\ UNCHANGED <<job, sent, acked>>
    BY <1>15 DEF After
  <2>2. StoppedShort' /\ OnlyVerifiedIsSent'
    BY <2>1 DEF Told, StoppedShort, OnlyVerifiedIsSent, job
  <2>3. CASE pc' = "next"
    <3>1. reply' = "absent" /\ at.browser \notin acked
      BY <1>15, <2>3 DEF After, MayFallBack
    <3>2. acked = {}
      BY <3>1 DEF Told, AckedHere
    <3>3. at'.browser = at.browser \/ at'.browser = at.browser + 1
      BY <1>0 DEF Stays, Opens, FallsBack
    <3>4. AckedHere'
      <4>1. \A s \in sent : s[1] \in Browsers /\ s[1] <= at.browser
        BY DEF Told, AckedHere
      <4>2. \A b \in Browsers : b <= at.browser => b <= at'.browser
        BY <1>0, <3>3, ChainOrder
      <4>3. \A s \in sent' : s[1] \in Browsers /\ s[1] <= at'.browser
        BY <2>1, <4>1, <4>2
      <4> QED BY <2>1, <2>3, <3>2, <4>3 DEF AckedHere
    <3>5. SuccessIsOwn'
      <4>1. result = "failed"
        BY <1>15, <2>3 DEF After, MayFallBack
      <4>2. result' # "ok" /\ stages' # "complete" /\ status' # "succeeded"
        BY <2>1, <4>1 DEF Told, SuccessIsOwn, job
      <4> QED BY <4>2 DEF SuccessIsOwn
    <3> QED BY <2>2, <3>1, <3>4, <3>5 DEF Told, AnswerIsOwn
  <2>4. CASE pc' = "publish"
    <3>1. UNCHANGED <<at, reply>>
      BY <1>15, <2>4 DEF After
    <3>2. SuccessIsOwn'
      BY <1>2, <2>1, <2>4, <3>1 DEF job
    <3> QED BY <1>1, <2>1, <2>2, <2>4, <3>1, <3>2 DEF Told
  <2> QED BY <2>1, <2>3, <2>4
<1>16. CASE Publish
  <2>1. pc' = "done" /\ UNCHANGED <<cancel, result, stages, at, sent, acked, reply>>
    BY <1>16 DEF Publish, site
  <2>2. SuccessIsOwn'
    BY <1>16, <2>1 DEF Publish, Told, SuccessIsOwn, OwnAnswer
  <2> QED BY <1>1, <2>1, <2>2 DEF Told, StoppedShort
<1>17. CASE \/ HomeStop \/ StopJob \/ ReplyCloses \/ UNCHANGED vars
            \/ \E w \in Windows : UserTypes(w) \/ UserCloses(w)
  <2>1. UNCHANGED <<pc, at, sent, acked, result, stages>>
    BY <1>17 DEF HomeStop, StopJob, ReplyCloses, UserTypes, UserCloses, job, turn, site, vars
  <2>2. /\ status' = "succeeded" => status = "succeeded"
        /\ reply' = reply \/ (reply \in {"echo", "altered echo"} /\ reply' = "answer")
        /\ cancel' = "early" => cancel = "early" \/ pc # "click"
    BY <1>17 DEF HomeStop, StopJob, ReplyCloses, UserTypes, UserCloses, job, site, vars
  <2>3. OwnAnswer => OwnAnswer'
    BY <2>1, <2>2 DEF OwnAnswer
  <2> QED
    BY <2>1, <2>2, <2>3 DEF Told, AckedHere, OnlyVerifiedIsSent, AnswerIsOwn, SuccessIsOwn,
                            StoppedShort
<1> QED
  BY <1>4, <1>5, <1>7, <1>8, <1>9, <1>10, <1>11, <1>12, <1>13, <1>14, <1>15, <1>16, <1>17
     DEF Next, Step, Candidate, AppMissing, PageUnusable, ModelUnconfirmed, UploadRefused,
         SendMissing, DriverRaises, DomUnhealthy, AtBrowser, Committed

-----------------------------------------------------------------------------
LEMMA Invariance == Spec => []IInv
<1>1. IInv /\ [Next]_vars => IInv'
  BY ShapeStays, AtHandStays, ToldStays DEF IInv, AtHand, Told
<1> QED BY <1>1, InitIInv, PTL DEF Spec

\* However long the chain and however often a click is misreported, no later
\* browser is sent anything once a Send press was reported as done.
THEOREM NothingAfterAcknowledged == Spec => []AcknowledgedIsLast
<1>1. IInv => AcknowledgedIsLast
  BY DEF IInv, AckedHere, AcknowledgedIsLast
<1> QED BY <1>1, Invariance, PTL

\* What is sent is the prompt, or what the user typed after the last look.
THEOREM VerifiedBeforeSent == Spec => []OnlyVerifiedIsSent
<1>1. IInv => OnlyVerifiedIsSent
  BY DEF IInv
<1> QED BY <1>1, Invariance, PTL

\* A success, and a record that says "complete", rest on an answer to what was
\* sent in the browser whose Send press was reported as done: the exact prompt,
\* or one the user went on typing in after the last look, whose echo with his
\* words between the markers passes for its answer.
THEOREM SuccessIsAnswered == Spec => []SuccessIsOwnAnswer
<1>1. IInv => SuccessIsOwnAnswer
  BY DEF IInv, SuccessIsOwn, OwnAnswer, SuccessIsOwnAnswer
<1> QED BY <1>1, Invariance, PTL

\* A stop that came before the last gate leaves nothing to be sent.
THEOREM EarlyStopHolds == Spec => EarlyStopPreventsSend
<1>1. IInv /\ [Next]_vars => [cancel = "early" => sent' = sent]_vars
  <2> SUFFICES ASSUME IInv, Next, cancel = "early" PROVE sent' = sent
    OBVIOUS
  <2>1. ~Press
    BY DEF IInv, StoppedShort, Press
  <2> QED
    BY <2>1
       DEF Next, Step, Candidate, StartWork, Begin, NextBrowser, NoticeCancel, AppMissing, Open,
           PageUnusable, ModelUnconfirmed, UploadRefused, Inspect, Write, WriteRejected, Verify,
           Presubmit, Gate, SendMissing, PollCancelled, Deadline, Leave, After, Publish,
           DriverRaises, PollReads, DomUnhealthy, Fails, HomeStop, StopJob, ReplyCloses,
           UserTypes, UserCloses, site
<1> QED BY <1>1, Invariance, PTL DEF Spec, EarlyStopPreventsSend

\* A draft that was there before the turn is not written over, cleared or
\* sent, in whatever order the windows are looked at.
THEOREM DraftsStay == Spec => DraftIsLeftAlone
<1>1. IInv /\ [Next]_vars =>
        [\A w \in Windows : composer[w] = "draft" => composer'[w] \in {"draft", "closed"}]_vars
  BY DraftStays DEF IInv, AtHand
<1> QED BY <1>1, Invariance, PTL DEF Spec, DraftIsLeftAlone

-----------------------------------------------------------------------------
(* A request with files, and the types.                                    *)

\* A turn that has files to upload does not get as far as writing.
FilesHoldBack ==
    attachments => pc \notin Filling \cup Committed \cup {"poll"} /\ sent = {}

LEMMA FilesStay == FilesHoldBack /\ [Next]_vars => FilesHoldBack'
<1> SUFFICES ASSUME FilesHoldBack, [Next]_vars PROVE FilesHoldBack'
  OBVIOUS
<1> USE DEF FilesHoldBack, Filling, Committed, Give, Fails, Proceed, NotDelivered, job, turn, site
<1>1. CASE StartWork \/ Begin \/ NextBrowser \/ After \/ Publish \/ Leave
  BY <1>1 DEF StartWork, Begin, NextBrowser, After, Publish, Leave
<1>2. CASE NoticeCancel \/ AppMissing \/ PageUnusable \/ ModelUnconfirmed \/ UploadRefused
           \/ SendMissing \/ DriverRaises \/ DomUnhealthy \/ PollCancelled \/ Deadline
  BY <1>2 DEF NoticeCancel, AppMissing, PageUnusable, ModelUnconfirmed, UploadRefused,
              SendMissing, DriverRaises, DomUnhealthy, PollCancelled, Deadline
<1>3. CASE Open
  BY <1>3 DEF Open
<1>4. CASE Inspect
  BY <1>4 DEF Inspect
<1>5. CASE Write \/ WriteRejected \/ Verify \/ Presubmit \/ Gate \/ PollReads \/ Press
  BY <1>5 DEF Write, WriteRejected, Verify, Presubmit, Gate, PollReads, Press
<1>6. CASE \/ HomeStop \/ StopJob \/ ReplyCloses \/ UNCHANGED vars
           \/ \E w \in Windows : UserTypes(w) \/ UserCloses(w)
  BY <1>6 DEF HomeStop, StopJob, ReplyCloses, UserTypes, UserCloses, vars
<1> QED
  BY ONLY [Next]_vars, <1>1, <1>2, <1>3, <1>4, <1>5, <1>6 DEF Next, Step, Candidate

\* Files are never dropped: a request with attachments sends nothing at all,
\* in no browser of the chain.
THEOREM FilesAreNotDropped == Spec => []NothingSentWithoutFiles
<1>1. Init => FilesHoldBack
  BY DEF Init, FilesHoldBack, Filling, Committed
<1>2. FilesHoldBack => NothingSentWithoutFiles
  BY DEF FilesHoldBack, NothingSentWithoutFiles
<1> QED BY <1>1, <1>2, FilesStay, PTL DEF Spec

\* The flags of TypeOK, apart from the Boolean; the rest is in Shape.
Stages == {"start", "request", "next", "leave", "after", "publish", "done"} \cup AtBrowser
Progress ==
    /\ status \in {"running", "stopped", "succeeded", "failed"}
    /\ cancel \in {"no", "early", "late"}
    /\ result \in {"none", "ok", "cancelled", "failed", "timed out"}
    /\ stages \in {"open", "complete", "cancelled", "failed"}
    /\ pc \in Stages
    /\ older \in BOOLEAN /\ reply \in Replies
    /\ mishaps \in 0 .. MaxMishaps

LEMMA OneMoreMishap == ASSUME mishaps \in 0 .. MaxMishaps, Mishap PROVE mishaps' \in 0 .. MaxMishaps
  BY ChainAssumption DEF Mishap

LEMMA ProgressStays == ASSUME Progress, [Next]_vars PROVE Progress'
<1> USE OneMoreMishap
    DEF Progress, Stages, AtBrowser, Filling, Committed, Give, Record, Fails, Proceed,
        NotDelivered, Charged, job, turn, site
<1>1. CASE StartWork \/ Begin \/ NextBrowser
  BY <1>1 DEF StartWork, Begin, NextBrowser
<1>2. CASE NoticeCancel \/ AppMissing \/ PageUnusable \/ ModelUnconfirmed \/ UploadRefused
           \/ SendMissing \/ DriverRaises \/ DomUnhealthy \/ PollCancelled \/ Deadline
  BY <1>2 DEF NoticeCancel, AppMissing, PageUnusable, ModelUnconfirmed, UploadRefused,
              SendMissing, DriverRaises, DomUnhealthy, PollCancelled, Deadline
<1>3. CASE Open \/ Inspect \/ Gate \/ PollReads
  BY <1>3 DEF Open, Inspect, Gate, PollReads
<1>4. CASE Write
  BY <1>4 DEF Write
<1>5. CASE WriteRejected
  BY <1>5 DEF WriteRejected
<1>6. CASE Verify
  BY <1>6 DEF Verify
<1>7. CASE Presubmit
  BY <1>7 DEF Presubmit
<1>8. CASE Press
  <2>1. /\ UNCHANGED <<status, cancel>> /\ older' = older /\ reply' \in Replies
        /\ UNCHANGED mishaps \/ Mishap
    BY <1>8 DEF Press, Echoes, Replies
  <2>2. (pc' = "poll" /\ UNCHANGED <<result, stages>>) \/ Give("failed")
    BY ONLY <1>8 DEF Press
  <2>3. mishaps' \in 0 .. MaxMishaps
    BY <2>1
  <2> QED BY <2>1, <2>2, <2>3
<1>9. CASE Leave
  BY <1>9 DEF Leave, CloseTurnWindow
<1>10. CASE After
  BY <1>10 DEF After, Replies
<1>11. CASE Publish
  BY <1>11 DEF Publish
<1>12. CASE HomeStop
  BY <1>12 DEF HomeStop
<1>13. CASE StopJob \/ ReplyCloses \/ UNCHANGED vars
  BY <1>13 DEF StopJob, ReplyCloses, Replies, vars
<1>14. ASSUME NEW w \in Windows, UserTypes(w) \/ UserCloses(w) PROVE Progress'
  BY <1>14 DEF UserTypes, UserCloses
<1> QED
  BY ONLY [Next]_vars, <1>1, <1>2, <1>3, <1>4, <1>5, <1>6, <1>7, <1>8, <1>9, <1>10, <1>11,
     <1>12, <1>13, <1>14
     DEF Next, Step, Candidate

\* What was sent is a text in a browser of the chain.
LEMMA SentStays ==
    ASSUME Shape, sent \subseteq Browsers \X Texts, [Next]_vars
    PROVE  sent' \subseteq Browsers \X Texts
<1>1. CASE Press
  <2>1. at.browser \in Browsers
    BY PlaceHas DEF Shape
  <2>2. sent' = sent \/ (Composer \in Texts /\ sent' = sent \cup {<<at.browser, Composer>>})
    BY <1>1 DEF Press
  <2> QED BY <2>1, <2>2
<1>2. CASE ~Press
  BY <1>2
     DEF Next, Step, Candidate, StartWork, Begin, NextBrowser, NoticeCancel, AppMissing, Open,
         PageUnusable, ModelUnconfirmed, UploadRefused, Inspect, Write, WriteRejected, Verify,
         Presubmit, Gate, SendMissing, PollCancelled, Deadline, Leave, After, Publish,
         DriverRaises, PollReads, DomUnhealthy, Fails, HomeStop, StopJob, ReplyCloses,
         UserTypes, UserCloses, site, vars
<1> QED BY <1>1, <1>2

LEMMA AttachmentsStay == [Next]_vars => attachments' = attachments
  BY DEF Next, Step, Candidate, StartWork, Begin, NextBrowser, NoticeCancel, AppMissing, Open,
         PageUnusable, ModelUnconfirmed, UploadRefused, Inspect, Write, WriteRejected, Verify,
         Presubmit, Gate, SendMissing, Press, PollCancelled, Deadline, Leave, After, Publish,
         DriverRaises, PollReads, DomUnhealthy, Fails, HomeStop, StopJob, ReplyCloses,
         UserTypes, UserCloses, job, vars

\* A turn keeps its shape for any chain and any number of interventions.
THEOREM TypeCorrect == Spec => []TypeOK
<1> DEFINE Sent == sent \subseteq Browsers \X Texts
           Files == attachments \in BOOLEAN
<1>1. Init => Progress /\ Sent /\ Files
  BY ChainAssumption DEF Init, Progress, Stages, Replies
<1>2. Progress /\ [Next]_vars => Progress'
  BY ProgressStays
<1>3. IInv /\ Sent /\ [Next]_vars => Sent'
  BY SentStays DEF IInv
<1>4. Files /\ [Next]_vars => Files'
  BY AttachmentsStay
<1>5. IInv /\ Progress /\ Sent /\ Files => TypeOK
  <2> SUFFICES ASSUME IInv, Progress, Sent, Files PROVE TypeOK
    OBVIOUS
  <2>1. at \in Places /\ at.browser \in Browsers /\ acked \subseteq Browsers
    BY PlaceHas DEF IInv, Shape, AckedHere
  <2> QED BY <2>1 DEF IInv, Shape, Progress, Stages, Places, TypeOK
<1> HIDE DEF Sent, Files
<1> QED BY <1>1, <1>2, <1>3, <1>4, <1>5, Invariance, PTL DEF Spec

-----------------------------------------------------------------------------
(* The slot.  Its invariant: whoever left a mark is there to remove it.     *)

Locked == {"write", "next", "leave", "after", "release", "dead"} \cup InBrowser

\* The lock file is its creator's, who is on the way to its release or died.
FileIsOwned == file = NoFile \/ (file.by \in Turns /\ doing[file.by] \in Locked)

\* A session slot belongs to a turn of its process that still retires it.
SlotIsOwned ==
    \A p \in Procs : session[p] # NoTurn =>
        /\ Proc[session[p]] = p
        /\ doing[session[p]] \in {"leave", "next", "after", "release"} \cup InBrowser

\* Where the event is set, a turn of that process is still to clear it.
EventIsOwned ==
    \A p \in Procs : generating[p] =>
        \E t \in Turns : Proc[t] = p /\ doing[t] \in {"poll", "leave"}

SlotInv == SlotTypeOK /\ FileIsOwned /\ SlotIsOwned /\ EventIsOwned /\ PollerOwnsSession

LEMMA InitSlot == SlotInit => SlotInv
  BY ProcAssumption, BoundsAssumption
     DEF SlotInit, SlotInv, SlotTypeOK, FileIsOwned, SlotIsOwned, EventIsOwned, PollerOwnsSession,
         NoFile, InBrowser, BeforeLock

LEMMA TurnKeepsSlot == ASSUME SlotInv, NEW t \in Turns, TurnStep(t) PROVE SlotInv'
<1> USE ProcAssumption, BoundsAssumption
    DEF SlotInv, SlotTypeOK, FileIsOwned, SlotIsOwned, EventIsOwned, PollerOwnsSession, NoFile,
        Locked, InBrowser, BeforeLock, Over, Goto, Slot, process, world
<1>1. CASE LookAtLock(t)
  BY <1>1 DEF LookAtLock
<1>2. CASE UnlinkLock(t)
  BY <1>2 DEF UnlinkLock
<1>3. CASE CreateLock(t)
  BY <1>3 DEF CreateLock
<1>4. CASE WriteLock(t)
  BY <1>4 DEF WriteLock
<1>5. CASE TakeSlot(t)
  BY <1>5 DEF TakeSlot, SlotFree
<1>6. CASE Submit(t)
  BY <1>6 DEF Submit
<1>7. CASE EndCandidate(t)
  BY <1>7 DEF EndCandidate, Retired
<1>8. CASE LeaveBrowser(t)
  BY <1>8 DEF LeaveBrowser
<1>9. CASE AfterCandidate(t)
  BY <1>9 DEF AfterCandidate, Retired
<1>10. CASE Release(t)
  BY <1>10 DEF Release, Retired
<1> QED
  BY <1>1, <1>2, <1>3, <1>4, <1>5, <1>6, <1>7, <1>8, <1>9, <1>10 DEF TurnStep

LEMMA KeepsSlot == SlotInv /\ [SlotNext]_slotVars => SlotInv'
<1> SUFFICES ASSUME SlotInv, [SlotNext]_slotVars PROVE SlotInv'
  OBVIOUS
<1> USE ProcAssumption, BoundsAssumption
    DEF SlotInv, SlotTypeOK, FileIsOwned, SlotIsOwned, EventIsOwned, PollerOwnsSession, NoFile,
        Locked, InBrowser, BeforeLock, Over, Goto, Slot, process, progress, world
<1>1. ASSUME NEW t \in Turns, TurnStep(t) PROVE SlotInv'
  BY <1>1, TurnKeepsSlot
<1>2. ASSUME NEW t \in Turns, TryAgain(t) PROVE SlotInv'
  BY <1>2 DEF TryAgain
<1>3. CASE LockAges \/ LegacyEnds
  BY <1>3 DEF LockAges, LegacyEnds
<1>4. ASSUME NEW p \in Procs, Crash(p) PROVE SlotInv'
  BY <1>4 DEF Crash
<1>5. CASE UNCHANGED slotVars
  BY <1>5 DEF slotVars
<1> QED
  BY <1>1, <1>2, <1>3, <1>4, <1>5 DEF SlotNext

LEMMA SlotInvariance == SlotSpec => []SlotInv
  BY InitSlot, KeepsSlot, PTL DEF SlotSpec

\* Lock file, slots and turns keep their shape.
THEOREM SlotTypeCorrect == SlotSpec => []SlotTypeOK
  BY SlotInvariance, PTL DEF SlotInv

\* Whoever waits for an answer owns the session of its process, even where
\* the lock file let several turns in.
THEOREM PollersOwnTheirSession == SlotSpec => []PollerOwnsSession
  BY SlotInvariance, PTL DEF SlotInv

\* So no two turns of a process are at a browser together.
THEOREM TurnsExclude == SlotSpec => []OneTurnPerProcess
<1>1. SlotInv => OneTurnPerProcess
  BY DEF SlotInv, PollerOwnsSession, OneTurnPerProcess, Slot
<1> QED BY <1>1, SlotInvariance, PTL

\* When no turn is at work, the only trace a turn may have left is the lock
\* file of one whose process died.
THEOREM NothingStays == SlotSpec => []NothingLeftBehind
<1>1. SlotInv => NothingLeftBehind
  BY ProcAssumption DEF SlotInv, SlotTypeOK, FileIsOwned, SlotIsOwned, EventIsOwned, NothingLeftBehind,
         Working, BeforeLock, Over, Locked, InBrowser
<1> QED BY <1>1, SlotInvariance, PTL
=============================================================================
