------------------------ MODULE OwnerPermission_proofs ------------------------
(***************************************************************************)
(* The safety of the owner-decision protocol, for any number of requests,  *)
(* owners, stops, reapers and crashes.                                     *)
(***************************************************************************)
EXTENDS OwnerPermission, TLAPS

Handling == {"register", "waiting", "woken", "answering"}

\* What the worker's handler has in hand at each of its stages.
HandlerState ==
    /\ stage \in Handling => asked \in Requests /\ answer[asked] = "none"
    /\ stage = "waiting" => live.id \in {0, asked}
    /\ stage \in {"woken", "answering"} => live.id = 0 /\ future \in Decisions

\* Nothing is known of a request before the provider makes it.
NotAskedYet ==
    \A r \in Requests : r > asked => answer[r] = "none" /\ accepted[r] = {}

\* The record agrees with what owners were told.
RecordAgrees ==
    /\ slot.state = "pending" => slot.id \in 1 .. asked /\ accepted[slot.id] = {}
    /\ slot.state = "resolved" =>
          /\ slot.id \in Requests /\ slot.decision \in Decisions
          /\ accepted[slot.id] = {slot.decision}

\* So does whatever is on its way to the handler.
DeliveryAgrees ==
    stage \in {"waiting", "woken", "answering"} =>
        /\ future \in Decisions => accepted[asked] = {future}
        /\ scheduled \in Decisions => accepted[asked] = {scheduled}

ErrandsAgree ==
    \A o \in Owners :
        /\ pc[o] \in {"decide", "deliver"} =>
              errand[o].request \in 1 .. asked /\ errand[o].decision \in Decisions
        /\ pc[o] = "deliver" => accepted[errand[o].request] = {errand[o].decision}

OneDecision ==
    \A r \in Requests :
        /\ accepted[r] \subseteq Offered(r)
        /\ accepted[r] = {} \/ \E d \in Decisions : accepted[r] = {d}
        /\ answer[r] = "allow" => accepted[r] = {"allow"}

\* Until somebody claims the end, the status says whether the handler waits.
Pace ==
    status \in Open /\ claim = NoActor =>
        /\ stage \in {"register", "waiting", "woken"} => status = "awaiting_input"
        /\ stage \in {"turn", "answering"} => status = "running"
        /\ stage = "waiting" => scheduled # "cancelled" /\ future # "cancelled"

\* Whoever settles has ended the job or claimed its end.
EndIsClaimed ==
    \A e \in Enders :
        pc[e] \in {"settle", "settleLive", "publish"} => Phase # "open"

IInv ==
    /\ TypeOK /\ HandlerState /\ NotAskedYet /\ RecordAgrees /\ DeliveryAgrees
    /\ ErrandsAgree /\ OneDecision /\ Pace /\ EndIsClaimed

-----------------------------------------------------------------------------
(* The records and the operators that change them. *)

LEMMA Values ==
    /\ NoSlot \in Slots /\ NoSlot.id = 0 /\ NoSlot.state = "none"
    /\ NoWait \in Waits /\ NoWait.id = 0
    /\ \A r \in Requests :
          /\ Pending(r) \in Slots /\ Pending(r).id = r /\ Pending(r).state = "pending"
          /\ [id |-> r, resolved |-> FALSE] \in Waits
  BY MaxRequestsAssumption
     DEF NoSlot, Slots, NoWait, Waits, Pending, Requests, Decisions

LEMMA Settling ==
    ASSUME slot \in Slots, NEW outcome \in {"expired", "cancelled"}
    PROVE  /\ Settled(outcome) \in Slots
           /\ Settled(outcome).state # "pending"
           /\ Settled(outcome).state = "resolved" => Settled(outcome) = slot
  BY DEF Settled, Slots

LEMMA SettlingLive ==
    ASSUME live \in Waits, NEW inHome, SettleLive(inHome)
    PROVE  /\ live' \in Waits /\ live' \in {live, NoWait} /\ NoWait.id = 0
           /\ scheduled' \in {scheduled, "cancelled"}
  BY Values DEF SettleLive

LEMMA ResolvingLive ==
    ASSUME live \in Waits, NEW r \in Requests, NEW d \in Decisions, ResolveLive(r, d)
    PROVE  /\ live' \in Waits /\ live'.id = live.id
           /\ scheduled' = scheduled \/ (scheduled' = d /\ live.id = r)
<1>1. CASE live.id = r /\ ~live.resolved
  <2>1. live' = [id |-> live.id, resolved |-> TRUE] /\ scheduled' = d
    BY <1>1 DEF ResolveLive, Waits
  <2> QED BY <1>1, <2>1 DEF Waits
<1>2. CASE ~(live.id = r /\ ~live.resolved)
  BY <1>2 DEF ResolveLive
<1> QED BY <1>1, <1>2

LEMMA Resolved ==
    ASSUME slot \in Slots, NEW d \in Decisions
    PROVE  [id |-> slot.id, state |-> "resolved", decision |-> d] \in Slots
  BY DEF Slots

LEMMA Remembered ==
    ASSUME NEW r \in Requests, NEW d \in Decisions, NEW o
    PROVE  [request |-> r, decision |-> d, saw |-> o \in Home /\ live.id = r] \in Errands
<1>1. r \in 0 .. MaxRequests
  BY MaxRequestsAssumption DEF Requests
<1>2. (o \in Home /\ live.id = r) \in BOOLEAN
  OBVIOUS
<1> QED BY <1>1, <1>2 DEF Errands

LEMMA Asking ==
    ASSUME TypeOK, Ask
    PROVE  /\ asked' = asked + 1 /\ asked + 1 \in Requests /\ asked' \in 0 .. MaxRequests
           /\ Pending(asked + 1) \in Slots /\ Pending(asked + 1).id = asked + 1
           /\ Pending(asked + 1).state = "pending"
<1>1. asked \in 0 .. MaxRequests /\ asked < MaxRequests /\ asked' = asked + 1
  BY DEF TypeOK, Ask
<1>2. asked + 1 \in Requests /\ asked + 1 \in 0 .. MaxRequests
  BY <1>1, MaxRequestsAssumption DEF Requests
<1> QED BY <1>1, <1>2, Values

\* A decision is accepted only for a request that has none.
LEMMA Accepting ==
    ASSUME TypeOK, RecordAgrees, ErrandsAgree, NEW o \in Owners, DecisionAccepted(o)
    PROVE  LET r == errand[o].request
               d == errand[o].decision
           IN  /\ r \in 1 .. asked /\ r \in Requests /\ d \in Decisions /\ d \in Offered(r)
               /\ accepted[r] = {} /\ accepted' = [accepted EXCEPT ![r] = {d}]
               /\ slot' = [id |-> r, state |-> "resolved", decision |-> d]
               /\ slot' \in Slots
<1> DEFINE r == errand[o].request
           d == errand[o].decision
<1>1. /\ pc[o] = "decide" /\ slot.state = "pending" /\ slot.id = r /\ d \in Offered(r)
      /\ slot' = [id |-> slot.id, state |-> "resolved", decision |-> d]
      /\ accepted' = [accepted EXCEPT ![r] = accepted[r] \cup {d}]
  BY DEF DecisionAccepted, Rejected, TypeOK
<1>2. r \in 1 .. asked /\ d \in Decisions /\ accepted[r] = {}
  BY <1>1 DEF RecordAgrees, ErrandsAgree
<1>3. r \in Requests
  BY <1>2, MaxRequestsAssumption DEF TypeOK, Requests
<1>4. slot' \in Slots
  BY <1>1, <1>2, Resolved DEF TypeOK
<1> QED BY <1>1, <1>2, <1>3, <1>4

-----------------------------------------------------------------------------
LEMMA InitIInv == Init => IInv
<1> SUFFICES ASSUME Init PROVE IInv
  OBVIOUS
<1> USE MaxRequestsAssumption, RolesAssumption, Values
    DEF Init, Requests, Enders, Open, Terminal, Decisions
<1>1. TypeOK
  BY DEF TypeOK, Stages, NoErrand, Errands
<1>2. HandlerState /\ NotAskedYet /\ RecordAgrees /\ DeliveryAgrees
  BY DEF HandlerState, NotAskedYet, RecordAgrees, DeliveryAgrees, Handling
<1>3. ErrandsAgree /\ OneDecision /\ Pace /\ EndIsClaimed
  BY DEF ErrandsAgree, OneDecision, Pace, EndIsClaimed, Offered
<1> QED BY <1>1, <1>2, <1>3 DEF IInv

(* One lemma per part of the invariant, one step per group of actions. *)

LEMMA TypeStep ==
    TypeOK /\ HandlerState /\ RecordAgrees /\ ErrandsAgree /\ [Next]_vars
    => TypeOK'
<1> SUFFICES ASSUME TypeOK, HandlerState, RecordAgrees, ErrandsAgree, [Next]_vars
             PROVE  TypeOK'
  OBVIOUS
<1> USE MaxRequestsAssumption, RolesAssumption
    DEF TypeOK, HandlerState, RecordAgrees, ErrandsAgree, Handling, Stages, Open, Terminal,
        TurnOutcomes, Requests, Enders, Decisions, Goto, Answered, meta, registry, worker,
        callers
<1>1. CASE FutureFires \/ AnswerProvider \/ TurnEnds \/ ProviderDies
  BY <1>1 DEF FutureFires, AnswerProvider, TurnEnds, ProviderDies
<1>2. CASE Register \/ Wake \/ Resume \/ TurnAborted \/ WorkerPublishes \/ Crash
  BY <1>2, Values DEF Register, Wake, Resume, TurnAborted, WorkerPublishes, Crash
<1>3. CASE Ask
  BY <1>3, Asking DEF Ask
<1>4. CASE Poll
  BY <1>4, ResolvingLive, Values DEF Poll
<1>5. CASE FailSettles
  BY <1>5, Settling, SettlingLive DEF FailSettles
<1>6. ASSUME NEW o \in Owners, NEW r \in Requests, NEW d \in Decisions, Decide(o, r, d)
      PROVE  TypeOK'
  BY <1>6, Remembered DEF Decide
<1>7. ASSUME NEW o \in Owners, DecisionRefused(o) PROVE TypeOK'
  BY <1>7, Values DEF DecisionRefused
<1>8. ASSUME NEW o \in Owners, Tidy(o) PROVE TypeOK'
  BY <1>8, Values DEF Tidy
<1>9. ASSUME NEW o \in Owners, DecisionExpires(o) PROVE TypeOK'
  BY <1>9, Settling DEF DecisionExpires
<1>10. ASSUME NEW o \in Owners, DecisionAccepted(o) PROVE TypeOK'
  BY <1>10, Resolved DEF DecisionAccepted, Rejected
<1>11. ASSUME NEW o \in Owners, Deliver(o) PROVE TypeOK'
  BY <1>11, ResolvingLive DEF Deliver
<1>12. ASSUME NEW e \in Enders, StopMark(e) \/ ReapSettles(e) PROVE TypeOK'
  BY <1>12, Settling DEF StopMark, ReapSettles
<1>13. ASSUME NEW e \in Enders, ReapClaim(e) \/ ReapPublishes(e) PROVE TypeOK'
  BY <1>13 DEF ReapClaim, ReapPublishes
<1>14. ASSUME NEW e \in Enders, EnderSettlesLive(e) PROVE TypeOK'
  BY <1>14, SettlingLive DEF EnderSettlesLive
<1>15. CASE UNCHANGED vars
  BY <1>15 DEF vars
<1> HIDE DEF TypeOK, HandlerState, RecordAgrees, ErrandsAgree
<1> QED
  BY <1>1, <1>2, <1>3, <1>4, <1>5, <1>6, <1>7, <1>8, <1>9, <1>10, <1>11, <1>12, <1>13,
     <1>14, <1>15
     DEF Next, HandlerStep, WorkerStep, OwnerStep, EnderStep

LEMMA HandlerStateStep ==
    TypeOK /\ TypeOK' /\ HandlerState /\ NotAskedYet /\ RecordAgrees /\ ErrandsAgree /\
    [Next]_vars
    => HandlerState'
<1> SUFFICES ASSUME TypeOK, TypeOK', HandlerState, NotAskedYet, RecordAgrees, ErrandsAgree,
                    [Next]_vars
             PROVE  HandlerState'
  OBVIOUS
<1> USE MaxRequestsAssumption, RolesAssumption
    DEF TypeOK, HandlerState, NotAskedYet, RecordAgrees, ErrandsAgree, Handling, Stages,
        TurnOutcomes, Requests, Enders, Decisions, Goto, Answered, meta, registry, worker,
        callers
<1>1. CASE FutureFires \/ AnswerProvider \/ TurnEnds \/ ProviderDies
  BY <1>1 DEF FutureFires, AnswerProvider, TurnEnds, ProviderDies
<1>2. CASE Register \/ Wake \/ Resume \/ TurnAborted \/ WorkerPublishes \/ Crash
  BY <1>2, Values DEF Register, Wake, Resume, TurnAborted, WorkerPublishes, Crash
<1>3. CASE Ask
  BY <1>3, Asking DEF Ask
<1>4. CASE Poll
  BY <1>4, ResolvingLive, Values DEF Poll
<1>5. CASE FailSettles
  BY <1>5, Settling, SettlingLive DEF FailSettles
<1>6. ASSUME NEW o \in Owners, NEW r \in Requests, NEW d \in Decisions, Decide(o, r, d)
      PROVE  HandlerState'
  BY <1>6, Remembered DEF Decide
<1>7. ASSUME NEW o \in Owners, DecisionRefused(o) \/ Tidy(o) PROVE HandlerState'
  BY <1>7, Values DEF DecisionRefused, Tidy
<1>8. ASSUME NEW o \in Owners, DecisionExpires(o) PROVE HandlerState'
  BY <1>8, Settling DEF DecisionExpires
<1>9. ASSUME NEW o \in Owners, DecisionAccepted(o) PROVE HandlerState'
  BY <1>9, Resolved DEF DecisionAccepted
<1>10. ASSUME NEW o \in Owners, Deliver(o) PROVE HandlerState'
  BY <1>10, ResolvingLive DEF Deliver
<1>11. ASSUME NEW e \in Enders, StopMark(e) \/ ReapSettles(e) PROVE HandlerState'
  BY <1>11, Settling DEF StopMark, ReapSettles
<1>12. ASSUME NEW e \in Enders, ReapClaim(e) \/ ReapPublishes(e) PROVE HandlerState'
  BY <1>12 DEF ReapClaim, ReapPublishes
<1>13. ASSUME NEW e \in Enders, EnderSettlesLive(e) PROVE HandlerState'
  BY <1>13, SettlingLive DEF EnderSettlesLive
<1>14. CASE UNCHANGED vars
  BY <1>14 DEF vars
<1> HIDE DEF TypeOK, HandlerState, NotAskedYet, RecordAgrees, ErrandsAgree
<1> QED
  BY <1>1, <1>2, <1>3, <1>4, <1>5, <1>6, <1>7, <1>8, <1>9, <1>10, <1>11, <1>12, <1>13, <1>14
     DEF Next, HandlerStep, WorkerStep, OwnerStep, EnderStep

LEMMA NotAskedYetStep ==
    TypeOK /\ TypeOK' /\ HandlerState /\ NotAskedYet /\ ErrandsAgree /\ [Next]_vars
    => NotAskedYet'
<1> SUFFICES ASSUME TypeOK, TypeOK', HandlerState, NotAskedYet, ErrandsAgree, [Next]_vars
             PROVE  NotAskedYet'
  OBVIOUS
<1> USE MaxRequestsAssumption, RolesAssumption
    DEF TypeOK, HandlerState, NotAskedYet, ErrandsAgree, Handling, Requests, Enders,
        Decisions, Goto, Answered, meta, registry, worker, callers
<1>1. CASE FutureFires \/ Register \/ TurnEnds \/ FailSettles \/ WorkerPublishes \/
           ProviderDies \/ Crash
  BY <1>1 DEF FutureFires, Register, TurnEnds, FailSettles, WorkerPublishes, ProviderDies,
     Crash
<1>2. CASE Ask
  BY <1>2, Asking DEF Ask
<1>3. CASE Poll \/ Wake \/ Resume \/ AnswerProvider \/ TurnAborted
  BY <1>3 DEF Poll, Wake, Resume, AnswerProvider, TurnAborted
<1>4. ASSUME NEW o \in Owners, NEW r \in Requests, NEW d \in Decisions, Decide(o, r, d)
      PROVE  NotAskedYet'
  BY <1>4 DEF Decide
<1>5. ASSUME NEW o \in Owners, DecisionRefused(o) \/ DecisionExpires(o) \/ Deliver(o) \/
                               Tidy(o)
      PROVE  NotAskedYet'
  BY <1>5 DEF DecisionRefused, DecisionExpires, Deliver, Tidy
<1>6. ASSUME NEW o \in Owners, DecisionAccepted(o) PROVE NotAskedYet'
  BY <1>6 DEF DecisionAccepted, Rejected
<1>7. ASSUME NEW e \in Enders, StopMark(e) \/ ReapClaim(e) \/ ReapSettles(e) \/
                               EnderSettlesLive(e) \/ ReapPublishes(e)
      PROVE  NotAskedYet'
  BY <1>7 DEF StopMark, ReapClaim, ReapSettles, EnderSettlesLive, ReapPublishes
<1>8. CASE UNCHANGED vars
  BY <1>8 DEF vars
<1> HIDE DEF TypeOK, HandlerState, NotAskedYet, ErrandsAgree
<1> QED
  BY <1>1, <1>2, <1>3, <1>4, <1>5, <1>6, <1>7, <1>8
     DEF Next, HandlerStep, WorkerStep, OwnerStep, EnderStep

LEMMA RecordAgreesStep ==
    TypeOK /\ TypeOK' /\ NotAskedYet /\ RecordAgrees /\ ErrandsAgree /\ [Next]_vars
    => RecordAgrees'
<1> SUFFICES ASSUME TypeOK, TypeOK', NotAskedYet, RecordAgrees, ErrandsAgree, [Next]_vars
             PROVE  RecordAgrees'
  OBVIOUS
<1> USE MaxRequestsAssumption, RolesAssumption
    DEF TypeOK, NotAskedYet, RecordAgrees, ErrandsAgree, Requests, Enders, Decisions, Goto,
        Answered, meta, registry, worker, callers
<1>1. CASE Register \/ Poll \/ Wake \/ AnswerProvider \/ FutureFires \/ TurnEnds \/
           TurnAborted \/ WorkerPublishes \/ ProviderDies \/ Crash
  BY <1>1 DEF Register, Poll, Wake, AnswerProvider, FutureFires, TurnEnds, TurnAborted,
     WorkerPublishes, ProviderDies, Crash
<1>2. CASE Ask
  BY <1>2, Asking DEF Ask
<1>3. CASE Resume
  BY <1>3, Values DEF Resume
<1>4. CASE FailSettles
  BY <1>4, Settling DEF FailSettles
<1>5. ASSUME NEW o \in Owners, NEW r \in Requests, NEW d \in Decisions, Decide(o, r, d)
      PROVE  RecordAgrees'
  BY <1>5 DEF Decide
<1>6. ASSUME NEW o \in Owners, DecisionRefused(o) \/ Deliver(o) PROVE RecordAgrees'
  BY <1>6 DEF DecisionRefused, Deliver
<1>7. ASSUME NEW o \in Owners, Tidy(o) PROVE RecordAgrees'
  BY <1>7, Values DEF Tidy
<1>8. ASSUME NEW o \in Owners, DecisionExpires(o) PROVE RecordAgrees'
  BY <1>8, Settling DEF DecisionExpires
<1>9. ASSUME NEW o \in Owners, DecisionAccepted(o) PROVE RecordAgrees'
  BY <1>9, Resolved DEF DecisionAccepted, Rejected
<1>10. ASSUME NEW e \in Enders, StopMark(e) \/ ReapSettles(e) PROVE RecordAgrees'
  BY <1>10, Settling DEF StopMark, ReapSettles
<1>11. ASSUME NEW e \in Enders, ReapClaim(e) \/ EnderSettlesLive(e) \/ ReapPublishes(e)
      PROVE  RecordAgrees'
  BY <1>11 DEF ReapClaim, EnderSettlesLive, ReapPublishes
<1>12. CASE UNCHANGED vars
  BY <1>12 DEF vars
<1> HIDE DEF TypeOK, NotAskedYet, RecordAgrees, ErrandsAgree
<1> QED
  BY <1>1, <1>2, <1>3, <1>4, <1>5, <1>6, <1>7, <1>8, <1>9, <1>10, <1>11, <1>12
     DEF Next, HandlerStep, WorkerStep, OwnerStep, EnderStep

LEMMA DeliveryAgreesStep ==
    TypeOK /\ TypeOK' /\ HandlerState /\ RecordAgrees /\ DeliveryAgrees /\ ErrandsAgree /\
    [Next]_vars
    => DeliveryAgrees'
<1> SUFFICES ASSUME TypeOK, TypeOK', HandlerState, RecordAgrees, DeliveryAgrees,
                    ErrandsAgree, [Next]_vars
             PROVE  DeliveryAgrees'
  OBVIOUS
<1> USE MaxRequestsAssumption, RolesAssumption
    DEF TypeOK, HandlerState, RecordAgrees, DeliveryAgrees, ErrandsAgree, Handling,
        TurnOutcomes, Requests, Enders, Decisions, Goto, Answered, meta, registry, worker,
        callers
<1>1. CASE FutureFires \/ AnswerProvider \/ TurnEnds \/ ProviderDies
  BY <1>1 DEF FutureFires, AnswerProvider, TurnEnds, ProviderDies
<1>2. CASE Register \/ Wake \/ Resume \/ TurnAborted \/ WorkerPublishes \/ Crash
  BY <1>2, Values DEF Register, Wake, Resume, TurnAborted, WorkerPublishes, Crash
<1>3. CASE Ask
  BY <1>3, Asking DEF Ask
<1>4. CASE Poll
  BY <1>4, ResolvingLive, Values DEF Poll
<1>5. CASE FailSettles
  BY <1>5, Settling, SettlingLive DEF FailSettles
<1>6. ASSUME NEW o \in Owners, NEW r \in Requests, NEW d \in Decisions, Decide(o, r, d)
      PROVE  DeliveryAgrees'
  BY <1>6, Remembered DEF Decide
<1>7. ASSUME NEW o \in Owners, DecisionRefused(o) \/ Tidy(o) PROVE DeliveryAgrees'
  BY <1>7, Values DEF DecisionRefused, Tidy
<1>8. ASSUME NEW o \in Owners, DecisionExpires(o) PROVE DeliveryAgrees'
  BY <1>8, Settling DEF DecisionExpires
<1>9. ASSUME NEW o \in Owners, DecisionAccepted(o) PROVE DeliveryAgrees'
  <2>1. UNCHANGED <<stage, future, scheduled, asked>>
    BY <1>9 DEF DecisionAccepted
  <2>2. accepted[asked] = {} \/ accepted'[asked] = accepted[asked]
    BY <1>9, Accepting
  <2> QED BY <2>1, <2>2
<1>10. ASSUME NEW o \in Owners, Deliver(o) PROVE DeliveryAgrees'
  BY <1>10, ResolvingLive DEF Deliver
<1>11. ASSUME NEW e \in Enders, StopMark(e) \/ ReapSettles(e) PROVE DeliveryAgrees'
  BY <1>11, Settling DEF StopMark, ReapSettles
<1>12. ASSUME NEW e \in Enders, ReapClaim(e) \/ ReapPublishes(e) PROVE DeliveryAgrees'
  BY <1>12 DEF ReapClaim, ReapPublishes
<1>13. ASSUME NEW e \in Enders, EnderSettlesLive(e) PROVE DeliveryAgrees'
  BY <1>13, SettlingLive DEF EnderSettlesLive
<1>14. CASE UNCHANGED vars
  BY <1>14 DEF vars
<1> HIDE DEF TypeOK, HandlerState, RecordAgrees, DeliveryAgrees, ErrandsAgree
<1> QED
  BY <1>1, <1>2, <1>3, <1>4, <1>5, <1>6, <1>7, <1>8, <1>9, <1>10, <1>11, <1>12, <1>13, <1>14
     DEF Next, HandlerStep, WorkerStep, OwnerStep, EnderStep

LEMMA ErrandsAgreeStep ==
    TypeOK /\ TypeOK' /\ RecordAgrees /\ ErrandsAgree /\ [Next]_vars
    => ErrandsAgree'
<1> SUFFICES ASSUME TypeOK, TypeOK', RecordAgrees, ErrandsAgree, [Next]_vars
             PROVE  ErrandsAgree'
  OBVIOUS
<1> USE MaxRequestsAssumption, RolesAssumption
    DEF TypeOK, RecordAgrees, ErrandsAgree, Requests, Enders, Decisions, Goto, Answered,
        meta, registry, worker, callers
<1>1. CASE Register \/ Poll \/ Wake \/ Resume \/ AnswerProvider \/ FutureFires \/ TurnEnds
           \/ TurnAborted \/ FailSettles \/ WorkerPublishes \/ ProviderDies
  BY <1>1 DEF Register, Poll, Wake, Resume, AnswerProvider, FutureFires, TurnEnds,
     TurnAborted, FailSettles, WorkerPublishes, ProviderDies
<1>2. CASE Ask \/ Crash
  BY <1>2, Asking DEF Ask, Crash
<1>3. ASSUME NEW o \in Owners, NEW r \in Requests, NEW d \in Decisions, Decide(o, r, d)
      PROVE  ErrandsAgree'
  BY <1>3 DEF Decide
<1>4. ASSUME NEW o \in Owners, DecisionRefused(o) \/ DecisionExpires(o) \/ Deliver(o) \/
                               Tidy(o)
      PROVE  ErrandsAgree'
  BY <1>4 DEF DecisionRefused, DecisionExpires, Deliver, Tidy
<1>5. ASSUME NEW o \in Owners, DecisionAccepted(o) PROVE ErrandsAgree'
  <2>1. /\ UNCHANGED <<errand, asked>>
        /\ pc' = [pc EXCEPT ![o] = IF errand[o].saw THEN "deliver" ELSE "idle"]
    BY <1>5 DEF DecisionAccepted
  <2>2. ASSUME NEW p \in Owners, pc[p] = "deliver", p # o
        PROVE accepted'[errand[p].request] = accepted[errand[p].request]
    <3>1. errand[p].request \in Requests /\ accepted[errand[p].request] # {}
      <4>1. /\ errand[p].request \in 1 .. asked
            /\ accepted[errand[p].request] = {errand[p].decision}
        BY <2>2 DEF ErrandsAgree
      <4>2. asked \in 0 .. MaxRequests
        OBVIOUS
      <4> QED BY <4>1, <4>2
    <3>2. /\ accepted[errand[o].request] = {}
          /\ accepted' = [accepted EXCEPT ![errand[o].request] = {errand[o].decision}]
      BY <1>5, Accepting
    <3> QED BY <3>1, <3>2
  <2> QED BY <1>5, <2>1, <2>2, Accepting
<1>6. ASSUME NEW e \in Enders, StopMark(e) \/ ReapClaim(e) \/ ReapSettles(e) \/
                               EnderSettlesLive(e) \/ ReapPublishes(e)
      PROVE  ErrandsAgree'
  BY <1>6 DEF StopMark, ReapClaim, ReapSettles, EnderSettlesLive, ReapPublishes
<1>7. CASE UNCHANGED vars
  BY <1>7 DEF vars
<1> HIDE DEF TypeOK, RecordAgrees, ErrandsAgree
<1> QED
  BY <1>1, <1>2, <1>3, <1>4, <1>5, <1>6, <1>7
     DEF Next, HandlerStep, WorkerStep, OwnerStep, EnderStep

LEMMA OneDecisionStep ==
    TypeOK /\ TypeOK' /\ HandlerState /\ RecordAgrees /\ DeliveryAgrees /\ ErrandsAgree /\
    OneDecision /\ [Next]_vars
    => OneDecision'
<1> SUFFICES ASSUME TypeOK, TypeOK', HandlerState, RecordAgrees, DeliveryAgrees,
                    ErrandsAgree, OneDecision, [Next]_vars
             PROVE  OneDecision'
  OBVIOUS
<1> USE MaxRequestsAssumption, RolesAssumption
    DEF TypeOK, HandlerState, RecordAgrees, DeliveryAgrees, ErrandsAgree, OneDecision,
        Offered, Handling, Requests, Enders, Decisions, Goto, Answered, meta, registry, worker,
        callers
<1>1. CASE FutureFires \/ Register \/ TurnEnds \/ FailSettles \/ WorkerPublishes \/
           ProviderDies \/ Crash
  BY <1>1 DEF FutureFires, Register, TurnEnds, FailSettles, WorkerPublishes, ProviderDies,
     Crash
<1>2. CASE Ask
  BY <1>2, Asking DEF Ask
<1>3. CASE Poll \/ Wake \/ AnswerProvider
  BY <1>3 DEF Poll, Wake, AnswerProvider
<1>4. CASE Resume
  <2>1. /\ UNCHANGED accepted
        /\ \A r \in Requests : answer'[r] \in {answer[r], "reject", "cancelled"}
    BY <1>4 DEF Resume
  <2> HIDE DEF Offered, TypeOK, HandlerState, RecordAgrees, DeliveryAgrees, ErrandsAgree
  <2> QED BY <2>1
<1>5. CASE TurnAborted
  <2>1. /\ UNCHANGED accepted
        /\ \A r \in Requests : answer'[r] \in {answer[r], "reject", "cancelled"}
    BY <1>5 DEF TurnAborted
  <2> HIDE DEF Offered, TypeOK, HandlerState, RecordAgrees, DeliveryAgrees, ErrandsAgree
  <2> QED BY <2>1
<1>6. ASSUME NEW o \in Owners, NEW r \in Requests, NEW d \in Decisions, Decide(o, r, d)
      PROVE  OneDecision'
  BY <1>6 DEF Decide
<1>7. ASSUME NEW o \in Owners, DecisionRefused(o) \/ DecisionExpires(o) \/ Tidy(o)
      PROVE  OneDecision'
  BY <1>7 DEF DecisionRefused, DecisionExpires, Tidy
<1>8. ASSUME NEW o \in Owners, Deliver(o) PROVE OneDecision'
  <2>1. /\ UNCHANGED accepted
        /\ \A r \in Requests : answer'[r] \in {answer[r], "reject", "cancelled"}
    BY <1>8 DEF Deliver
  <2> HIDE DEF Offered, TypeOK, HandlerState, RecordAgrees, DeliveryAgrees, ErrandsAgree
  <2> QED BY <2>1
<1>9. ASSUME NEW o \in Owners, DecisionAccepted(o) PROVE OneDecision'
  <2>1. UNCHANGED answer
    BY <1>9 DEF DecisionAccepted
  <2>2. ASSUME NEW q \in Requests
        PROVE  /\ accepted'[q] = accepted[q]
               \/ /\ accepted[q] = {}
                  /\ \E d \in Decisions : d \in Offered(q) /\ accepted'[q] = {d}
    <3> DEFINE r == errand[o].request
               d == errand[o].decision
    <3>1. /\ d \in Decisions /\ d \in Offered(r) /\ accepted[r] = {}
          /\ accepted' = [accepted EXCEPT ![r] = {d}]
      BY <1>9, Accepting
    <3>2. accepted \in [Requests -> SUBSET Decisions]
      OBVIOUS
    <3> HIDE DEF r, d, Offered, Decisions
    <3>3. CASE q = r
      BY <3>1, <3>2, <3>3
    <3>4. CASE q # r
      BY <3>1, <3>2, <3>4
    <3> QED BY <3>3, <3>4
  <2> HIDE DEF Offered, TypeOK, HandlerState, RecordAgrees, DeliveryAgrees, ErrandsAgree
  <2> QED BY <2>1, <2>2
<1>10. ASSUME NEW e \in Enders, StopMark(e) \/ ReapClaim(e) \/ ReapSettles(e)
      PROVE  OneDecision'
  BY <1>10 DEF StopMark, ReapClaim, ReapSettles
<1>11. ASSUME NEW e \in Enders, EnderSettlesLive(e) \/ ReapPublishes(e) PROVE OneDecision'
  BY <1>11 DEF EnderSettlesLive, ReapPublishes
<1>12. CASE UNCHANGED vars
  BY <1>12 DEF vars
<1> HIDE DEF TypeOK, HandlerState, RecordAgrees, DeliveryAgrees, ErrandsAgree, OneDecision
<1> QED
  BY <1>1, <1>2, <1>3, <1>4, <1>5, <1>6, <1>7, <1>8, <1>9, <1>10, <1>11, <1>12
     DEF Next, HandlerStep, WorkerStep, OwnerStep, EnderStep

LEMMA PaceStep ==
    TypeOK /\ TypeOK' /\ Pace /\ EndIsClaimed /\ RecordAgrees /\ ErrandsAgree /\ [Next]_vars
    => Pace'
<1> SUFFICES ASSUME TypeOK, TypeOK', Pace, EndIsClaimed, RecordAgrees, ErrandsAgree,
                    [Next]_vars
             PROVE  Pace'
  OBVIOUS
<1> USE MaxRequestsAssumption, RolesAssumption
    DEF TypeOK, Pace, EndIsClaimed, Phase, RecordAgrees, ErrandsAgree, Open, Terminal,
        TurnOutcomes, Requests, Enders, Decisions, Goto, Answered, meta, registry, worker,
        callers
<1>1. CASE FutureFires \/ AnswerProvider \/ TurnEnds \/ ProviderDies
  BY <1>1 DEF FutureFires, AnswerProvider, TurnEnds, ProviderDies
<1>2. CASE Register \/ Wake \/ Resume \/ TurnAborted \/ WorkerPublishes \/ Crash
  BY <1>2, Values DEF Register, Wake, Resume, TurnAborted, WorkerPublishes, Crash
<1>3. CASE Ask
  BY <1>3, Asking DEF Ask
<1>4. CASE Poll
  BY <1>4, ResolvingLive, Values DEF Poll
<1>5. CASE FailSettles
  BY <1>5, Settling, SettlingLive DEF FailSettles
<1>6. ASSUME NEW o \in Owners, NEW r \in Requests, NEW d \in Decisions, Decide(o, r, d)
      PROVE  Pace'
  BY <1>6, Remembered DEF Decide
<1>7. ASSUME NEW o \in Owners, DecisionRefused(o) \/ Tidy(o) PROVE Pace'
  BY <1>7, Values DEF DecisionRefused, Tidy
<1>8. ASSUME NEW o \in Owners, DecisionExpires(o) PROVE Pace'
  BY <1>8, Settling DEF DecisionExpires
<1>9. ASSUME NEW o \in Owners, DecisionAccepted(o) PROVE Pace'
  BY <1>9, Resolved DEF DecisionAccepted
<1>10. ASSUME NEW o \in Owners, Deliver(o) PROVE Pace'
  BY <1>10, ResolvingLive DEF Deliver
<1>11. ASSUME NEW e \in Enders, StopMark(e) \/ ReapSettles(e) PROVE Pace'
  BY <1>11, Settling DEF StopMark, ReapSettles
<1>12. ASSUME NEW e \in Enders, ReapClaim(e) \/ ReapPublishes(e) PROVE Pace'
  BY <1>12 DEF ReapClaim, ReapPublishes
<1>13. ASSUME NEW e \in Enders, EnderSettlesLive(e) PROVE Pace'
  BY <1>13, SettlingLive DEF EnderSettlesLive
<1>14. CASE UNCHANGED vars
  BY <1>14 DEF vars
<1> HIDE DEF TypeOK, Pace, EndIsClaimed, RecordAgrees, ErrandsAgree
<1> QED
  BY <1>1, <1>2, <1>3, <1>4, <1>5, <1>6, <1>7, <1>8, <1>9, <1>10, <1>11, <1>12, <1>13, <1>14
     DEF Next, HandlerStep, WorkerStep, OwnerStep, EnderStep

LEMMA EndIsClaimedStep ==
    TypeOK /\ TypeOK' /\ EndIsClaimed /\ [Next]_vars
    => EndIsClaimed'
<1> SUFFICES ASSUME TypeOK, TypeOK', EndIsClaimed, [Next]_vars
             PROVE  EndIsClaimed'
  OBVIOUS
<1> USE MaxRequestsAssumption, RolesAssumption
    DEF TypeOK, EndIsClaimed, Phase, Open, Terminal, Requests, Enders, Decisions, Goto,
        Answered, meta, registry, worker, callers
<1>1. CASE Register \/ Poll \/ Wake \/ AnswerProvider \/ FutureFires \/ TurnEnds \/
           TurnAborted \/ FailSettles \/ ProviderDies
  BY <1>1 DEF Register, Poll, Wake, AnswerProvider, FutureFires, TurnEnds, TurnAborted,
     FailSettles, ProviderDies
<1>2. CASE Ask \/ Resume \/ WorkerPublishes \/ Crash
  BY <1>2 DEF Ask, Resume, WorkerPublishes, Crash
<1>3. ASSUME NEW o \in Owners, NEW r \in Requests, NEW d \in Decisions, Decide(o, r, d)
      PROVE  EndIsClaimed'
  BY <1>3 DEF Decide
<1>4. ASSUME NEW o \in Owners, DecisionRefused(o) \/ DecisionExpires(o) \/
                               DecisionAccepted(o) \/ Deliver(o) \/ Tidy(o)
      PROVE  EndIsClaimed'
  BY <1>4 DEF DecisionRefused, DecisionExpires, DecisionAccepted, Deliver, Tidy
<1>5. ASSUME NEW e \in Enders, StopMark(e) \/ ReapClaim(e) PROVE EndIsClaimed'
  BY <1>5 DEF StopMark, ReapClaim
<1>6. ASSUME NEW e \in Enders, ReapSettles(e) \/ EnderSettlesLive(e) \/ ReapPublishes(e)
      PROVE  EndIsClaimed'
  BY <1>6 DEF ReapSettles, EnderSettlesLive, ReapPublishes
<1>7. CASE UNCHANGED vars
  BY <1>7 DEF vars
<1> HIDE DEF TypeOK, EndIsClaimed
<1> QED
  BY <1>1, <1>2, <1>3, <1>4, <1>5, <1>6, <1>7
     DEF Next, HandlerStep, WorkerStep, OwnerStep, EnderStep

LEMMA NextIInv == IInv /\ [Next]_vars => IInv'
<1> SUFFICES ASSUME IInv, [Next]_vars PROVE IInv'
  OBVIOUS
<1>1. TypeOK'
  BY TypeStep DEF IInv
<1>2. HandlerState' /\ NotAskedYet' /\ RecordAgrees' /\ DeliveryAgrees'
  BY <1>1, HandlerStateStep, NotAskedYetStep, RecordAgreesStep, DeliveryAgreesStep DEF IInv
<1>3. ErrandsAgree' /\ OneDecision' /\ Pace' /\ EndIsClaimed'
  BY <1>1, ErrandsAgreeStep, OneDecisionStep, PaceStep, EndIsClaimedStep DEF IInv
<1> QED BY <1>1, <1>2, <1>3 DEF IInv

LEMMA Invariance == Spec => []IInv
BY InitIInv, NextIInv, PTL DEF Spec

-----------------------------------------------------------------------------
\* The record of a request, the wait for it and the callers keep their shape,
\* however many owners, stops, reapers and requests there are.
THEOREM TypeCorrect == Spec => []TypeOK
<1>1. IInv => TypeOK
  BY DEF IInv
<1> QED BY <1>1, Invariance, PTL

\* An allow reaches the provider only if an owner may allow the request and
\* was told that it is allowed; no request gets two decisions.
THEOREM OwnersDecide == Spec => []AnswerIsTheOwners
<1>1. IInv => AnswerIsTheOwners
  BY DEF IInv, OneDecision, AnswerIsTheOwners, Offered, Decisions
<1> QED BY <1>1, Invariance, PTL

\* A job that ended keeps its status, and no decision is accepted for it.
THEOREM NothingAfterTheEnd == Spec => EndedStaysEnded
<1> DEFINE Kept == status' = status /\ accepted' = accepted
<1>1. ASSUME status \in Terminal, [Next]_vars PROVE Kept
  <2> USE <1>1 DEF Open, Terminal
  <2>1. CASE HandlerStep
    BY <2>1 DEF HandlerStep, Register, Poll, Wake, Resume, AnswerProvider, FutureFires,
                meta, callers
  <2>2. CASE WorkerStep
    BY <2>2 DEF WorkerStep, Ask, TurnEnds, TurnAborted, FailSettles, WorkerPublishes,
                meta, callers
  <2>3. ASSUME NEW o \in Owners, OwnerStep(o) PROVE Kept
    BY <2>3 DEF OwnerStep, DecisionRefused, DecisionExpires, DecisionAccepted, Rejected,
                Deliver, Tidy, meta
  <2>4. ASSUME NEW o \in Owners, NEW r \in Requests, NEW d \in Decisions, Decide(o, r, d)
        PROVE  Kept
    BY <2>4 DEF Decide, meta
  <2>5. ASSUME NEW e \in Enders, EnderStep(e) PROVE Kept
    BY <2>5 DEF EnderStep, StopMark, ReapClaim, ReapSettles, EnderSettlesLive,
                ReapPublishes, meta
  <2>6. CASE ProviderDies \/ Crash \/ UNCHANGED vars
    BY <2>6 DEF ProviderDies, Crash, vars, meta, callers
  <2> QED BY <2>1, <2>2, <2>3, <2>4, <2>5, <2>6 DEF Next
<1>2. [Next]_vars => [(status \in Terminal) => Kept]_vars
  BY <1>1
<1> QED BY <1>2, PTL DEF Spec, EndedStaysEnded

-----------------------------------------------------------------------------
(* The refinement *)

\* Steps that the contract does not see.
LEMMA Unseen ==
    ASSUME UNCHANGED <<accepted, answer>>, Phase' = Phase
    PROVE  UNCHANGED Contract!contractVars
  BY DEF Contract!contractVars, Decided

LEMMA Answering ==
    ASSUME NEW r \in Requests, NEW a, UNCHANGED accepted, Phase' = Phase,
           answer[r] = "none", answer' = [answer EXCEPT ![r] = a],
           a = "cancelled" \/ (a # "none" /\ a = Decided(r)) \/ (Phase # "open" /\ a = "reject")
    PROVE  Contract!ContractNext
<1>1. a \in Contract!Answers(r)
  BY DEF Contract!Answers
<1>2. [q \in Requests |-> Decided(q)]' = [q \in Requests |-> Decided(q)]
  BY DEF Decided
<1>3. Contract!Answer(r)
  BY <1>1, <1>2 DEF Contract!Answer
<1> QED BY <1>3 DEF Contract!ContractNext

LEMMA Ending ==
    ASSUME UNCHANGED <<accepted, answer>>, Phase # "ended", Phase' \in {"ending", "ended"}
    PROVE  [Contract!ContractNext]_Contract!contractVars
<1>1. CASE Phase' = Phase
  BY <1>1, Unseen
<1>2. CASE Phase' # Phase
  <2>1. Contract!End
    BY <1>2 DEF Contract!End, Phase, Decided
  <2> QED BY <2>1 DEF Contract!ContractNext
<1> QED BY <1>1, <1>2

LEMMA ContractStep ==
    IInv /\ [Next]_vars => [Contract!ContractNext]_Contract!contractVars
<1> SUFFICES ASSUME IInv, [Next]_vars
             PROVE  [Contract!ContractNext]_Contract!contractVars
  OBVIOUS
<1> DEFINE Goal == [Contract!ContractNext]_Contract!contractVars
<1>0. /\ claim # NoActor \/ status \in Terminal <=> Phase # "open"
      /\ Phase = "ended" <=> status \in Terminal
      /\ Open \cap Terminal = {} /\ status \in Open \cup Terminal
  BY DEF IInv, TypeOK, Phase, Open, Terminal
<1> USE DEF meta, registry, worker, callers
\* What the worker does without telling the provider anything.
<1>1. CASE Register \/ FutureFires \/ TurnEnds \/ FailSettles \/ ProviderDies \/ Crash
           \/ UNCHANGED vars
  BY <1>1, Unseen DEF Register, FutureFires, TurnEnds, FailSettles, ProviderDies, Crash,
                      Phase, vars
<1>2. CASE Ask
  <2>1. CASE status = "running"
    BY <1>2, <2>1, Unseen DEF Ask, Phase, Terminal
  <2>2. CASE status # "running"
    <3>1. /\ asked + 1 \in Requests /\ asked + 1 > asked
          /\ UNCHANGED <<accepted, status, claim>>
          /\ stage = "turn" /\ answer' = [answer EXCEPT ![asked + 1] = "reject"]
      BY <1>2, <2>2, Asking DEF Ask, Answered, IInv, TypeOK
    <3>2. answer[asked + 1] = "none" /\ Phase # "open" /\ Phase' = Phase
      BY <1>0, <2>2, <3>1 DEF IInv, NotAskedYet, Pace, Phase
    <3> QED BY <3>1, <3>2, Answering
  <2> QED BY <2>1, <2>2
\* What the handler tells the provider.
<1>3. CASE Poll \/ Wake \/ TurnAborted
  <2>1. /\ UNCHANGED <<accepted, status, claim>> /\ stage = "waiting"
        /\ UNCHANGED answer \/ answer' = [answer EXCEPT ![asked] = "cancelled"]
    BY <1>3 DEF Poll, Wake, TurnAborted, Answered
  <2>2. asked \in Requests /\ answer[asked] = "none" /\ Phase' = Phase
    BY <2>1 DEF IInv, HandlerState, Handling, Phase
  <2> QED BY <2>1, <2>2, Unseen, Answering
<1>4. CASE Resume
  <2>1. asked \in Requests /\ answer[asked] = "none"
    BY <1>4 DEF Resume, IInv, HandlerState, Handling
  <2>2. CASE status = "awaiting_input"
    BY <1>4, <2>2, Unseen DEF Resume, Phase, Terminal
  <2>3. CASE status # "awaiting_input"
    <3>1. /\ UNCHANGED <<accepted, status, claim>> /\ stage = "woken"
          /\ answer' = [answer EXCEPT ![asked] = "reject"]
      BY <1>4, <2>3 DEF Resume, Answered
    <3>2. Phase # "open" /\ Phase' = Phase
      BY <1>0, <2>3, <3>1 DEF IInv, Pace, Phase
    <3> QED BY <2>1, <3>1, <3>2, Answering
  <2> QED BY <2>2, <2>3
<1>5. CASE AnswerProvider
  <2>1. /\ UNCHANGED <<accepted, status, claim>> /\ stage = "answering"
        /\ answer' = [answer EXCEPT ![asked] = future]
    BY <1>5 DEF AnswerProvider, Answered
  <2>2. /\ asked \in Requests /\ answer[asked] = "none"
        /\ future \in Decisions /\ accepted[asked] = {future}
    BY <2>1 DEF IInv, HandlerState, DeliveryAgrees, Handling
  <2>3. future = Decided(asked) /\ future # "none" /\ Phase' = Phase
    BY <2>1, <2>2 DEF Decided, Decisions, Phase
  <2> QED BY <2>1, <2>2, <2>3, Answering
\* Owners: one of their steps takes the decision.
<1>6. ASSUME NEW o \in Owners, NEW r \in Requests, NEW d \in Decisions, Decide(o, r, d)
      PROVE  Goal
  BY <1>6, Unseen DEF Decide, Phase
<1>7. ASSUME NEW o \in Owners, DecisionRefused(o) \/ DecisionExpires(o) \/ Deliver(o) \/ Tidy(o)
      PROVE  Goal
  BY <1>7, Unseen DEF DecisionRefused, DecisionExpires, Deliver, Tidy, Phase
<1>8. ASSUME NEW o \in Owners, DecisionAccepted(o) PROVE Goal
  <2> DEFINE r == errand[o].request
             d == errand[o].decision
             decided == [q \in Requests |-> Decided(q)]
  <2>1. /\ r \in Requests /\ d \in Decisions /\ accepted[r] = {}
        /\ accepted' = [accepted EXCEPT ![r] = {d}]
        /\ accepted \in [Requests -> SUBSET Decisions]
    BY <1>8, Accepting DEF IInv, TypeOK
  <2>2. UNCHANGED <<answer, status, claim>> /\ status \in Open
    BY <1>8, <1>0 DEF DecisionAccepted, Rejected
  <2>3. Phase # "ended" /\ Phase' = Phase
    BY <1>0, <2>2 DEF Phase
  <2> HIDE DEF r, d
  <2>4. decided[r] = "none" /\ decided' = [decided EXCEPT ![r] = d]
    <3>1. ASSUME NEW q \in Requests, q = r PROVE Decided(q) = "none" /\ Decided(q)' = d
      BY <2>1, <3>1 DEF Decided
    <3>2. ASSUME NEW q \in Requests, q # r PROVE Decided(q)' = Decided(q)
      BY <2>1, <3>2 DEF Decided
    <3> HIDE DEF Decided
    <3> QED BY <2>1, <3>1, <3>2
  <2>5. Contract!Decide(r, d)
    BY <2>2, <2>3, <2>4 DEF Contract!Decide
  <2> QED BY <2>1, <2>5 DEF Contract!ContractNext, Decisions
\* The end.
<1>9. ASSUME NEW e \in Enders, ReapSettles(e) \/ EnderSettlesLive(e) PROVE Goal
  BY <1>9, Unseen DEF ReapSettles, EnderSettlesLive, Phase
<1>10. ASSUME NEW e \in Enders, StopMark(e) \/ ReapClaim(e) PROVE Goal
  <2>1. UNCHANGED <<accepted, answer>> /\ Phase # "ended" /\ Phase' \in {"ending", "ended"}
    BY <1>0, <1>10, RolesAssumption DEF StopMark, ReapClaim, Phase, Terminal, Enders
  <2> QED BY <2>1, Ending
<1>11. CASE WorkerPublishes \/ \E e \in Enders : ReapPublishes(e)
  <2>1. /\ UNCHANGED <<accepted, answer, claim>>
        /\ status' = status \/ (status \in Open /\ status' \in Terminal)
    BY <1>11 DEF WorkerPublishes, ReapPublishes, Terminal
  <2>2. UNCHANGED <<accepted, answer>>
    BY <2>1
  <2>3. CASE status' = status
    <3>1. Phase' = Phase
      BY <2>1, <2>3 DEF Phase
    <3> QED BY <2>2, <3>1, Unseen
  <2>4. CASE status \in Open /\ status' \in Terminal
    <3>1. Phase # "ended" /\ Phase' = "ended"
      BY <1>0, <2>4 DEF Phase
    <3> QED BY <2>2, <3>1, Ending
  <2> QED BY <2>1, <2>3, <2>4
<1> QED
  BY <1>1, <1>2, <1>3, <1>4, <1>5, <1>6, <1>7, <1>8, <1>9, <1>10, <1>11
     DEF Next, HandlerStep, WorkerStep, OwnerStep, EnderStep

\* Every request gets one decision at most, taken before the job ended, and one
\* answer: the decision, a withdrawal, or a refusal once the end is claimed.
THEOREM ContractHolds == Spec => ImplementsContract
<1>1. Init => Contract!ContractInit
  BY DEF Init, Contract!ContractInit, Decided, Phase, Terminal
<1> QED
  BY <1>1, ContractStep, Invariance, PTL
     DEF Spec, ImplementsContract, Contract!ContractSpec

-----------------------------------------------------------------------------
(* The request that the worker waits for.                                  *)

Unclaimed == status \in Open /\ claim = NoActor

\* The registry and the owners know no request that was not asked, and of the
\* one being registered no owner saw a wait.
AskedFirst ==
    /\ live.id <= asked /\ (stage = "register" => live.id < asked)
    /\ \A o \in Owners :
          /\ pc[o] = "tidy" => errand[o].request <= asked
          /\ stage = "register" /\ errand[o].request = asked =>
                pc[o] \notin {"deliver", "tidy"} /\ (pc[o] = "decide" => ~errand[o].saw)

\* While the job goes on the wait is in the registry, and resolved before an
\* owner tidies its record up.
WaitIsLive ==
    stage = "waiting" /\ Unclaimed =>
        /\ live.id = asked
        /\ \A o \in Owners : pc[o] = "tidy" /\ errand[o].request = asked => live.resolved

RecordOrDelivery ==
    stage \in {"register", "waiting"} /\ Unclaimed /\ provider = "alive" =>
        \/ slot.id = asked /\ slot.state \in {"pending", "resolved"}
        \/ stage = "waiting" /\ live.resolved

AnswerInv == AskedFirst /\ WaitIsLive /\ RecordOrDelivery

LEMMA InitAnswer == Init => AnswerInv
<1> SUFFICES ASSUME Init PROVE AnswerInv
  OBVIOUS
<1>1. live.id = 0 /\ asked = 0 /\ stage = "turn" /\ \A o \in Owners : pc[o] = "idle"
  BY Values, RolesAssumption DEF Init
<1> QED BY <1>1 DEF AnswerInv, AskedFirst, WaitIsLive, RecordOrDelivery

LEMMA ResolvingMarks ==
    ASSUME live \in Waits, NEW r, NEW d, ResolveLive(r, d)
    PROVE  /\ live'.id = live.id
           /\ live.resolved => live'.resolved
           /\ live.id = r => live'.resolved
<1>1. CASE live.id = r /\ ~live.resolved
  BY <1>1 DEF ResolveLive, Waits
<1>2. CASE ~(live.id = r /\ ~live.resolved)
  BY <1>2 DEF ResolveLive, Waits
<1> QED BY <1>1, <1>2

LEMMA AnswerStep == IInv /\ AnswerInv /\ [Next]_vars => AnswerInv'
<1> SUFFICES ASSUME IInv, AnswerInv, [Next]_vars PROVE AnswerInv'
  OBVIOUS
<1>0. /\ slot \in Slots /\ live \in Waits /\ asked \in Nat /\ live.id \in Nat
      /\ TypeOK /\ ErrandsAgree /\ EndIsClaimed /\ HandlerState
      /\ \A o \in Owners : errand[o].request \in Nat
      /\ \A o \in Owners : pc[o] \in {"decide", "deliver"} => errand[o].request <= asked
      /\ NoWait.id = 0
      /\ Unclaimed <=> Phase = "open"
  <2>1. TypeOK /\ ErrandsAgree /\ EndIsClaimed /\ HandlerState
    BY DEF IInv
  <2>2. asked \in Nat /\ live.id \in Nat /\ slot \in Slots /\ live \in Waits
    BY <2>1, MaxRequestsAssumption DEF TypeOK, Waits
  <2>3. \A o \in Owners : errand[o].request \in Nat
    BY <2>1, MaxRequestsAssumption DEF TypeOK, Errands
  <2>4. \A o \in Owners : pc[o] \in {"decide", "deliver"} => errand[o].request <= asked
    BY <2>1, <2>2 DEF ErrandsAgree
  <2>5. Unclaimed <=> Phase = "open"
    BY <2>1 DEF TypeOK, Unclaimed, Phase, Open, Terminal
  <2> QED BY <2>1, <2>2, <2>3, <2>4, <2>5, Values
<1> USE <1>0, RolesAssumption
    DEF AnswerInv, AskedFirst, WaitIsLive, RecordOrDelivery, Unclaimed, Enders, Goto, meta,
        registry, worker, callers
<1>1. CASE FutureFires \/ AnswerProvider \/ TurnEnds \/ ProviderDies
  BY <1>1 DEF FutureFires, AnswerProvider, TurnEnds, ProviderDies, TurnOutcomes
<1>2. CASE Register
  BY <1>2 DEF Register
<1>3. CASE Wake \/ TurnAborted \/ WorkerPublishes
  BY <1>3 DEF Wake, TurnAborted, WorkerPublishes, TurnOutcomes
<1>4. CASE Resume
  BY <1>4 DEF Resume
<1>5. CASE Crash
  BY <1>5 DEF Crash
<1>6. CASE Ask
  BY <1>6, Asking DEF Ask
<1>7. CASE Poll
  BY <1>7, ResolvingMarks DEF Poll, Open, Terminal
<1>8. CASE FailSettles
  <2>1. live'.id = 0 /\ 0 <= asked
    BY <1>8 DEF FailSettles, SettleLive
  <2>2. stage' = "settled" /\ UNCHANGED <<asked, pc, errand>>
    BY <1>8 DEF FailSettles
  <2> QED BY <2>1, <2>2
<1>9. ASSUME NEW o \in Owners, NEW r \in Requests, NEW d \in Decisions, Decide(o, r, d)
      PROVE  AnswerInv'
  <2>1. /\ UNCHANGED <<meta, registry, worker, provider>>
        /\ pc' = [pc EXCEPT ![o] = "decide"]
        /\ errand' = [errand EXCEPT ![o] =
              [request |-> r, decision |-> d, saw |-> o \in Home /\ live.id = r]]
    BY <1>9 DEF Decide
  <2>2. \A p \in Owners : p # o => pc'[p] = pc[p] /\ errand'[p] = errand[p]
    BY <2>1
  <2>3. pc'[o] = "decide" /\ errand'[o].request = r /\ (errand'[o].saw => live.id = r)
    BY <2>1 DEF TypeOK
  <2>4. stage = "register" => live.id # asked
    OBVIOUS
  <2>5. AskedFirst'
    BY <2>1, <2>2, <2>3, <2>4
  <2>6. WaitIsLive' /\ RecordOrDelivery'
    BY <2>1, <2>2, <2>3
  <2> QED BY <2>5, <2>6
<1>10. ASSUME NEW o \in Owners, DecisionRefused(o) PROVE AnswerInv'
  BY <1>10 DEF DecisionRefused, TypeOK
<1>11. ASSUME NEW o \in Owners, DecisionExpires(o) PROVE AnswerInv'
  BY <1>11 DEF DecisionExpires, TypeOK
<1>12. ASSUME NEW o \in Owners, DecisionAccepted(o) PROVE AnswerInv'
  BY <1>12 DEF DecisionAccepted, TypeOK
<1>13. ASSUME NEW o \in Owners, Deliver(o) PROVE AnswerInv'
  BY <1>13, ResolvingMarks DEF Deliver, TypeOK
<1>14. ASSUME NEW o \in Owners, Tidy(o) PROVE AnswerInv'
  BY <1>14 DEF Tidy, TypeOK
<1>15. ASSUME NEW e \in Enders, StopMark(e) \/ ReapPublishes(e) \/ ReapClaim(e) PROVE AnswerInv'
  BY <1>15 DEF StopMark, ReapPublishes, ReapClaim, TypeOK, Open
<1>16. ASSUME NEW e \in Enders, ReapSettles(e) PROVE AnswerInv'
  BY <1>16 DEF ReapSettles, TypeOK, EndIsClaimed
<1>17. ASSUME NEW e \in Enders, EnderSettlesLive(e) PROVE AnswerInv'
  BY <1>17, SettlingLive DEF EnderSettlesLive, TypeOK, EndIsClaimed
<1>18. CASE UNCHANGED vars
  BY <1>18 DEF vars
<1> QED
  BY ONLY [Next]_vars, <1>1, <1>2, <1>3, <1>4, <1>5, <1>6, <1>7, <1>8, <1>9, <1>10, <1>11,
     <1>12, <1>13, <1>14, <1>15, <1>16, <1>17, <1>18
     DEF Next, HandlerStep, WorkerStep, OwnerStep, EnderStep

\* As long as the job goes on, the request that the worker waits for can be
\* answered, or its answer is on the way, whichever owners tidy up when.
THEOREM WaitStaysAnswerable == Spec => []WaitIsAnswerable
<1>1. AnswerInv => WaitIsAnswerable
  BY DEF AnswerInv, RecordOrDelivery, Unclaimed, WaitIsAnswerable
<1>2. IInv /\ AnswerInv /\ [Next]_vars => AnswerInv'
  BY AnswerStep
<1> QED BY <1>1, <1>2, InitAnswer, Invariance, PTL DEF Spec
-----------------------------------------------------------------------------
(* The decision that the worker has not consumed yet.                      *)

\* Only the request in the handler's hands is unanswered.
HandlerHasIt ==
    stage # "dead" =>
        \A r \in Requests : r <= asked /\ answer[r] = "none" => r = asked /\ stage \in Handling

\* A wait that was resolved or settled wakes the handler; an owner that tidies
\* up, and a handler that is not woken, left either that or the record.
WakeIsDue ==
    stage = "waiting" =>
        /\ \/ live.id = asked /\ ~ live.resolved
           \/ scheduled # "none" \/ future # "open"
        /\ \A o \in Owners : pc[o] = "tidy" /\ errand[o].request = asked =>
              live.id # asked \/ live.resolved
        /\ accepted[asked] # {} =>
              scheduled # "none" \/ future # "open" \/ (slot.id = asked /\ slot.state = "resolved")

\* A decision that comes before the wait is registered stays in the record.
RecordKeepsIt ==
    stage = "register" /\ accepted[asked] # {} => slot.id = asked /\ slot.state = "resolved"

ReachInv == HandlerHasIt /\ WakeIsDue /\ RecordKeepsIt

\* One of the handler's steps has something to do.
HandlerGoesOn ==
    \/ stage \in {"register", "woken", "answering"}
    \/ /\ stage = "waiting"
       /\ \/ future # "open" \/ scheduled # "none"
          \/ slot.id = asked /\ slot.state = "resolved" /\ live.id = asked /\ ~ live.resolved

LEMMA InitReach == Init => ReachInv
<1> SUFFICES ASSUME Init PROVE ReachInv
  OBVIOUS
<1>1. asked = 0 /\ stage = "turn" /\ \A r \in Requests : ~ (r <= asked)
  BY MaxRequestsAssumption DEF Init, Requests
<1> QED BY <1>1 DEF ReachInv, HandlerHasIt, WakeIsDue, RecordKeepsIt

\* The first one to resolve the wait schedules the callback.
LEMMA ResolvingWakes ==
    ASSUME live \in Waits, NEW r, NEW d \in Decisions, ResolveLive(r, d)
    PROVE  \/ /\ live.id = r /\ ~ live.resolved
              /\ live'.id = r /\ live'.resolved /\ scheduled' = d /\ d # "none"
           \/ (live.id # r \/ live.resolved) /\ UNCHANGED <<live, scheduled>>
<1>1. CASE live.id = r /\ ~ live.resolved
  <2>1. live' = [id |-> live.id, resolved |-> TRUE] /\ scheduled' = d
    BY <1>1 DEF ResolveLive, Waits
  <2> QED BY <1>1, <2>1 DEF Decisions
<1>2. CASE ~ (live.id = r /\ ~ live.resolved)
  BY <1>2 DEF ResolveLive
<1> QED BY <1>1, <1>2

LEMMA ReachStep == IInv /\ AnswerInv /\ ReachInv /\ [Next]_vars => ReachInv'
<1> SUFFICES ASSUME IInv, AnswerInv, ReachInv, [Next]_vars PROVE ReachInv'
  OBVIOUS
<1>0. /\ slot \in Slots /\ live \in Waits /\ asked \in Nat /\ live.id \in Nat
      /\ TypeOK /\ ErrandsAgree /\ HandlerState /\ RecordAgrees /\ NotAskedYet /\ AskedFirst
      /\ Requests \subseteq Nat /\ \A r \in Requests : r >= 1
      /\ \A o \in Owners : errand[o].request \in Nat
      /\ NoWait.id = 0 /\ NoSlot.id = 0
  <2>1. TypeOK /\ ErrandsAgree /\ HandlerState /\ RecordAgrees /\ NotAskedYet
    BY DEF IInv
  <2>2. asked \in Nat /\ live.id \in Nat /\ slot \in Slots /\ live \in Waits
    BY <2>1, MaxRequestsAssumption DEF TypeOK, Waits
  <2>3. \A o \in Owners : errand[o].request \in Nat
    BY <2>1, MaxRequestsAssumption DEF TypeOK, Errands
  <2>4. Requests \subseteq Nat /\ \A r \in Requests : r >= 1
    BY MaxRequestsAssumption DEF Requests
  <2> QED BY <2>1, <2>2, <2>3, <2>4, Values DEF AnswerInv
<1> USE <1>0, RolesAssumption
    DEF ReachInv, HandlerHasIt, WakeIsDue, RecordKeepsIt, Handling, HandlerState, AskedFirst, Answered,
        Enders, Goto, meta, registry, worker, callers
<1>1. CASE FutureFires
  BY <1>1 DEF FutureFires, TypeOK, Decisions
<1>2. CASE Register
  BY <1>2 DEF Register
<1>3. CASE Wake
  BY <1>3 DEF Wake, TypeOK
<1>4. CASE Resume
  BY <1>4 DEF Resume, TypeOK
<1>5. CASE AnswerProvider
  BY <1>5 DEF AnswerProvider, TypeOK, Decisions
<1>6. CASE TurnEnds \/ TurnAborted
  BY <1>6 DEF TurnEnds, TurnAborted, TurnOutcomes, TypeOK
<1>7. CASE WorkerPublishes \/ ProviderDies
  BY <1>7 DEF WorkerPublishes, ProviderDies
<1>8. CASE Crash
  BY <1>8 DEF Crash
<1>9. CASE Ask
  <2>1. /\ asked' = asked + 1 /\ asked + 1 \in Requests /\ stage = "turn"
        /\ UNCHANGED <<accepted, pc, errand, live, future, scheduled>>
    BY <1>9, Asking DEF Ask
  <2>2. accepted[asked + 1] = {} /\ asked + 1 > asked
    BY <2>1 DEF NotAskedYet
  <2>3. \A r \in Requests : r <= asked => answer[r] # "none"
    BY <2>1
  <2>4. CASE stage' = "register" /\ UNCHANGED answer
    BY <2>1, <2>2, <2>3, <2>4
  <2>5. CASE Answered(asked + 1, "reject") /\ UNCHANGED stage
    BY <2>1, <2>2, <2>3, <2>5 DEF TypeOK
  <2> QED BY <1>9, <2>4, <2>5 DEF Ask
<1>10. CASE Poll
  <2>1. CASE slot.id = asked /\ slot.state = "resolved" /\ UNCHANGED <<stage, answer>>
    <3>1. ResolveLive(asked, slot.decision) /\ slot.decision \in Decisions
      BY <1>10, <2>1 DEF Poll, RecordAgrees
    <3> QED BY <1>10, <2>1, <3>1, ResolvingWakes DEF Poll
  <2>2. CASE stage' = "turn" /\ Answered(asked, "cancelled")
    BY <1>10, <2>2 DEF Poll, TypeOK
  <2> QED BY <1>10, <2>1, <2>2 DEF Poll
<1>11. CASE FailSettles
  BY <1>11 DEF FailSettles
<1>12. ASSUME NEW o \in Owners, NEW r \in Requests, NEW d \in Decisions, Decide(o, r, d)
       PROVE  ReachInv'
  BY <1>12 DEF Decide, TypeOK
<1>13. ASSUME NEW o \in Owners, DecisionRefused(o) \/ DecisionExpires(o) PROVE ReachInv'
  BY <1>13, Settling DEF DecisionRefused, DecisionExpires, Settled, Rejected, TypeOK
<1>14. ASSUME NEW o \in Owners, DecisionAccepted(o) PROVE ReachInv'
  <2> DEFINE r == errand[o].request
  <2>1. /\ slot.state = "pending" /\ slot'.id = r /\ slot'.state = "resolved"
        /\ accepted' = [accepted EXCEPT ![r] = {errand[o].decision}]
        /\ \A p \in Owners : pc'[p] = "tidy" => pc[p] = "tidy"
        /\ UNCHANGED <<stage, asked, answer, live, future, scheduled, errand>>
    <3>1. slot' = [id |-> r, state |-> "resolved", decision |-> errand[o].decision]
      BY <1>14, Accepting
    <3>2. slot'.id = r /\ slot'.state = "resolved"
      BY <3>1
    <3>3. \A p \in Owners : pc'[p] = "tidy" => pc[p] = "tidy"
      BY <1>14 DEF DecisionAccepted, TypeOK
    <3> QED BY <1>14, <3>2, <3>3, Accepting DEF DecisionAccepted, Rejected
  <2>2. stage \in {"register", "waiting"} /\ accepted'[asked] # {} =>
           \/ r = asked
           \/ accepted[asked] # {}
    BY <2>1 DEF TypeOK
  <2> HIDE DEF r
  <2> QED BY <2>1, <2>2
<1>15. ASSUME NEW o \in Owners, Deliver(o) PROVE ReachInv'
  <2>1. ResolveLive(errand[o].request, errand[o].decision) /\ errand[o].decision \in Decisions
    BY <1>15 DEF Deliver, ErrandsAgree
  <2>2. UNCHANGED <<stage, answer, asked, accepted, errand, slot, future>>
    BY <1>15 DEF Deliver
  <2>3. \A p \in Owners : p # o => pc'[p] = pc[p]
    BY <1>15 DEF Deliver
  <2> QED BY <2>1, <2>2, <2>3, ResolvingWakes
<1>16. ASSUME NEW o \in Owners, Tidy(o) PROVE ReachInv'
  BY <1>16 DEF Tidy, TypeOK
<1>17. ASSUME NEW e \in Enders, StopMark(e) \/ ReapSettles(e) PROVE ReachInv'
  BY <1>17 DEF StopMark, ReapSettles, Settled, TypeOK
<1>18. ASSUME NEW e \in Enders, ReapPublishes(e) \/ ReapClaim(e) PROVE ReachInv'
  BY <1>18 DEF ReapPublishes, ReapClaim, TypeOK
<1>19. ASSUME NEW e \in Enders, EnderSettlesLive(e) PROVE ReachInv'
  BY <1>19 DEF EnderSettlesLive, SettleLive, TypeOK
<1>20. CASE UNCHANGED vars
  BY <1>20 DEF vars
<1> QED
  BY ONLY [Next]_vars, <1>1, <1>2, <1>3, <1>4, <1>5, <1>6, <1>7, <1>8, <1>9, <1>10, <1>11,
     <1>12, <1>13, <1>14, <1>15, <1>16, <1>17, <1>18, <1>19, <1>20
     DEF Next, HandlerStep, WorkerStep, OwnerStep, EnderStep

\* What keeps AcceptedIsConsumed from being stuck: as long as an accepted
\* decision was not consumed and the worker lives, its handler has that
\* request in hand and a step to take, whoever settled, tidied up or stopped.
THEOREM AcceptedIsInReach ==
    Spec => [](\A r \in Requests :
                  accepted[r] # {} /\ answer[r] = "none" /\ stage # "dead"
                      => r = asked /\ HandlerGoesOn)
<1>1. IInv /\ ReachInv =>
        \A r \in Requests : accepted[r] # {} /\ answer[r] = "none" /\ stage # "dead"
                                => r = asked /\ HandlerGoesOn
  <2> SUFFICES ASSUME IInv, ReachInv, NEW r \in Requests,
                      accepted[r] # {}, answer[r] = "none", stage # "dead"
               PROVE  r = asked /\ HandlerGoesOn
    OBVIOUS
  <2>1. r <= asked
    <3>1. r \in Nat /\ asked \in Nat
      BY MaxRequestsAssumption DEF IInv, TypeOK, Requests
    <3> QED BY <3>1 DEF IInv, NotAskedYet
  <2>2. r = asked /\ stage \in Handling
    BY <2>1 DEF ReachInv, HandlerHasIt
  <2> QED BY <2>2 DEF ReachInv, WakeIsDue, Handling, HandlerGoesOn
<1>2. IInv /\ AnswerInv /\ [Next]_vars => AnswerInv'
  BY AnswerStep
<1>3. IInv /\ AnswerInv /\ ReachInv /\ [Next]_vars => ReachInv'
  BY ReachStep
<1> QED BY <1>1, <1>2, <1>3, InitAnswer, InitReach, Invariance, PTL DEF Spec

-----------------------------------------------------------------------------
(* What a denied request does to the result.                               *)

\* A turn is taken for completed, and a job for succeeded, only with no denied
\* request, and once it succeeded no handler is left to deny one.
NoneDenied ==
    /\ status = "succeeded" => stage = "over"
    /\ stage = "completed" \/ status = "succeeded" =>
          \A r \in Requests : answer[r] # "reject"

LEMMA KeepsNoneDenied == IInv /\ NoneDenied /\ [Next]_vars => NoneDenied'
<1> SUFFICES ASSUME IInv, NoneDenied, [Next]_vars PROVE NoneDenied'
  OBVIOUS
<1> USE DEF NoneDenied, IInv, TypeOK, meta, registry, worker, callers
<1>1. ASSUME HandlerStep
      PROVE  \/ status' # "succeeded" /\ stage' # "completed"
             \/ UNCHANGED <<status, stage, answer>>
  BY <1>1 DEF HandlerStep, Register, Poll, Wake, Resume, AnswerProvider, FutureFires
<1>2. CASE Ask
  BY <1>2 DEF Ask
<1>3. CASE TurnEnds
  BY <1>3 DEF TurnEnds, TurnOutcomes
<1>4. CASE TurnAborted
  <2>1. /\ stage = "waiting" /\ stage' \in TurnOutcomes /\ status' = status
        /\ answer' = [answer EXCEPT ![asked] = "cancelled"]
    BY <1>4 DEF TurnAborted, Answered
  <2>2. \A r \in Requests : answer'[r] = "reject" => answer[r] = "reject"
    BY <2>1
  <2> QED BY <2>1, <2>2 DEF TurnOutcomes
<1>5. CASE FailSettles
  BY <1>5 DEF FailSettles
<1>6. CASE WorkerPublishes
  BY <1>6 DEF WorkerPublishes, Open
<1>7. ASSUME NEW o \in Owners,
             OwnerStep(o) \/ \E r \in Requests, d \in Decisions : Decide(o, r, d)
      PROVE  UNCHANGED <<status, stage, answer>>
  BY <1>7 DEF OwnerStep, Decide, DecisionRefused, DecisionExpires, DecisionAccepted,
              Deliver, Tidy
<1>8. ASSUME NEW e \in Enders, EnderStep(e)
      PROVE  UNCHANGED <<stage, answer>> /\ (status' = "succeeded" => status' = status)
  BY <1>8 DEF EnderStep, StopMark, ReapClaim, ReapSettles, EnderSettlesLive, ReapPublishes
<1>9. CASE ProviderDies
  BY <1>9 DEF ProviderDies
<1>10. CASE Crash
  BY <1>10 DEF Crash
<1>11. CASE UNCHANGED vars
  BY <1>11 DEF vars
<1> QED
  BY ONLY NoneDenied, [Next]_vars, <1>1, <1>2, <1>3, <1>4, <1>5, <1>6, <1>7, <1>8, <1>9,
     <1>10, <1>11
     DEF NoneDenied, Next, WorkerStep

\* A turn in which the provider was refused anything is not published as a
\* success, whenever the refusal came and whoever made it.
THEOREM DenialPreventsSuccess == Spec => []DeniedNeverSucceeds
<1>1. Init => NoneDenied
  BY DEF Init, NoneDenied
<1>2. IInv /\ NoneDenied /\ [Next]_vars => NoneDenied'
  BY KeepsNoneDenied
<1>3. NoneDenied => DeniedNeverSucceeds
  BY DEF NoneDenied, DeniedNeverSucceeds
<1> QED BY <1>1, <1>2, <1>3, Invariance, PTL DEF Spec
=============================================================================
