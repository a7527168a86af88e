--------------------------- MODULE OwnerPermission ---------------------------
(***************************************************************************)
(* Permission requests of an ACP provider, answered by the owner of the    *)
(* job (acp_runtime.py, pending_permissions.py, jobs.py).                  *)
(*                                                                         *)
(* The request lives in two places: meta.json's one pending_request, which *)
(* any process reads and settles under the metadata lock, and a wait in    *)
(* the registry of the worker's process, which only that process sees.     *)
(* job_send writes the decision into the first and, where it can, wakes    *)
(* the second; the worker polls the first.  A stop, a reaper and the       *)
(* worker's own failure settle both, one after the other.                  *)
(***************************************************************************)
EXTENDS Naturals

CONSTANTS
    MaxRequests,    \* bound on the requests the provider makes
    RejectOnly,     \* requests whose details are truncated or incomplete
    Owners,         \* callers of job_send with a structured decision
    Stoppers, Reapers,
    Home,           \* the actors inside the worker's process
    NoActor,
    MaxFaults       \* bound on crashes of the worker's process

Requests == 1 .. MaxRequests
Enders == Stoppers \cup Reapers

ASSUME MaxRequestsAssumption == MaxRequests \in Nat /\ MaxFaults \in Nat
ASSUME RejectOnlyAssumption == RejectOnly \subseteq Requests
ASSUME RolesAssumption ==
    /\ Owners \cap Enders = {} /\ Stoppers \cap Reapers = {}
    /\ Home \subseteq Owners \cup Enders
    /\ NoActor \notin Owners \cup Enders

VARIABLES
    status,     \* meta.status
    claim,      \* who owns meta's terminalization claim
    slot,       \* meta.pending_request
    live,       \* the wait in the worker's registry
    future,     \* the wait's future
    scheduled,  \* the callback call_soon_threadsafe put on the worker's loop
    asked,      \* the provider's requests so far
    stage,      \* what the worker does next
    answer,     \* what the provider got for each request
    accepted,   \* the decisions an owner was told are accepted
    pc,         \* what each owner and ender does next
    errand,     \* the request, decision and registry look-up of an owner
    provider,   \* the ACP child process
    faults

meta == <<status, claim, slot>>
registry == <<live, future, scheduled>>
worker == <<asked, stage, answer>>
callers == <<accepted, pc, errand>>
vars == <<meta, registry, worker, callers, provider, faults>>

-----------------------------------------------------------------------------
Decisions == {"allow", "reject"}
Offered(r) == IF r \in RejectOnly THEN {"reject"} ELSE Decisions

Open == {"running", "awaiting_input"}
Terminal == {"succeeded", "failed", "stopped"}

Slots == [id : 0 .. MaxRequests, decision : Decisions \cup {"none"},
          state : {"none", "pending", "resolved", "expired", "cancelled"}]
Waits == [id : 0 .. MaxRequests, resolved : BOOLEAN]
Errands == [request : 0 .. MaxRequests, decision : Decisions \cup {"none"}, saw : BOOLEAN]

NoSlot == [id |-> 0, state |-> "none", decision |-> "none"]
Pending(r) == [id |-> r, state |-> "pending", decision |-> "none"]
NoWait == [id |-> 0, resolved |-> FALSE]
NoErrand == [request |-> 0, decision |-> "none", saw |-> FALSE]

Stages == {"turn", "register", "waiting", "woken", "answering", "settle",
           "settled", "completed", "over", "dead"}

Goto(a, where) == pc' = [pc EXCEPT ![a] = where]
Answered(r, a) == answer' = [answer EXCEPT ![r] = a]

\* _mark_pending_settled
Settled(outcome) ==
    IF slot.state = "pending" THEN [slot EXCEPT !.state = outcome] ELSE slot

TypeOK ==
    /\ status \in Open \cup Terminal
    /\ claim \in Reapers \cup {NoActor}
    /\ slot \in Slots
    /\ live \in Waits
    /\ future \in Decisions \cup {"open", "cancelled"}
    /\ scheduled \in Decisions \cup {"none", "cancelled"}
    /\ asked \in 0 .. MaxRequests
    /\ stage \in Stages
    /\ answer \in [Requests -> Decisions \cup {"none", "cancelled"}]
    /\ accepted \in [Requests -> SUBSET Decisions]
    /\ pc \in [Owners \cup Enders -> {"idle", "decide", "deliver", "tidy", "settle",
                                      "settleLive", "publish", "done", "dead"}]
    /\ errand \in [Owners -> Errands]
    /\ provider \in {"alive", "gone"}
    /\ faults \in 0 .. MaxFaults

\* The child process is running its turn and its identity is recorded.
Init ==
    /\ status = "running" /\ claim = NoActor /\ slot = NoSlot
    /\ live = NoWait /\ future = "open" /\ scheduled = "none"
    /\ asked = 0 /\ stage = "turn"
    /\ answer = [r \in Requests |-> "none"]
    /\ accepted = [r \in Requests |-> {}]
    /\ pc = [a \in Owners \cup Enders |-> "idle"]
    /\ errand = [o \in Owners |-> NoErrand]
    /\ provider = "alive"
    /\ faults = 0

-----------------------------------------------------------------------------
(* PendingPermissionRegistry *)

\* resolve: the first one schedules the delivery, any other does nothing.
ResolveLive(r, d) ==
    IF live.id = r /\ ~live.resolved
    THEN live' = [live EXCEPT !.resolved = TRUE] /\ scheduled' = d
    ELSE UNCHANGED <<live, scheduled>>

\* settle_job, which only finds the waits of its own process.
SettleLive(inHome) ==
    IF inHome
    THEN /\ live' = NoWait
         /\ scheduled' = IF live.id # 0 /\ ~live.resolved THEN "cancelled" ELSE scheduled
    ELSE UNCHANGED <<live, scheduled>>

\* The worker's loop runs the callback; a future that is done stays as it is.
FutureFires ==
    /\ scheduled # "none" /\ stage # "dead"
    /\ future' = IF future = "open" THEN scheduled ELSE future
    /\ scheduled' = "none"
    /\ UNCHANGED <<meta, live, worker, callers, provider, faults>>

-----------------------------------------------------------------------------
(* The permission handler of run_acp_job *)

\* The record is written in the transition that pauses the job; a job that is
\* not running any more refuses the request.
Ask ==
    /\ stage = "turn" /\ provider = "alive" /\ asked < MaxRequests
    /\ asked' = asked + 1
    /\ \/ /\ status = "running"
          /\ status' = "awaiting_input" /\ slot' = Pending(asked + 1)
          /\ stage' = "register"
          /\ UNCHANGED answer
       \/ /\ status # "running"
          /\ Answered(asked + 1, "reject")
          /\ UNCHANGED <<status, slot, stage>>
    /\ UNCHANGED <<claim, registry, callers, provider, faults>>

Register ==
    /\ stage = "register"
    /\ live' = [id |-> asked, resolved |-> FALSE]
    /\ future' = "open" /\ scheduled' = "none"
    /\ stage' = "waiting"
    /\ UNCHANGED <<meta, asked, answer, callers, provider, faults>>

\* Mutant: only the future wakes the worker.
PollTerminalOnly ==
    /\ stage = "waiting" /\ future = "open"
    /\ status \in Terminal
    /\ live' = NoWait
    /\ Answered(asked, "cancelled") /\ stage' = "turn"
    /\ UNCHANGED <<meta, future, scheduled, asked, callers, provider, faults>>

\* One round of the loop while the future is open: the durable inbox first,
\* the terminal fence second.
Poll ==
    /\ stage = "waiting" /\ future = "open"
    /\ \/ /\ slot.id = asked /\ slot.state = "resolved"
          /\ ResolveLive(asked, slot.decision)
          /\ UNCHANGED <<stage, answer>>
       \/ /\ ~(slot.id = asked /\ slot.state = "resolved")
          /\ status \in Terminal
          /\ live' = NoWait /\ UNCHANGED scheduled
          /\ Answered(asked, "cancelled") /\ stage' = "turn"
    /\ UNCHANGED <<meta, future, asked, callers, provider, faults>>

\* The future is done; the wait is discarded on every way out.
Wake ==
    /\ stage = "waiting" /\ future # "open"
    /\ live' = NoWait
    /\ \/ future \in Decisions /\ stage' = "woken" /\ UNCHANGED answer
       \/ future = "cancelled" /\ stage' = "turn" /\ Answered(asked, "cancelled")
    /\ UNCHANGED <<meta, future, scheduled, asked, callers, provider, faults>>

\* Mutant: the job is resumed wherever it stands.
ResumeUnchecked ==
    /\ stage = "woken"
    /\ status' = "running" /\ slot' = NoSlot /\ stage' = "answering"
    /\ UNCHANGED <<claim, registry, asked, answer, callers, provider, faults>>

\* The terminal fence: the decision is consumed only by resuming the job.
Resume ==
    /\ stage = "woken"
    /\ \/ /\ status = "awaiting_input"
          /\ status' = "running" /\ slot' = NoSlot /\ stage' = "answering"
          /\ UNCHANGED answer
       \/ /\ status # "awaiting_input"
          /\ Answered(asked, "reject") /\ stage' = "turn"
          /\ UNCHANGED <<status, slot>>
    /\ UNCHANGED <<claim, registry, asked, callers, provider, faults>>

AnswerProvider ==
    /\ stage = "answering"
    /\ Answered(asked, future) /\ stage' = "turn"
    /\ UNCHANGED <<meta, registry, asked, callers, provider, faults>>

-----------------------------------------------------------------------------
(* The end of run_acp_job *)

\* A turn in which a request was rejected is never a completed one.
TurnOutcomes ==
    IF \E r \in Requests : answer[r] = "reject" THEN {"settle"} ELSE {"completed", "settle"}

TurnEnds ==
    /\ stage = "turn"
    /\ provider' = "gone"
    /\ stage' \in TurnOutcomes
    /\ UNCHANGED <<meta, registry, asked, answer, callers, faults>>

\* Timeout, protocol error, the child's death, or a provider that ends its turn
\* beside its own request: the handler that waits is cancelled, the child ended.
TurnAborted ==
    /\ stage = "waiting"
    /\ provider' = "gone"
    /\ live' = NoWait
    /\ Answered(asked, "cancelled") /\ stage' \in TurnOutcomes
    /\ UNCHANGED <<meta, future, scheduled, asked, callers, faults>>

\* _fail settles before it publishes.
FailSettles ==
    /\ stage = "settle"
    /\ slot' = Settled("expired")
    /\ SettleLive(TRUE)
    /\ stage' = "settled"
    /\ UNCHANGED <<status, claim, future, asked, answer, callers, provider, faults>>

WorkerPublishes ==
    /\ stage \in {"settled", "completed"}
    /\ status' = IF status \in Open /\ claim = NoActor
                 THEN IF stage = "completed" THEN "succeeded" ELSE "failed"
                 ELSE status
    /\ live' = NoWait
    /\ stage' = "over"
    /\ UNCHANGED <<claim, slot, future, scheduled, asked, answer, callers, provider, faults>>

-----------------------------------------------------------------------------
(* _resolve_pending_decision *)

\* The look into the registry comes before the lock.
Decide(o, r, d) ==
    /\ pc[o] = "idle" /\ r <= asked
    /\ errand' = [errand EXCEPT ![o] =
          [request |-> r, decision |-> d, saw |-> o \in Home /\ live.id = r]]
    /\ Goto(o, "decide")
    /\ UNCHANGED <<meta, registry, worker, accepted, provider, faults>>

\* Mutant: the request is not compared.
RejectedUnlessPending(o) == status \notin Open \/ slot.state # "pending"

Rejected(o) ==
    \/ status \notin Open
    \/ slot.id # errand[o].request \/ slot.state # "pending"

\* request_not_pending or invalid_decision
DecisionRefused(o) ==
    /\ pc[o] = "decide"
    /\ Rejected(o) \/ errand[o].decision \notin Offered(errand[o].request)
    /\ Goto(o, "idle")
    /\ UNCHANGED <<meta, registry, worker, accepted, errand, provider, faults>>

\* No wait in this process and no provider to poll: the request is over.
DecisionExpires(o) ==
    /\ pc[o] = "decide" /\ ~Rejected(o)
    /\ errand[o].decision \in Offered(errand[o].request)
    /\ ~errand[o].saw /\ provider = "gone"
    /\ slot' = Settled("expired")
    /\ Goto(o, "idle")
    /\ UNCHANGED <<status, claim, registry, worker, accepted, errand, provider, faults>>

\* The compare-and-set hands the decision over to the worker's process.
DecisionAccepted(o) ==
    LET e == errand[o] IN
    /\ pc[o] = "decide" /\ ~Rejected(o) /\ e.decision \in Offered(e.request)
    /\ e.saw \/ provider = "alive"
    /\ slot' = [id |-> slot.id, state |-> "resolved", decision |-> e.decision]
    /\ accepted' = [accepted EXCEPT ![e.request] = @ \cup {e.decision}]
    /\ Goto(o, IF e.saw THEN "deliver" ELSE "idle")
    /\ UNCHANGED <<status, claim, registry, worker, errand, provider, faults>>

Deliver(o) ==
    /\ pc[o] = "deliver"
    /\ ResolveLive(errand[o].request, errand[o].decision)
    /\ Goto(o, "tidy")
    /\ UNCHANGED <<meta, future, worker, accepted, errand, provider, faults>>

\* Mutant: whatever is in the slot is removed.
TidyAnything(o) ==
    /\ pc[o] = "tidy"
    /\ slot' = NoSlot
    /\ Goto(o, "idle")
    /\ UNCHANGED <<status, claim, registry, worker, accepted, errand, provider, faults>>

\* The record is removed if it still is the one this owner resolved.
Tidy(o) ==
    /\ pc[o] = "tidy"
    /\ slot' = IF slot.id = errand[o].request /\ slot.state = "resolved" THEN NoSlot ELSE slot
    /\ Goto(o, "idle")
    /\ UNCHANGED <<status, claim, registry, worker, accepted, errand, provider, faults>>

-----------------------------------------------------------------------------
(* stop_job and _reap_deadline_expired_job *)

StopMark(s) ==
    /\ pc[s] = "idle" /\ s \in Stoppers /\ status \in Open
    /\ status' = "stopped"
    /\ slot' = Settled("cancelled")
    /\ Goto(s, IF slot.state = "pending" THEN "settleLive" ELSE "done")
    /\ UNCHANGED <<claim, registry, worker, accepted, errand, provider, faults>>

ReapClaim(r) ==
    /\ pc[r] = "idle" /\ r \in Reapers /\ status \in Open /\ claim = NoActor
    /\ claim' = r
    /\ provider' \in {provider, "gone"}
    /\ Goto(r, "settle")
    /\ UNCHANGED <<status, slot, registry, worker, accepted, errand, faults>>

ReapSettles(r) ==
    /\ pc[r] = "settle"
    /\ slot' = Settled("expired")
    /\ Goto(r, "settleLive")
    /\ UNCHANGED <<status, claim, registry, worker, accepted, errand, provider, faults>>

EnderSettlesLive(e) ==
    /\ pc[e] = "settleLive"
    /\ SettleLive(e \in Home)
    /\ Goto(e, IF e \in Reapers THEN "publish" ELSE "done")
    /\ UNCHANGED <<meta, future, worker, accepted, errand, provider, faults>>

ReapPublishes(r) ==
    /\ pc[r] = "publish"
    /\ status' = IF status \in Open THEN "failed" ELSE status
    /\ Goto(r, "done")
    /\ UNCHANGED <<claim, slot, registry, worker, accepted, errand, provider, faults>>

-----------------------------------------------------------------------------
(* Environment *)

ProviderDies ==
    /\ provider = "alive" /\ provider' = "gone"
    /\ UNCHANGED <<meta, registry, worker, callers, faults>>

\* The worker's process goes, with its registry and the callers inside it.
Crash ==
    /\ faults < MaxFaults /\ stage \notin {"over", "dead"}
    /\ faults' = faults + 1
    /\ stage' = "dead" /\ live' = NoWait
    /\ pc' = [a \in Owners \cup Enders |-> IF a \in Home THEN "dead" ELSE pc[a]]
    /\ UNCHANGED <<meta, future, scheduled, asked, answer, accepted, errand, provider>>

-----------------------------------------------------------------------------
HandlerStep == Register \/ Poll \/ Wake \/ Resume \/ AnswerProvider \/ FutureFires
WorkerStep == Ask \/ TurnEnds \/ TurnAborted \/ FailSettles \/ WorkerPublishes

OwnerStep(o) ==
    DecisionRefused(o) \/ DecisionExpires(o) \/ DecisionAccepted(o) \/ Deliver(o) \/ Tidy(o)

EnderStep(e) ==
    StopMark(e) \/ ReapClaim(e) \/ ReapSettles(e) \/ EnderSettlesLive(e) \/ ReapPublishes(e)

Next ==
    \/ HandlerStep \/ WorkerStep
    \/ \E o \in Owners : OwnerStep(o) \/ \E r \in Requests, d \in Decisions : Decide(o, r, d)
    \/ \E e \in Enders : EnderStep(e)
    \/ ProviderDies \/ Crash

Spec == Init /\ [][Next]_vars

\* The worker's event loop keeps running.  A caller may die once its decision
\* is recorded.
FairSpec == Spec /\ WF_vars(HandlerStep)

-----------------------------------------------------------------------------
(* Properties *)

\* The provider is told allow only for a request that an owner was allowed to
\* allow and was told is allowed, and no request has two accepted decisions,
\* however many owners in however many processes answer at once.
AnswerIsTheOwners ==
    \A r \in Requests :
        /\ answer[r] = "allow" => accepted[r] = {"allow"} /\ r \notin RejectOnly
        /\ accepted[r] # Decisions

\* A request that the worker waits for can be answered: no owner who is slow
\* to tidy up, no second owner and no settlement of an earlier request takes
\* its record away while the job goes on.
WaitIsAnswerable ==
    /\ stage = "waiting" /\ future = "open" /\ scheduled = "none"
    /\ status \in Open /\ claim = NoActor /\ provider = "alive"
    => \/ slot.id = asked /\ slot.state \in {"pending", "resolved"}
       \/ live.resolved

\* A denied operation never turns into a completed result.
DeniedNeverSucceeds ==
    status = "succeeded" => \A r \in Requests : answer[r] # "reject"

\* No decision, however late, is accepted for a job that has ended, and none
\* resurrects it, although a reaper settles the request before it ends the
\* job and the worker may ask again in between.
EndedStaysEnded ==
    [][(status \in Terminal) => (status' = status /\ accepted' = accepted)]_vars

\* A decision that was recorded as accepted reaches the worker's handler, by
\* the registry or by the record, also when the owner's process dies right
\* after it recorded it.
AcceptedIsConsumed ==
    \A r \in Requests :
        accepted[r] # {} ~> answer[r] # "none" \/ stage = "dead"

\* The protocol as its users see it.
Phase == IF status \in Terminal THEN "ended" ELSE IF claim # NoActor THEN "ending" ELSE "open"
Decided(r) == IF accepted[r] = {} THEN "none" ELSE CHOOSE d \in accepted[r] : TRUE
Contract == INSTANCE PermissionContract
    WITH decided <- [r \in Requests |-> Decided(r)], phase <- Phase
ImplementsContract == Contract!ContractSpec

\* "Pending requests MUST settle exactly when their job becomes terminal":
\* a stop, a reaper or a failure leaves no request pending in the record.
EndedIsSettled ==
    status \in {"failed", "stopped"} => slot.state # "pending"
=============================================================================
