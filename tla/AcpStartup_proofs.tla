------------------------- MODULE AcpStartup_proofs -------------------------
(***************************************************************************)
(* The launch of an ACP job against its stops, for any number of crashes,  *)
(* failed writes and evicted handles.                                      *)
(***************************************************************************)
EXTENDS AcpStartup, TLAPS

-----------------------------------------------------------------------------
(* The inductive invariant.                                                *)

\* The worker has been where it could start a provider.
Past == pc \in Over \/ observed # "none" \/ error # "none"

\* Until then there is no provider, and nobody knows one.
NothingYet ==
    pc \in Preparing \cup {"spawn"} =>
        ~Past /\ child = "absent" /\ identity = "none"

\* An identity in the record is one the worker has seen.
IdentityIsSeen == identity # "none" => observed # "none"

\* The launch is marked as pending from its intent to the recorded identity.
Marked == pc \in {"spawnFence", "spawn", "record"} => pending

\* An error leaves the worker nothing alive, except where the spawn was
\* abandoned: then the launch is still marked.
Leaving ==
    /\ pc \in {"handle", "publish"} => error # "none"
    /\ pc \in {"handle", "publish"} /\ child = "alive" =>
        pending /\ observed = "none" /\ identity = "none" /\ error \in {"silent", "interrupted"}
    /\ pc = "publish" /\ error = "interrupted" => evidence["worker"] # "none"
    /\ error = "none" \/ pc \in {"handle", "publish"} \cup Over

\* With the identity on record the handle's event or the record stops the worker.
InSession == pc \in InContext \ {"record"} => observed # "none"

\* Whoever learned that the cleanup is confirmed learned the truth for good.
Truthful ==
    \A a \in Callers \cup {"worker"} :
        evidence[a] = "confirmed" => Past /\ child # "alive"

Receipts ==
    /\ receipt = "confirmed" => Past /\ child # "alive"
    /\ ~lease => Past /\ child # "alive"

\* The part of TypeOK that is about Booleans.
Flags ==
    /\ lease \in BOOLEAN /\ flagged \in BOOLEAN /\ pending \in BOOLEAN
    /\ event \in BOOLEAN /\ kin \in BOOLEAN /\ prompted \in BOOLEAN

IInv ==
    /\ TypeOK /\ NothingYet /\ IdentityIsSeen /\ Marked /\ Leaving /\ InSession
    /\ Truthful /\ Receipts

LEMMA HandleTypes ==
    /\ NoHandle \in Handle /\ ~NoHandle.set /\ NoHandle.by = "nobody"
    /\ [by |-> "caller", set |-> FALSE] \in Handle
    /\ \A b \in {"nobody", "worker", "caller"}, s \in BOOLEAN : [by |-> b, set |-> s] \in Handle
    /\ \A h \in Handle :
         /\ h.set \in BOOLEAN /\ h.by \in {"nobody", "worker", "caller"}
         /\ [h EXCEPT !.set = TRUE] \in Handle
  BY DEF Handle, NoHandle

LEMMA InitIInv == Init => IInv
<1> SUFFICES ASSUME Init PROVE IInv
  OBVIOUS
<1> USE CallersAssumption, MaxFaultsAssumption, HandleTypes
    DEF Init, Callers, Preparing, InContext, Over, Past
<1>1. TypeOK
  <2>1. Flags
    BY DEF Flags
  <2> QED BY <2>1 DEF TypeOK, Flags
<1>2. NothingYet /\ IdentityIsSeen /\ Marked /\ Leaving /\ InSession
  BY DEF NothingYet, IdentityIsSeen, Marked, Leaving, InSession
<1>3. Truthful /\ Receipts
  BY DEF Truthful, Receipts
<1> QED BY <1>1, <1>2, <1>3 DEF IInv

-----------------------------------------------------------------------------
(* Terminate: what safe_acp_termination reports is true for good.          *)

LEMMA TerminationIsTruthful ==
    ASSUME IInv, NEW who \in Callers \cup {"worker"}, NEW id \in {"none", "partial", "full"},
           id # "none" => observed # "none",
           Terminate(who, id)
    PROVE  /\ child' \in {"absent", "alive", "gone"} /\ kin' \in BOOLEAN
           /\ prompted' = prompted
           /\ evidence' \in [Callers \cup {"worker"} -> {"none", "confirmed", "unconfirmed"}]
           /\ child' = "alive" => child = "alive"
           /\ child = "absent" => child' = "absent"
           /\ evidence'[who] \in {"confirmed", "unconfirmed"}
           /\ evidence'[who] = "confirmed" => Past /\ child' # "alive"
           /\ \A a \in Callers \cup {"worker"} : a # who => evidence'[a] = evidence[a]
<1>1. PICK t \in Termination(id) : /\ evidence' = [evidence EXCEPT ![who] = t.seen]
                                   /\ child' = t.child /\ kin' = t.kin
                                   /\ UNCHANGED prompted
  BY DEF Terminate
<1>2. /\ t.seen \in {"confirmed", "unconfirmed"}
      /\ t.kin \in BOOLEAN
      /\ \/ t.child = child
         \/ t.child = "gone" /\ child = "alive"
      /\ t.seen = "confirmed" => id # "none" /\ t.child # "alive"
  <2> DEFINE Untouched(seen) == [seen |-> seen, child |-> child, kin |-> kin]
  <2>1. ASSUME NEW seen \in {"confirmed", "unconfirmed"}, t = Untouched(seen),
               seen = "confirmed" => id # "none" /\ child # "alive"
        PROVE  t.seen = seen /\ t.child = child /\ t.kin \in BOOLEAN
    <3>1. t.seen = seen /\ t.child = child /\ t.kin = kin
      BY <2>1
    <3> QED BY <3>1, Zenon DEF IInv, TypeOK
  <2>2. ASSUME t \in Signalled
        PROVE  t.seen = "confirmed" /\ t.child = "gone" /\ t.kin \in BOOLEAN
    <3>1. t.seen = "confirmed" /\ t.child = "gone" /\ t.kin \in {kin, FALSE}
      BY <2>2 DEF Signalled
    <3> QED BY <3>1, Zenon DEF IInv, TypeOK
  <2>3. CASE id = "none"
    <3>1. t = Untouched("unconfirmed")
      BY <2>3 DEF Termination
    <3> QED BY <2>1, <3>1
  <2>4. CASE id # "none" /\ child # "alive"
    <3>1. t = Untouched("confirmed")
      BY <2>4 DEF Termination
    <3> QED BY <2>1, <2>4, <3>1
  <2>5. CASE id # "none" /\ child = "alive"
    <3>1. t = Untouched("unconfirmed") \/ t \in Signalled
      BY <2>5 DEF Termination
    <3> HIDE DEF Untouched
    <3> QED BY <2>1, <2>2, <2>5, <3>1
  <2> QED BY <2>3, <2>4, <2>5
<1> QED BY <1>1, <1>2 DEF IInv, TypeOK, Past

-----------------------------------------------------------------------------
LEMMA WorkerKeeps == ASSUME IInv, WorkerStep PROVE IInv'
<1> USE CallersAssumption, MaxFaultsAssumption, HandleTypes
    DEF IInv, TypeOK, NothingYet, IdentityIsSeen, Marked, Leaving, InSession, Truthful,
        Receipts, Past, Callers, Preparing, InContext, Over,
        record, handles, worker, provider, LeaveContext
<1>1. CASE Begin
  BY <1>1 DEF Begin
<1>2. CASE Register
  BY <1>2 DEF Register
<1>3. CASE FirstFence
  BY <1>3 DEF FirstFence
<1>4. CASE LaunchIntent
  BY <1>4 DEF LaunchIntent
<1>5. CASE SpawnFence
  BY <1>5 DEF SpawnFence
<1>6. CASE Spawn
  BY <1>6 DEF Spawn
<1>7. ASSUME NEW kind \in {"launch", "protocol"}, SpawnFails(kind) PROVE IInv'
  BY <1>7 DEF SpawnFails
<1>8. ASSUME NEW kind \in {"silent", "interrupted"}, SpawnAbandoned(kind) PROVE IInv'
  BY <1>8 DEF SpawnAbandoned
<1>9. ASSUME NEW id \in Identities, RecordPid(id) PROVE IInv'
  <2>1. TypeOK'
    <3>1. Flags'
      BY <1>9 DEF RecordPid, Identities, Flags
    <3> QED
      BY <1>9, <3>1 DEF RecordPid, Identities, Flags
  <2>2. NothingYet' /\ IdentityIsSeen' /\ Marked' /\ Leaving' /\ InSession'
    BY <1>9 DEF RecordPid, Identities
  <2>3. Truthful' /\ Receipts'
    BY <1>9 DEF RecordPid, Identities
  <2> QED BY ONLY <2>1, <2>2, <2>3 DEF IInv
<1>10. ASSUME NEW id \in Identities, RecordPidFails(id) PROVE IInv'
  BY <1>10 DEF RecordPidFails, Identities
<1>11. CASE RecordFence
  <2>1. TypeOK'
    <3>1. Flags'
      BY <1>11 DEF RecordFence, Flags
    <3> QED
      BY <1>11, <3>1 DEF RecordFence, Flags
  <2>2. NothingYet' /\ IdentityIsSeen' /\ Marked' /\ Leaving' /\ InSession'
    BY <1>11 DEF RecordFence
  <2>3. Truthful' /\ Receipts'
    BY <1>11 DEF RecordFence
  <2> QED BY ONLY <2>1, <2>2, <2>3 DEF IInv
<1>12. CASE PrepareSession
  BY <1>12 DEF PrepareSession
<1>13. CASE PromptFence
  <2>1. TypeOK'
    <3>1. Flags'
      BY <1>13 DEF PromptFence, Flags
    <3> QED
      BY <1>13, <3>1 DEF PromptFence, Flags
  <2>2. NothingYet' /\ IdentityIsSeen' /\ Marked' /\ Leaving' /\ InSession'
    BY <1>13 DEF PromptFence
  <2>3. Truthful' /\ Receipts'
    BY <1>13 DEF PromptFence
  <2> QED BY ONLY <2>1, <2>2, <2>3 DEF IInv
<1>14. ASSUME NEW kind \in {"protocol", "silent", "interrupted"}, ContextFails(kind) PROVE IInv'
  BY <1>14 DEF ContextFails
<1>15. CASE IncompleteTurn
  BY <1>15 DEF IncompleteTurn
<1>16. CASE Succeed
  <2>1. TypeOK'
    <3>1. Flags'
      BY <1>16 DEF Succeed, Published, Flags
    <3> QED
      BY <1>16, <3>1 DEF Succeed, Published, Flags
  <2>2. NothingYet' /\ IdentityIsSeen' /\ Marked' /\ Leaving' /\ InSession'
    BY <1>16 DEF Succeed, Published
  <2>3. Truthful' /\ Receipts'
    BY <1>16 DEF Succeed, Published
  <2> QED BY ONLY <2>1, <2>2, <2>3 DEF IInv
<1>17. CASE HandleError
  <2>1. ASSUME observed # "none" \/ identity = "none",
               \/ error = "protocol" /\ observed # "none" /\ Terminate("worker", observed)
               \/ error = "interrupted" /\ Terminate("worker", identity),
               pc = "handle", pc' = "publish",
               UNCHANGED <<pending, status, receipt, lease, flagged, identity, handles, observed,
                           error, call, faults>>
        PROVE  IInv'
    <3>1. /\ child' \in {"absent", "alive", "gone"} /\ kin' \in BOOLEAN
          /\ prompted' = prompted
          /\ evidence' \in [Callers \cup {"worker"} -> {"none", "confirmed", "unconfirmed"}]
          /\ child' = "alive" => child = "alive"
          /\ evidence'["worker"] \in {"confirmed", "unconfirmed"}
          /\ evidence'["worker"] = "confirmed" => Past /\ child' # "alive"
          /\ \A a \in Callers \cup {"worker"} : a # "worker" => evidence'[a] = evidence[a]
      BY ONLY <2>1, IInv, TerminationIsTruthful DEF IInv, TypeOK, IdentityIsSeen
    <3> QED BY <2>1, <3>1
  <2>2. CASE error = "protocol" /\ observed = "none"
    <3>1. TypeOK'
      <4>1. Flags'
        BY <1>17, <2>2
           DEF HandleError, HandleProtocol, HandleLaunch, HandleInterrupt, HandleSilent, Flags
      <4> QED
        BY <1>17, <2>2, <4>1
           DEF HandleError, HandleProtocol, HandleLaunch, HandleInterrupt, HandleSilent, Flags
    <3>2. NothingYet' /\ IdentityIsSeen' /\ Marked' /\ Leaving' /\ InSession'
      BY <1>17, <2>2 DEF HandleError, HandleProtocol, HandleLaunch, HandleInterrupt, HandleSilent
    <3>3. Truthful' /\ Receipts'
      BY <1>17, <2>2 DEF HandleError, HandleProtocol, HandleLaunch, HandleInterrupt, HandleSilent
    <3> QED BY ONLY <3>1, <3>2, <3>3 DEF IInv
  <2>3. CASE error \in {"launch", "silent"}
    <3>1. TypeOK'
      <4>1. Flags'
        BY <1>17, <2>3
           DEF HandleError, HandleProtocol, HandleLaunch, HandleInterrupt, HandleSilent, Flags
      <4> QED
        BY <1>17, <2>3, <4>1
           DEF HandleError, HandleProtocol, HandleLaunch, HandleInterrupt, HandleSilent, Flags
    <3>2. NothingYet' /\ IdentityIsSeen' /\ Marked' /\ Leaving' /\ InSession'
      BY <1>17, <2>3 DEF HandleError, HandleProtocol, HandleLaunch, HandleInterrupt, HandleSilent
    <3>3. Truthful' /\ Receipts'
      BY <1>17, <2>3 DEF HandleError, HandleProtocol, HandleLaunch, HandleInterrupt, HandleSilent
    <3> QED BY ONLY <3>1, <3>2, <3>3 DEF IInv
  <2> QED
    BY <1>17, <2>1, <2>2, <2>3
       DEF HandleError, HandleProtocol, HandleLaunch, HandleInterrupt, HandleSilent
<1>18. ASSUME NEW unread \in BOOLEAN, Fail(unread) PROVE IInv'
  <2>1. TypeOK'
    <3>1. Flags'
      BY <1>18 DEF Fail, Published, FreesLease, Flags
    <3> QED
      BY <1>18, <3>1 DEF Fail, Published, FreesLease, Flags
  <2>2. NothingYet' /\ IdentityIsSeen' /\ Marked' /\ Leaving' /\ InSession'
    BY <1>18 DEF Fail, Published, FreesLease
  <2>3. Truthful' /\ Receipts'
    BY <1>18 DEF Fail, Published, FreesLease
  <2> QED BY ONLY <2>1, <2>2, <2>3 DEF IInv
<1> QED
  BY ONLY WorkerStep, <1>1, <1>2, <1>3, <1>4, <1>5, <1>6, <1>7, <1>8, <1>9, <1>10, <1>11, <1>12,
          <1>13, <1>14, <1>15, <1>16, <1>17, <1>18
     DEF WorkerStep

LEMMA StopKeeps == ASSUME IInv, NEW c \in Callers, StopBegins(c) \/ StopStep(c) PROVE IInv'
<1> USE CallersAssumption, MaxFaultsAssumption, HandleTypes
    DEF IInv, TypeOK, NothingYet, IdentityIsSeen, Marked, Leaving, InSession, Truthful,
        Receipts, Past, Callers, Preparing, InContext, Over,
        record, handles, worker, provider
<1>1. ASSUME Terminate(c, identity), UNCHANGED <<record, handles, worker, faults>>,
             call' \in [Callers -> {"idle", "cancel", "set", "terminate", "mark",
                                    "collect", "persist", "gone"}]
      PROVE  IInv'
  <2>1. /\ child' \in {"absent", "alive", "gone"} /\ kin' \in BOOLEAN
        /\ prompted' = prompted
        /\ evidence' \in [Callers \cup {"worker"} -> {"none", "confirmed", "unconfirmed"}]
        /\ child' = "alive" => child = "alive"
        /\ child = "absent" => child' = "absent"
        /\ evidence'[c] = "confirmed" => Past /\ child' # "alive"
        /\ \A a \in Callers \cup {"worker"} : a # c => evidence'[a] = evidence[a]
    BY ONLY <1>1, IInv, TerminationIsTruthful DEF IInv, TypeOK, IdentityIsSeen
  <2>2. Flags'
    BY <1>1, <2>1 DEF Flags
  <2>3. TypeOK'
    BY <1>1, <2>1, <2>2 DEF Flags
  <2>4. NothingYet' /\ IdentityIsSeen' /\ Marked' /\ Leaving' /\ InSession'
    BY <1>1, <2>1
  <2>5. Truthful' /\ Receipts'
    BY <1>1, <2>1
  <2> QED BY ONLY <2>3, <2>4, <2>5 DEF IInv
<1>2. CASE StopBegins(c)
  BY <1>2 DEF StopBegins
<1>3. CASE StopElsewhere(c)
  BY <1>3 DEF StopElsewhere
<1>4. CASE StopCancels(c)
  BY <1>4 DEF StopCancels
<1>5. CASE StopRegisters(c)
  BY <1>5 DEF StopRegisters
<1>6. CASE StopSets(c)
  BY <1>6 DEF StopSets
<1>7. CASE StopCallback(c)
  BY <1>1, <1>7 DEF StopCallback
<1>8. CASE StopMarks(c)
  BY <1>8 DEF StopMarks
<1>9. CASE StopCollects(c)
  BY <1>1, <1>9 DEF StopCollects
<1>10. CASE StopPersists(c)
  BY <1>10 DEF StopPersists
<1> QED
  BY <1>2, <1>3, <1>4, <1>5, <1>6, <1>7, <1>8, <1>9, <1>10 DEF StopStep

LEMMA NextIInv == IInv /\ [Next]_vars => IInv'
<1> SUFFICES ASSUME IInv, [Next]_vars PROVE IInv'
  OBVIOUS
<1> USE CallersAssumption, MaxFaultsAssumption, HandleTypes
    DEF IInv, TypeOK, NothingYet, IdentityIsSeen, Marked, Leaving, InSession, Truthful,
        Receipts, Past, Callers, Preparing, InContext, Over,
        record, handles, worker, provider
<1>1. CASE ChildExits
  BY <1>1 DEF ChildExits
<1>2. CASE KinChanges
  BY <1>2 DEF KinChanges
<1>3. CASE Evict
  BY <1>3 DEF Evict
<1>4. CASE Crash
  BY <1>4 DEF Crash
<1>5. CASE UNCHANGED vars
  BY <1>5 DEF vars
<1> QED
  BY ONLY IInv, [Next]_vars, <1>1, <1>2, <1>3, <1>4, <1>5, WorkerKeeps, StopKeeps DEF Next

LEMMA Invariance == Spec => []IInv
  BY InitIInv, NextIInv, PTL DEF Spec

\* The record, the registry and the worker's memory are well-formed.
THEOREM TypeCorrect == Spec => []TypeOK
  BY Invariance, PTL DEF IInv

\* The writer lease is free only when no leader runs and the worker cannot
\* start one any more, whichever of the worker and the stops let go of it.
THEOREM FreeLeaseMeansNoLeader == Spec => []FreeMeansNoLeader
<1>1. IInv => FreeMeansNoLeader
  BY DEF IInv, Receipts, Past, FreeMeansNoLeader
<1> QED BY <1>1, Invariance, PTL

-----------------------------------------------------------------------------
(* What stays true for good.                                               *)

LEMMA PastStays == ASSUME IInv, [Next]_vars, Past, child # "alive" PROVE Past' /\ child' # "alive"
<1> USE DEF IInv, TypeOK, NothingYet, Past, Preparing, InContext, Over, LeaveContext,
            record, handles, worker, provider
<1>1. ASSUME NEW who \in Callers \cup {"worker"}, NEW id, Terminate(who, id)
      PROVE  child' # "alive"
  BY <1>1 DEF Terminate, Termination, Signalled
<1>2. CASE WorkerStep
  <2>1. pc \notin Preparing \cup {"spawn"}
    OBVIOUS
  <2>2. CASE HandleError
    BY <1>1, <2>2 DEF HandleError, HandleProtocol, HandleLaunch, HandleInterrupt, HandleSilent
  <2>3. ASSUME NEW id \in Identities, RecordPid(id) \/ RecordPidFails(id)
        PROVE  Past' /\ child' # "alive"
    BY <2>3 DEF RecordPid, RecordPidFails, Identities
  <2> QED
    BY <1>2, <2>1, <2>2, <2>3
       DEF WorkerStep, Begin, Register, FirstFence, LaunchIntent, SpawnFence, Spawn, SpawnFails,
           SpawnAbandoned, RecordFence, PrepareSession, PromptFence, ContextFails,
           IncompleteTurn, Succeed, Fail
<1>3. ASSUME NEW c \in Callers, StopBegins(c) \/ StopStep(c) PROVE Past' /\ child' # "alive"
  BY <1>1, <1>3
     DEF StopStep, StopBegins, StopElsewhere, StopCancels, StopRegisters, StopSets, StopCallback,
         StopMarks, StopCollects, StopPersists
<1>4. CASE ChildExits \/ KinChanges \/ Evict \/ Crash \/ UNCHANGED vars
  BY <1>4 DEF ChildExits, KinChanges, Evict, Crash, vars
<1> QED BY <1>2, <1>3, <1>4 DEF Next

\* A confirmed cleanup is true of the leader for good: none is alive, and
\* none comes later.
THEOREM ConfirmedIsForGood == Spec => ConfirmedMeansNoLeader
<1> DEFINE Quiet == Past /\ child # "alive"
<1>1. IInv => (receipt = "confirmed" => Quiet)
  BY DEF IInv, Receipts
<1>2. IInv /\ [Next]_vars => (Quiet => Quiet')
  BY PastStays
<1>3. Quiet => child # "alive"
  OBVIOUS
<1> HIDE DEF Quiet
<1> QED BY <1>1, <1>2, <1>3, Invariance, PTL DEF Spec, ConfirmedMeansNoLeader

LEMMA StoppedStays ==
    ASSUME IInv, [Next]_vars, status = "stopped", child = "absent", pc \notin InContext \cup {"spawn"}
    PROVE  status' = "stopped" /\ child' = "absent" /\ pc' \notin InContext \cup {"spawn"}
<1> USE DEF IInv, TypeOK, Preparing, InContext, Over, StopSeen, Published,
            record, handles, worker, provider
<1>1. ASSUME NEW who \in Callers \cup {"worker"}, NEW id, Terminate(who, id)
      PROVE  child' = "absent"
  BY <1>1 DEF Terminate, Termination, Signalled
<1>2. CASE WorkerStep
  <2>1. CASE HandleError
    BY <1>1, <2>1 DEF HandleError, HandleProtocol, HandleLaunch, HandleInterrupt, HandleSilent
  <2>2. ASSUME NEW unread \in BOOLEAN, Fail(unread)
        PROVE  status' = "stopped" /\ child' = "absent" /\ pc' \notin InContext \cup {"spawn"}
    BY <2>2 DEF Fail
  <2> QED
    BY <1>2, <2>1, <2>2
       DEF WorkerStep, Begin, Register, FirstFence, LaunchIntent, SpawnFence, Spawn, SpawnFails,
           SpawnAbandoned, RecordPid, RecordPidFails, RecordFence, PrepareSession, PromptFence,
           ContextFails, IncompleteTurn, Succeed
<1>3. ASSUME NEW c \in Callers, StopBegins(c) \/ StopStep(c)
      PROVE  status' = "stopped" /\ child' = "absent" /\ pc' \notin InContext \cup {"spawn"}
  BY <1>1, <1>3
     DEF StopStep, StopBegins, StopElsewhere, StopCancels, StopRegisters, StopSets, StopCallback,
         StopMarks, StopCollects, StopPersists
<1>4. CASE ChildExits \/ KinChanges \/ Evict \/ Crash \/ UNCHANGED vars
  BY <1>4 DEF ChildExits, KinChanges, Evict, Crash, vars
<1> QED BY <1>2, <1>3, <1>4 DEF Next

\* A stop that is durable before the worker passed its spawn fence keeps the
\* provider from ever being started, with its in-memory event or without it.
THEOREM EarlyStopHolds == Spec => StopBeforeSpawnHolds
<1> DEFINE Fenced == status = "stopped" /\ child = "absent" /\ pc \notin InContext \cup {"spawn"}
<1>1. IInv => (status = "stopped" /\ pc \in Preparing => Fenced)
  BY DEF IInv, NothingYet, Preparing, InContext
<1>2. IInv /\ [Next]_vars => (Fenced => Fenced')
  BY StoppedStays
<1>3. Fenced => child = "absent"
  OBVIOUS
<1> HIDE DEF Fenced
<1> QED BY <1>1, <1>2, <1>3, Invariance, PTL DEF Spec, StopBeforeSpawnHolds
-----------------------------------------------------------------------------
(* The result of a job whose worker stepped back.                          *)

\* Some stop call is at one of these stages.
Calling(stages) == \E c \in Callers : call[c] \in stages

\* Only a result ends the job otherwise than a stop, and a stop that ended it
\* is on the way to its result.
EndHasAResult ==
    pc # "dead" /\ receipt = "none" =>
        /\ status \in {"running", "stopped"}
        /\ status = "stopped" => Calling({"collect", "persist"})

\* While the job is open, whoever set an event has yet to mark the stop.
EventHasACaller ==
    pc # "dead" /\ status = "running" /\ (event \/ registry.set) => Calling({"terminate", "mark"})

\* A worker that is through without a result has seen one of the two.
StepsBackForAStop ==
    pc = "done" /\ receipt = "none" => status # "running" \/ event

\* A stop publishes the evidence that it gathered.
HasEvidence == \A c \in Callers : call[c] = "persist" => evidence[c] # "none"

ResultInv == EndHasAResult /\ EventHasACaller /\ StepsBackForAStop /\ HasEvidence

LEMMA ResultStep == IInv /\ ResultInv /\ [Next]_vars => ResultInv'
<1> SUFFICES ASSUME IInv, ResultInv, [Next]_vars PROVE ResultInv'
  OBVIOUS
<1>0. ASSUME NEW who \in Callers \cup {"worker"}, NEW id \in {identity, observed}, Terminate(who, id)
      PROVE  /\ evidence'[who] # "none"
             /\ \A a \in Callers \cup {"worker"} : a # who => evidence'[a] = evidence[a]
  <2>1. id \in {"none", "partial", "full"} /\ (id # "none" => observed # "none")
    BY <1>0 DEF IInv, TypeOK, IdentityIsSeen
  <2> QED BY <1>0, <2>1, TerminationIsTruthful
<1> USE CallersAssumption
    DEF IInv, TypeOK, ResultInv, EndHasAResult, EventHasACaller, StepsBackForAStop, HasEvidence,
        Calling, StopSeen, NoHandle, record, handles, worker, provider
<1>1. CASE Begin \/ Register \/ FirstFence
  BY <1>1 DEF Begin, Register, FirstFence
<1>2. CASE LaunchIntent \/ SpawnFence \/ Spawn
  BY <1>2 DEF LaunchIntent, SpawnFence, Spawn
<1>3. ASSUME NEW k, SpawnFails(k) \/ SpawnAbandoned(k) \/ ContextFails(k) PROVE ResultInv'
  BY <1>3 DEF SpawnFails, SpawnAbandoned, ContextFails, LeaveContext
<1>4. ASSUME NEW id, RecordPid(id) \/ RecordPidFails(id) PROVE ResultInv'
  BY <1>4 DEF RecordPid, RecordPidFails, LeaveContext
<1>5. CASE RecordFence \/ PrepareSession \/ PromptFence \/ IncompleteTurn
  BY <1>5 DEF RecordFence, PrepareSession, PromptFence, IncompleteTurn, LeaveContext
<1>6. CASE Succeed
  BY <1>6 DEF Succeed, Published
<1>7. CASE HandleError
  <2>1. \A c \in Callers : evidence'[c] = evidence[c]
    <3>1. \A c \in Callers : c # "worker"
      BY DEF Callers
    <3>2. \/ Terminate("worker", observed) \/ Terminate("worker", identity)
          \/ evidence' = [evidence EXCEPT !["worker"] = "confirmed"] \/ UNCHANGED evidence
      BY <1>7 DEF HandleError, HandleProtocol, HandleLaunch, HandleInterrupt, HandleSilent
    <3> QED BY <1>0, <3>1, <3>2
  <2> QED BY <1>7, <2>1 DEF HandleError
<1>8. ASSUME NEW unread, Fail(unread) PROVE ResultInv'
  BY <1>8 DEF Fail, Published
<1>9. ASSUME NEW c \in Callers, StopBegins(c) \/ StopElsewhere(c) \/ StopRegisters(c) PROVE ResultInv'
  BY <1>9 DEF StopBegins, StopElsewhere, StopRegisters
<1>10. ASSUME NEW c \in Callers, StopCancels(c) \/ StopSets(c) PROVE ResultInv'
  BY <1>10 DEF StopCancels, StopSets
<1>11. ASSUME NEW c \in Callers, StopCallback(c) PROVE ResultInv'
  <2>1. \A a \in Callers : a # c => evidence'[a] = evidence[a]
    BY <1>0, <1>11 DEF StopCallback
  <2> QED BY <1>11, <2>1 DEF StopCallback
<1>12. ASSUME NEW c \in Callers, StopMarks(c) PROVE ResultInv'
  BY <1>12 DEF StopMarks
<1>13. ASSUME NEW c \in Callers, StopCollects(c) PROVE ResultInv'
  <2>1. evidence'[c] # "none" /\ \A a \in Callers : a # c => evidence'[a] = evidence[a]
    BY <1>0, <1>13 DEF StopCollects
  <2> QED BY <1>13, <2>1 DEF StopCollects
<1>14. ASSUME NEW c \in Callers, StopPersists(c) PROVE ResultInv'
  BY <1>14 DEF StopPersists
<1>15. CASE ChildExits \/ KinChanges \/ Evict \/ Crash
  BY <1>15 DEF ChildExits, KinChanges, Evict, Crash
<1>16. CASE UNCHANGED vars
  BY <1>16 DEF vars
<1> QED
  BY ONLY [Next]_vars, <1>1, <1>2, <1>3, <1>4, <1>5, <1>6, <1>7, <1>8, <1>9, <1>10, <1>11,
     <1>12, <1>13, <1>14, <1>15, <1>16
     DEF Next, WorkerStep, StopStep

\* What keeps ResultAppears from being stuck: a worker that stepped back
\* without a result leaves a stop call that has yet to publish one, with the
\* event, the tombstone or the durable status, whichever of them it saw.
THEOREM SteppingBackLeavesACaller ==
    Spec => [](pc = "done" /\ receipt = "none"
                  => \E c \in Callers : call[c] \in {"terminate", "mark", "collect", "persist"})
<1>1. Init => ResultInv
  BY DEF Init, ResultInv, EndHasAResult, EventHasACaller, StepsBackForAStop,
              HasEvidence, NoHandle
<1>2. IInv /\ ResultInv /\ [Next]_vars => ResultInv'
  BY ResultStep
<1>3. ResultInv => (pc = "done" /\ receipt = "none"
                      => \E c \in Callers : call[c] \in {"terminate", "mark", "collect", "persist"})
  BY DEF ResultInv, EndHasAResult, EventHasACaller, StepsBackForAStop, Calling
<1> QED BY <1>1, <1>2, <1>3, Invariance, PTL DEF Spec
=============================================================================
