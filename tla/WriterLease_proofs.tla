-------------------------- MODULE WriterLease_proofs --------------------------
(***************************************************************************)
(* The writer lease for any set of paths, ancestor relation and jobs.      *)
(***************************************************************************)
EXTENDS WriterLease, TLAPS

USE DEF AgeKinds, OwnerKinds, Ages, LeaseFile, Absent, Unreadable, Readable

\* Tokens come out of one counter, so none is newer than the last one issued.
TokensIssued == \A p \in Paths : leases[p].token <= issued

IInv == TypeOK /\ NoOverlap /\ TokensDistinct /\ TokensIssued

-----------------------------------------------------------------------------
\* Reconciliation leaves each path its lease or nothing at all.
LEMMA ReconciledShape ==
    ASSUME TypeOK
    PROVE  /\ Reconciled \in [Paths -> LeaseFile]
           /\ \A p \in Paths : Reconciled[p] = leases[p] \/ Reconciled[p] = Absent
  BY NoJobAssumption, MaxTokensAssumption DEF TypeOK, Reconciled

\* A lease file that only vanished, or changed neither its token nor its being
\* there, cannot break the invariant: every action but a granted acquire is of
\* this kind.
LEMMA ShrinkPreserves ==
    ASSUME IInv, issued' = issued, leases' \in [Paths -> LeaseFile],
           \A p \in Paths :
               \/ leases'[p] = Absent
               \/ leases'[p] = Unreadable /\ leases[p].kind # "none"
               \/ leases'[p].token = leases[p].token /\ leases[p].kind # "none"
                  /\ Readable(leases[p])
               \/ leases'[p] = leases[p]
    PROVE  NoOverlap' /\ TokensDistinct' /\ TokensIssued'
<1>1. NoOverlap'
  BY DEF IInv, TypeOK, NoOverlap, Overlap
<1>2. TokensDistinct'
  BY DEF IInv, TypeOK, TokensDistinct
<1>3. TokensIssued'
  BY MaxTokensAssumption DEF IInv, TypeOK, TokensIssued
<1> QED BY <1>1, <1>2, <1>3

\* A granted acquire puts the newest token on a path no other lease overlaps.
LEMMA AcquirePreserves ==
    ASSUME IInv, NEW p \in Paths, NEW kind \in OwnerKinds, NEW owner \in Jobs \cup {NoJob},
           Acquire(p, kind, owner)
    PROVE  IInv'
<1>1. /\ Reconciled \in [Paths -> LeaseFile]
      /\ \A q \in Paths : Reconciled[q] = leases[q] \/ Reconciled[q] = Absent
  BY ReconciledShape DEF IInv
<1>2. /\ issued \in Nat /\ issued < MaxTokens /\ MaxTokens \in Nat
      /\ issued' = issued + 1
      /\ leases' = [Reconciled EXCEPT ![p] =
                      [kind |-> kind, token |-> issued + 1, job |-> owner, age |-> 0]]
      /\ jobState' = jobState
  BY MaxTokensAssumption DEF Acquire, IInv, TypeOK
<1>3. [kind |-> kind, token |-> issued + 1, job |-> owner, age |-> 0] \in LeaseFile
  BY <1>2
<1>4. TypeOK'
  BY <1>1, <1>2, <1>3 DEF IInv, TypeOK
<1>5. NoOverlap'
  <2>1. \A q \in Paths : Overlap(p, q) => Reconciled[q].kind = "none"
    BY DEF Acquire, Grantable
  <2>2. \A q, r \in Paths : Overlap(q, r) => Overlap(r, q)
    BY DEF Overlap
  <2> QED BY <1>1, <1>2, <2>1, <2>2 DEF IInv, NoOverlap
<1>6. TokensIssued'
  BY <1>1, <1>2 DEF IInv, TypeOK, TokensIssued
<1>7. TokensDistinct'
  <2>1. \A q \in Paths : Reconciled[q].token <= issued
    BY <1>1, <1>2 DEF IInv, TokensIssued
  <2> QED BY <1>1, <1>2, <2>1 DEF IInv, TypeOK, TokensDistinct
<1> QED BY <1>4, <1>5, <1>6, <1>7 DEF IInv

-----------------------------------------------------------------------------
LEMMA InitIInv == Init => IInv
  BY NoJobAssumption, MaxTokensAssumption
     DEF Init, IInv, TypeOK, ExternalStates, NoOverlap, TokensDistinct, TokensIssued

LEMMA NextIInv == IInv /\ [Next]_vars => IInv'
<1> SUFFICES ASSUME IInv, [Next]_vars PROVE IInv'
  OBVIOUS
<1>0. MaxTokens \in Nat /\ NoJob \in Jobs \cup {NoJob}
  BY MaxTokensAssumption
<1>s. ASSUME leases' \in [Paths -> LeaseFile], UNCHANGED <<issued, jobState>>,
             \A p \in Paths :
               \/ leases'[p] = Absent
               \/ leases'[p] = Unreadable /\ leases[p].kind # "none"
               \/ leases'[p].token = leases[p].token /\ leases[p].kind # "none"
                  /\ Readable(leases[p])
               \/ leases'[p] = leases[p]
      PROVE  IInv'
  BY <1>s, ShrinkPreserves DEF IInv, TypeOK
<1>1. CASE Reconcile
  BY <1>1, <1>s, ReconciledShape DEF Reconcile, IInv
<1>2. ASSUME NEW p \in Paths, NEW kind \in OwnerKinds, NEW owner \in Jobs \cup {NoJob},
             Acquire(p, kind, owner)
      PROVE  IInv'
  BY <1>2, AcquirePreserves
<1>3. ASSUME NEW p \in Paths, AcquireRefused(p) PROVE IInv'
  BY <1>3, <1>s, ReconciledShape DEF AcquireRefused, IInv
<1>4. ASSUME NEW t \in 1 .. MaxTokens, NEW j \in Jobs, Attach(t, j) PROVE IInv'
  <2>1. PICK p \in Paths :
           /\ Holds(p, t)
           /\ leases' = [leases EXCEPT ![p] =
                           [kind |-> "external_job", token |-> t, job |-> j, age |-> 0]]
           /\ UNCHANGED <<issued, jobState>>
    BY <1>4 DEF Attach
  <2>2. [kind |-> "external_job", token |-> t, job |-> j, age |-> 0] \in LeaseFile
    BY <1>0
  <2> QED BY <2>1, <2>2, <1>s DEF IInv, TypeOK, Holds
<1>5. ASSUME NEW t \in 1 .. MaxTokens, Heartbeat(t) PROVE IInv'
  <2>1. PICK p \in Paths : /\ Holds(p, t)
                           /\ leases' = [leases EXCEPT ![p].age = 0]
                           /\ UNCHANGED <<issued, jobState>>
    BY <1>5 DEF Heartbeat
  <2> QED BY <2>1, <1>s DEF IInv, TypeOK, Holds
<1>6. ASSUME NEW t \in 1 .. MaxTokens, Release(t) PROVE IInv'
  <2>1. PICK p \in Paths : /\ leases' = [leases EXCEPT ![p] = Absent]
                           /\ UNCHANGED <<issued, jobState>>
    BY <1>6 DEF Release
  <2> QED BY <2>1, <1>0, <1>s DEF IInv, TypeOK
<1>7. ASSUME NEW p \in Paths, NEW cleanupAck \in BOOLEAN, Recover(p, cleanupAck) PROVE IInv'
  BY <1>7, <1>0, <1>s DEF Recover, IInv, TypeOK
<1>8. ASSUME NEW p \in Paths, GrowOlder(p) PROVE IInv'
  <2>1. leases[p].age + 1 \in Ages
    BY <1>8 DEF GrowOlder, IInv, TypeOK
  <2> QED BY <2>1, <1>8, <1>s DEF GrowOlder, IInv, TypeOK
<1>9. ASSUME NEW p \in Paths, Damage(p) PROVE IInv'
  BY <1>9, <1>0, <1>s DEF Damage, IInv, TypeOK
<1>10. CASE JobMoves
  BY <1>10 DEF JobMoves, IInv, TypeOK, NoOverlap, TokensDistinct, TokensIssued
<1>11. CASE UNCHANGED vars
  BY <1>11 DEF vars, IInv, TypeOK, NoOverlap, TokensDistinct, TokensIssued
<1> QED
  BY <1>0, <1>1, <1>2, <1>3, <1>4, <1>5, <1>6, <1>7, <1>8, <1>9, <1>10, <1>11
     DEF Next, Step

THEOREM Invariance == Spec => []IInv
  BY InitIInv, NextIInv, PTL DEF Spec

-----------------------------------------------------------------------------
\* The lease directory holds only well-formed content, for any paths and jobs.
THEOREM TypeCorrect == Spec => []TypeOK
  BY Invariance, PTL DEF IInv

\* Whatever order acquires, recoveries, late releases and damage come in, two
\* lease files never cover a common directory.
THEOREM MutualExclusion == Spec => []NoOverlap
  BY Invariance, PTL DEF IInv

\* A token names at most one lease, so no late release reaches another owner's.
THEOREM TokensNameOneLease == Spec => []TokensDistinct
  BY Invariance, PTL DEF IInv

\* An unreadable lease file stops every grant, for unrelated workspaces too.
THEOREM DamageFailsClosed == Spec => FailClosed
<1>1. IInv /\ [Next]_vars =>
        [(\E p \in Paths : leases[p].kind = "corrupt")
           => \A q \in Paths : leases[q].kind = "none" => leases'[q].kind = "none"]_vars
  <2> SUFFICES ASSUME IInv, Next, NEW p \in Paths, leases[p].kind = "corrupt",
                      NEW q \in Paths, leases[q].kind = "none"
               PROVE  leases'[q].kind = "none"
    BY DEF vars
  <2>0. Reconciled[p] = leases[p] /\ (\A r \in Paths : Reconciled[r] = leases[r] \/ Reconciled[r] = Absent)
    BY ReconciledShape DEF Reconciled, Reclaimable, IInv
  <2>1. \A r \in Paths, kind \in OwnerKinds, owner \in Jobs \cup {NoJob} : ~Acquire(r, kind, owner)
    BY <2>0 DEF Acquire, Grantable
  <2>2. ASSUME NEW t \in 1 .. MaxTokens, NEW j \in Jobs, Attach(t, j)
        PROVE  leases'[q].kind = "none"
    BY <2>2 DEF Attach, Holds, IInv, TypeOK
  <2>3. ASSUME NEW t \in 1 .. MaxTokens, Heartbeat(t) \/ Release(t)
        PROVE  leases'[q].kind = "none"
    BY <2>3 DEF Heartbeat, Release, Holds, IInv, TypeOK
  <2> QED
    BY <2>0, <2>1, <2>2, <2>3
       DEF Next, Step, Reconcile, AcquireRefused, Recover, GrowOlder, Damage,
           JobMoves, IInv, TypeOK
<1> QED BY <1>1, Invariance, PTL DEF Spec, FailClosed

\* The lease of an external job that is not durably over leaves only by its own
\* token, by acknowledged recovery or by damage: no acquire reclaims it.
THEOREM ExternalLeaseKept == Spec => ExternalNeverReclaimed
<1>1. IInv /\ [Next]_vars =>
        [\A p \in Paths :
           /\ leases[p].kind = "external_job"
           /\ ExternalJobState(leases[p]) # "terminal"
           => \/ Readable(leases'[p]) /\ leases'[p].token = leases[p].token
              \/ leases'[p].kind = "corrupt"
              \/ Release(leases[p].token)
              \/ Recover(p, TRUE)]_vars
  <2> SUFFICES ASSUME IInv, Next, NEW p \in Paths, leases[p].kind = "external_job",
                      ExternalJobState(leases[p]) # "terminal",
                      ~(Readable(leases'[p]) /\ leases'[p].token = leases[p].token),
                      leases'[p].kind # "corrupt"
               PROVE  Release(leases[p].token) \/ Recover(p, TRUE)
    BY DEF vars
  <2>0. Reconciled[p] = leases[p] /\ Reconciled \in [Paths -> LeaseFile]
    BY ReconciledShape DEF Reconciled, Reclaimable, IInv
  <2>1. ~Reconcile /\ ~JobMoves /\ \A r \in Paths : ~AcquireRefused(r)
    BY <2>0 DEF Reconcile, JobMoves, AcquireRefused
  <2>2. \A r \in Paths, kind \in OwnerKinds, owner \in Jobs \cup {NoJob} : ~Acquire(r, kind, owner)
    <3> SUFFICES ASSUME NEW r \in Paths, NEW kind \in OwnerKinds,
                        NEW owner \in Jobs \cup {NoJob}, Acquire(r, kind, owner)
                 PROVE  FALSE
      OBVIOUS
    <3>1. r # p
      BY <2>0 DEF Acquire, Grantable, Overlap
    <3> QED BY <3>1, <2>0 DEF Acquire
  <2>3. ASSUME NEW t \in 1 .. MaxTokens, NEW j \in Jobs PROVE ~Attach(t, j)
    BY DEF Attach, Holds, IInv, TypeOK
  <2>4. ASSUME NEW t \in 1 .. MaxTokens PROVE ~Heartbeat(t)
    BY DEF Heartbeat, Holds, IInv, TypeOK
  <2>5. ASSUME NEW r \in Paths PROVE ~GrowOlder(r) /\ ~Damage(r)
    BY DEF GrowOlder, Damage, IInv, TypeOK
  <2>6. ASSUME NEW t \in 1 .. MaxTokens, Release(t) PROVE Release(leases[p].token)
    BY <2>6 DEF Release, Holds, IInv, TypeOK
  <2>7. ASSUME NEW r \in Paths, NEW cleanupAck \in BOOLEAN, Recover(r, cleanupAck)
        PROVE  Recover(p, TRUE)
    BY <2>7 DEF Recover, Recoverable, IInv, TypeOK
  <2> QED
    BY <2>1, <2>2, <2>3, <2>4, <2>5, <2>6, <2>7 DEF Next, Step
<1> QED BY <1>1, Invariance, PTL DEF Spec, ExternalNeverReclaimed
=============================================================================
