------------------------ MODULE AsyncSemaphoreProofs ------------------------
(***************************************************************************)
(* For every finite set of tasks and every number of permits:              *)
(* AsyncSemaphore conserves its permits and parks nobody beside a free one.*)
(***************************************************************************)
EXTENDS AsyncSemaphore, ParkBaseProofs, FiniteSetTheorems

-----------------------------------------------------------------------------
(* How the number of owners changes.                                       *)

\* Owners can be counted, before and after a step.
LEMMA OwnersFinite ==
    /\ IsFiniteSet(Owners) /\ Cardinality(Owners) \in Nat
    /\ IsFiniteSet(Owners') /\ Cardinality(Owners') \in Nat
<1>1. Owners \in SUBSET Task /\ Owners' \in SUBSET Task
  BY DEF Owners
<1>2. QED
  BY <1>1, TaskAssumption, FS_Subset, FS_CardinalityType

\* t becomes an owner, nobody else changes.
LEMMA OneMoreOwner ==
    ASSUME NEW t \in Task, phase[t] \notin Owning, phase'[t] \in Owning,
           \A u \in Task : u # t => (phase'[u] \in Owning <=> phase[u] \in Owning)
    PROVE  Cardinality(Owners') = Cardinality(Owners) + 1
<1>1. Owners' = Owners \cup {t} /\ t \notin Owners
  BY DEF Owners
<1>2. QED
  BY <1>1, OwnersFinite, FS_AddElement

\* t stops being an owner, nobody else changes.
LEMMA OneLessOwner ==
    ASSUME NEW t \in Task, phase[t] \in Owning, phase'[t] \notin Owning,
           \A u \in Task : u # t => (phase'[u] \in Owning <=> phase[u] \in Owning)
    PROVE  Cardinality(Owners') = Cardinality(Owners) - 1
<1>1. Owners' = Owners \ {t} /\ t \in Owners
  BY DEF Owners
<1>2. QED
  BY <1>1, OwnersFinite, FS_RemoveElement

\* t hands its permit to h, nobody else changes.
LEMMA OwnerSwap ==
    ASSUME NEW t \in Task, NEW h \in Task, t # h,
           phase[t] \in Owning, phase'[t] \notin Owning,
           phase[h] \notin Owning, phase'[h] \in Owning,
           \A u \in Task : u # t /\ u # h => (phase'[u] \in Owning <=> phase[u] \in Owning)
    PROVE  Cardinality(Owners') = Cardinality(Owners)
<1>1. Owners' = (Owners \ {t}) \cup {h} /\ t \in Owners /\ h \notin Owners \ {t}
  BY DEF Owners
<1>2. IsFiniteSet(Owners \ {t}) /\ Cardinality(Owners \ {t}) = Cardinality(Owners) - 1
  BY <1>1, OwnersFinite, FS_RemoveElement
<1>3. Cardinality((Owners \ {t}) \cup {h}) = Cardinality(Owners \ {t}) + 1
  BY <1>1, <1>2, FS_AddElement
<1>4. QED
  BY <1>1, <1>2, <1>3, OwnersFinite

\* Nobody gains or loses a permit.
LEMMA SameOwners ==
    ASSUME \A u \in Task : phase'[u] \in Owning <=> phase[u] \in Owning
    PROVE  Owners' = Owners
  BY DEF Owners

-----------------------------------------------------------------------------
(* Each kind of step keeps the inductive invariant.                        *)

\* Taking a free permit.
LEMMA TryNowKeepsInv ==
    ASSUME SemInv, NEW t \in Task, phase[t] \in {"idle", "armed"}, TryNow(t)
    PROVE  SemInv'
<1>. USE DEF SemInv, TypeOK, ParkTypeOK
<1>1. phase' \in [Task -> Phase] /\ phase'[t] = "holding"
      /\ \A u \in Task : u # t => phase'[u] = phase[u]
  BY DEF TryNow, Go, Phase
<1>2. QueueOK'
  BY <1>1, SameQueue DEF TryNow, OthersStay
<1>3. Cardinality(Owners') = Cardinality(Owners) + 1
  BY <1>1, OneMoreOwner DEF Owning
<1>4. PermitsConserved' /\ NoIdlePermit'
  BY <1>3, OwnersFinite DEF PermitsConserved, NoIdlePermit, TryNow
<1>5. TypeOK'
  BY <1>1 DEF TryNow
<1>6. QED
  BY <1>2, <1>4, <1>5

\* A step of one task that leaves the list, the permits and its ownership alone.
LEMMA QuietKeepsInv ==
    ASSUME SemInv, NEW t \in Task, NEW p \in Phase \ {"queued"}, Go(t, p),
           phase[t] # "queued", UNCHANGED <<waiters, count, total>>,
           stop' \in [Task -> BOOLEAN], p \in Owning <=> phase[t] \in Owning
    PROVE  SemInv'
<1>. USE DEF SemInv, TypeOK, ParkTypeOK
<1>1. phase' \in [Task -> Phase] /\ phase'[t] = p
      /\ \A u \in Task : u # t => phase'[u] = phase[u]
  BY DEF Go
<1>2. QueueOK'
  BY <1>1, SameQueue DEF OthersStay
<1>3. Owners' = Owners
  BY <1>1, SameOwners
<1>4. PermitsConserved' /\ NoIdlePermit'
  BY <1>3 DEF PermitsConserved, NoIdlePermit
<1>5. QED
  BY <1>1, <1>2, <1>4

\* Queueing up when no permit is free.
LEMMA EnqueueKeepsInv ==
    ASSUME SemInv, NEW t \in Task, phase[t] = "armed", count = 0, Go(t, "queued"),
           waiters' = Append(waiters, t), UNCHANGED <<stop, count, total>>
    PROVE  SemInv'
<1>. USE DEF SemInv, TypeOK, ParkTypeOK
<1>1. phase' \in [Task -> Phase] /\ phase'[t] = "queued"
      /\ \A u \in Task : u # t => phase'[u] = phase[u]
  BY DEF Go, Phase
<1>2. waiters' \in Seq(Task) /\ QueueOK'
  BY <1>1, PushKeepsQueue DEF OthersStay
<1>3. Owners' = Owners
  BY <1>1, SameOwners DEF Owning
<1>4. PermitsConserved' /\ NoIdlePermit'
  BY <1>3 DEF PermitsConserved, NoIdlePermit
<1>5. QED
  BY <1>1, <1>2, <1>4

\* A queued task leaves, cancelled, timed out or destroyed.
LEMMA LeaveKeepsInv ==
    ASSUME SemInv, NEW t \in Task, phase[t] = "queued", Unlink(t),
           NEW p \in {"withdrawn", "idle"}, Go(t, p), stop' \in [Task -> BOOLEAN],
           UNCHANGED <<count, total>>
    PROVE  SemInv'
<1>. USE DEF SemInv, TypeOK, ParkTypeOK
<1>1. phase' \in [Task -> Phase] /\ phase'[t] = p
      /\ \A u \in Task : u # t => phase'[u] = phase[u]
  BY DEF Phase, Go
<1>2. waiters' \in Seq(Task) /\ QueueOK'
  BY <1>1, UnlinkKeepsQueue DEF OthersStay
<1>3. waiters # <<>>
  BY DEF Unlink
<1>4. Owners' = Owners
  BY <1>1, SameOwners DEF Owning
<1>5. PermitsConserved' /\ NoIdlePermit'
  BY <1>3, <1>4 DEF PermitsConserved, NoIdlePermit
<1>6. QED
  BY <1>1, <1>2, <1>5

\* release() by an owner, or revokeGrant on behalf of a destroyed one.
LEMMA GiveBackKeepsInv ==
    ASSUME SemInv, NEW t \in Task, phase[t] \in {"holding", "revoking"},
           Give([phase EXCEPT ![t] = "idle"]),
           stop' = [stop EXCEPT ![t] = FALSE], UNCHANGED total
    PROVE  SemInv'
<1>. USE DEF SemInv, TypeOK, ParkTypeOK
<1>1. CASE waiters = <<>>
  <2>1. /\ UNCHANGED waiters /\ count' = count + 1
        /\ phase' \in [Task -> Phase] /\ phase'[t] = "idle"
        /\ \A u \in Task : u # t => phase'[u] = phase[u]
    BY <1>1 DEF Give, Phase
  <2>2. QueueOK'
    BY <2>1, SameQueue DEF OthersStay
  <2>3. Cardinality(Owners') = Cardinality(Owners) - 1
    BY <2>1, OneLessOwner DEF Owning
  <2>4. PermitsConserved' /\ NoIdlePermit'
    BY <1>1, <2>1, <2>3, OwnersFinite DEF PermitsConserved, NoIdlePermit
  <2>5. TypeOK'
    <3>1. count' \in Nat /\ waiters' \in Seq(Task)
      BY <2>1
    <3>2. stop' \in [Task -> BOOLEAN]
      OBVIOUS
    <3>3. QED
      BY <2>1, <3>1, <3>2
  <2>6. QED
    BY <2>2, <2>4, <2>5
<1>2. CASE waiters # <<>>
  <2>1. PICK h \in Task : h = Head(waiters) /\ phase[h] = "queued"
    BY <1>2, HeadIsQueued
  <2>2. /\ waiters' = Tail(waiters) /\ UNCHANGED count
        /\ phase' \in [Task -> Phase] /\ phase'[t] = "idle" /\ phase'[h] = "granted"
        /\ \A u \in Task : u # t /\ u # h => phase'[u] = phase[u]
    BY <1>2, <2>1 DEF Give, Phase
  <2>3. waiters' \in Seq(Task) /\ QueueOK'
    BY <1>2, <2>1, <2>2, PopKeepsQueue DEF OthersStay
  <2>4. Cardinality(Owners') = Cardinality(Owners)
    <3>1. t # h /\ phase[t] \in Owning /\ phase[h] \notin Owning
      BY <2>1 DEF Owning
    <3>2. phase'[t] \notin Owning /\ phase'[h] \in Owning
      BY <2>2 DEF Owning
    <3>3. \A u \in Task : u # t /\ u # h => (phase'[u] \in Owning <=> phase[u] \in Owning)
      BY <2>2, Zenon
    <3>4. QED
      BY <3>1, <3>2, <3>3, OwnerSwap, Zenon
  <2>5. PermitsConserved' /\ NoIdlePermit'
    BY <1>2, <2>2, <2>4 DEF PermitsConserved, NoIdlePermit
  <2>6. QED
    BY <2>2, <2>3, <2>5
<1>3. QED
  BY <1>1, <1>2

\* A producer's release().
LEMMA PostKeepsInv ==
    ASSUME PermitsOK, SemInv, Post
    PROVE  SemInv'
<1>. USE DEF SemInv, TypeOK, ParkTypeOK
<1>0. total' = total + 1 /\ total' \in 0..MaxTotal /\ UNCHANGED stop /\ Give(phase)
  BY DEF Post, PermitsOK
<1>1. CASE waiters = <<>>
  <2>1. UNCHANGED <<waiters, phase>> /\ count' = count + 1
    BY <1>0, <1>1 DEF Give
  <2>2. QueueOK' /\ Owners' = Owners
    BY <2>1 DEF QueueOK, Owners
  <2>3. PermitsConserved' /\ NoIdlePermit'
    BY <1>0, <1>1, <2>1, <2>2, OwnersFinite DEF PermitsConserved, NoIdlePermit
  <2>4. QED
    BY <1>0, <2>1, <2>2, <2>3
<1>2. CASE waiters # <<>>
  <2>1. PICK h \in Task : h = Head(waiters) /\ phase[h] = "queued"
    BY <1>2, HeadIsQueued
  <2>2. /\ waiters' = Tail(waiters) /\ UNCHANGED count
        /\ phase' \in [Task -> Phase] /\ phase'[h] = "granted"
        /\ \A u \in Task : u # h => phase'[u] = phase[u]
    <3>1. waiters' = Tail(waiters) /\ UNCHANGED count /\ phase' = [phase EXCEPT ![h] = "granted"]
      BY <1>0, <1>2, <2>1 DEF Give
    <3>2. QED
      BY <3>1 DEF Phase
  <2>3. waiters' \in Seq(Task) /\ QueueOK'
    BY <1>2, <2>1, <2>2, PopKeepsQueue DEF OthersStay
  <2>4. Cardinality(Owners') = Cardinality(Owners) + 1
    BY <2>1, <2>2, OneMoreOwner DEF Owning
  <2>5. PermitsConserved' /\ NoIdlePermit'
    BY <1>0, <1>2, <2>2, <2>4, OwnersFinite DEF PermitsConserved, NoIdlePermit
  <2>6. QED
    BY <1>0, <2>2, <2>3, <2>5
<1>3. QED
  BY <1>1, <1>2

\* A consumer keeps its permit.
LEMMA ConsumeKeepsInv ==
    ASSUME PermitsOK, SemInv, NEW t \in Task, Consume(t)
    PROVE  SemInv'
<1>. USE DEF SemInv, TypeOK, ParkTypeOK
<1>1. phase' \in [Task -> Phase] /\ phase'[t] = "idle" /\ stop' \in [Task -> BOOLEAN]
      /\ \A u \in Task : u # t => phase'[u] = phase[u]
  BY DEF Consume, Ends, Go, Phase
<1>2. QueueOK'
  BY <1>1, SameQueue DEF Consume, OthersStay
<1>3. Cardinality(Owners') = Cardinality(Owners) - 1
  BY <1>1, OneLessOwner DEF Consume, Owning
<1>4. PermitsConserved' /\ NoIdlePermit' /\ total' \in 0..MaxTotal
  BY <1>3, OwnersFinite DEF PermitsOK, Consume, PermitsConserved, NoIdlePermit
<1>5. QED
  BY <1>1, <1>2, <1>4 DEF Consume

-----------------------------------------------------------------------------
\* The invariant is inductive: one step per action.
LEMMA StepKeepsInv ==
    ASSUME PermitsOK, SemInv, [Next]_vars
    PROVE  SemInv'
<1>1. CASE UNCHANGED vars
  BY <1>1 DEF vars, SemInv, TypeOK, ParkTypeOK, QueueOK, PermitsConserved, NoIdlePermit, Owners
<1>2. CASE Post
  BY <1>2, PostKeepsInv
<1>3. ASSUME NEW t \in Task, Step(t)
      PROVE  SemInv'
  <2>. stop \in [Task -> BOOLEAN] /\ phase \in [Task -> Phase] /\ count \in Nat
    BY DEF SemInv, TypeOK, ParkTypeOK
  <2>1. CASE Acquire(t)
    <3>1. CASE TryNow(t)
      BY <2>1, <3>1, TryNowKeepsInv DEF Acquire
    <3>2. CASE Ends(t) /\ UNCHANGED <<waiters, count, total>>
      BY <2>1, <3>2, QuietKeepsInv DEF Acquire, Ends, Owning, Phase
    <3>3. CASE Go(t, "arming") /\ UNCHANGED <<waiters, stop, count, total>>
      BY <2>1, <3>3, QuietKeepsInv DEF Acquire, Owning, Phase
    <3>4. QED
      BY <2>1, <3>1, <3>2, <3>3 DEF Acquire
  <2>2. CASE TryAcquire(t)
    BY <2>2, TryNowKeepsInv DEF TryAcquire
  <2>3. CASE Park(t)
    BY <2>3, TryNowKeepsInv, EnqueueKeepsInv DEF Park
  <2>4. CASE CancelQueued(t)
    BY <2>4, LeaveKeepsInv DEF CancelQueued
  <2>5. CASE AbandonQueued(t)
    BY <2>5, LeaveKeepsInv DEF AbandonQueued, Ends
  <2>6. CASE Release(t)
    BY <2>6, GiveBackKeepsInv DEF Release
  <2>7. CASE Consume(t)
    BY <2>7, ConsumeKeepsInv
  <2>8. CASE RevokeGrant(t)
    BY <2>8, GiveBackKeepsInv DEF RevokeGrant
  <2>9. CASE ParkStep(t) /\ UNCHANGED <<count, total>>
    <3>1. CASE Arm(t)
      BY <2>9, <3>1, QuietKeepsInv DEF Arm, Owning, Phase
    <3>2. CASE RequestStop(t)
      BY <2>9, <3>2 DEF RequestStop, SemInv, TypeOK, ParkTypeOK, QueueOK,
                        PermitsConserved, NoIdlePermit, Owners
    <3>3. CASE CancelNote(t)
      BY <2>9, <3>3, QuietKeepsInv DEF CancelNote, Owning, Phase
    <3>4. CASE ParkCancelled(t)
      BY <2>9, <3>4, QuietKeepsInv DEF ParkCancelled, Ends, Owning, Phase
    <3>5. CASE WakeCancelled(t)
      BY <2>9, <3>5, QuietKeepsInv DEF WakeCancelled, Ends, Owning, Phase
    <3>6. CASE WakeGranted(t)
      BY <2>9, <3>6, QuietKeepsInv DEF WakeGranted, Owning, Phase
    <3>7. CASE AbandonGranted(t)
      BY <2>9, <3>7, QuietKeepsInv DEF AbandonGranted, Owning, Phase
    <3>8. QED
      BY <2>9, <3>1, <3>2, <3>3, <3>4, <3>5, <3>6, <3>7 DEF ParkStep
  <2>10. QED
    BY <1>3, <2>1, <2>2, <2>3, <2>4, <2>5, <2>6, <2>7, <2>8, <2>9 DEF Step
<1>4. QED
  BY <1>1, <1>2, <1>3 DEF Next

\* The inductive invariant of AsyncSemaphore holds in every reachable state.
THEOREM SemaphoreInvariant ==
    ASSUME PermitsOK
    PROVE  Spec => []SemInv
<1>1. Init => SemInv
  <2>. SUFFICES ASSUME Init PROVE SemInv
    OBVIOUS
  <2>1. ParkTypeOK /\ QueueOK
    BY InitQueue DEF Init
  <2>2. Owners = {}
    BY DEF Init, ParkInit, Owners, Owning
  <2>3. PermitsConserved
    BY <2>2, FS_EmptySet DEF PermitsOK, Init, PermitsConserved
  <2>4. QED
    BY <2>1, <2>3 DEF PermitsOK, Init, ParkInit, SemInv, TypeOK, NoIdlePermit
<1>2. SemInv /\ [Next]_vars => SemInv'
  BY StepKeepsInv
<1>3. QED
  BY <1>1, <1>2, PTL DEF Spec

\* acquire(), acquireFor(), tryAcquire(), release() and revokeGrant neither
\* lose nor invent a permit.
THEOREM SemaphoreConservesPermits ==
    ASSUME PermitsOK
    PROVE  Spec => []PermitsConserved
<1>1. SemInv => PermitsConserved
  BY DEF SemInv
<1>2. QED
  BY <1>1, SemaphoreInvariant, PTL

\* The second pass of park() and the hand-over in release() leave nobody
\* parked beside a free permit.
THEOREM SemaphoreParksNobodyIdly ==
    ASSUME PermitsOK
    PROVE  Spec => []NoIdlePermit
<1>1. SemInv => NoIdlePermit
  BY DEF SemInv
<1>2. QED
  BY <1>1, SemaphoreInvariant, PTL
=============================================================================
