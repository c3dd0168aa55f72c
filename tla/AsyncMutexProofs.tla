-------------------------- MODULE AsyncMutexProofs --------------------------
(***************************************************************************)
(* For every set of tasks: AsyncMutex keeps mutual exclusion, loses no     *)
(* grant, parks nobody on a free lock, and implements FifoLock.            *)
(***************************************************************************)
EXTENDS AsyncMutex, ParkBaseProofs

-----------------------------------------------------------------------------
(* Each kind of step keeps the inductive invariant.                        *)

\* Taking a free lock.
LEMMA TryNowKeepsInv ==
    ASSUME MutexInv, NEW t \in Task, phase[t] \in {"idle", "armed"}, TryNow(t)
    PROVE  MutexInv'
<1>1. TypeOK'
  BY DEF MutexInv, TypeOK, ParkTypeOK, Phase, TryNow, Go
<1>2. QueueOK'
  BY SameQueue DEF MutexInv, TypeOK, ParkTypeOK, TryNow, Go, OthersStay
<1>3. MutualExclusion' /\ NoLostGrant' /\ NoIdleQueue'
  BY DEF MutexInv, TypeOK, ParkTypeOK, TryNow, Go, MutualExclusion, NoLostGrant,
         NoIdleQueue, Owns, Owning
<1>4. QED
  BY <1>1, <1>2, <1>3 DEF MutexInv

\* release_one, by a guard or on behalf of a destroyed frame.
LEMMA ReleaseKeepsInv ==
    ASSUME MutexInv, NEW t \in Task, phase[t] \in {"holding", "revoking"},
           ReleaseOne(t), stop' = [stop EXCEPT ![t] = FALSE]
    PROVE  MutexInv'
<1>. USE DEF MutexInv, TypeOK, ParkTypeOK
<1>1. CASE waiters = <<>>
  <2>1. held' = FALSE /\ Go(t, "idle") /\ UNCHANGED waiters
    BY <1>1 DEF ReleaseOne
  <2>2. TypeOK'
    BY <2>1 DEF Phase, Go
  <2>3. QueueOK'
    BY <2>1, SameQueue DEF Go, OthersStay
  <2>4. MutualExclusion' /\ NoLostGrant' /\ NoIdleQueue'
    BY <1>1, <2>1 DEF Go, MutualExclusion, NoLostGrant, NoIdleQueue, Owns, Owning
  <2>5. QED
    BY <2>2, <2>3, <2>4
<1>2. CASE waiters # <<>>
  <2>. DEFINE h == Head(waiters)
  <2>1. /\ waiters' = Tail(waiters)
        /\ phase' = [phase EXCEPT ![t] = "idle", ![h] = "granted"]
        /\ UNCHANGED held
    BY <1>2 DEF ReleaseOne
  <2>2. h \in Task /\ phase[h] = "queued" /\ h # t
    BY <1>2, HeadIsQueued
  <2>. HIDE DEF h
  <2>3. /\ phase' \in [Task -> Phase]
        /\ phase'[t] = "idle" /\ phase'[h] = "granted"
        /\ \A u \in Task : u # t /\ u # h => phase'[u] = phase[u]
    BY <2>1, <2>2 DEF Phase
  <2>4. waiters' \in Seq(Task) /\ QueueOK'
    BY <1>2, <2>1, <2>2, <2>3, PopKeepsQueue DEF OthersStay, h
  <2>5. TypeOK'
    BY <2>1, <2>3, <2>4
  <2>6. MutualExclusion' /\ NoLostGrant' /\ NoIdleQueue'
    BY <2>1, <2>2, <2>3 DEF MutualExclusion, NoLostGrant, NoIdleQueue, Owns, Owning
  <2>7. QED
    BY <2>4, <2>5, <2>6
<1>3. QED
  BY <1>1, <1>2

\* A queued task leaves the list, cancelled or destroyed.
LEMMA LeaveKeepsInv ==
    ASSUME MutexInv, NEW t \in Task, phase[t] = "queued", Unlink(t), UNCHANGED held,
           NEW p \in {"withdrawn", "idle"}, Go(t, p), stop' \in [Task -> BOOLEAN]
    PROVE  MutexInv'
<1>. USE DEF MutexInv, TypeOK, ParkTypeOK
<1>1. phase' \in [Task -> Phase] /\ phase'[t] = p
      /\ \A u \in Task : u # t => phase'[u] = phase[u]
  BY DEF Phase, Go
<1>2. waiters' \in Seq(Task) /\ QueueOK'
  BY <1>1, UnlinkKeepsQueue DEF OthersStay
<1>3. waiters # <<>>
  BY DEF Unlink
<1>4. MutualExclusion' /\ NoLostGrant' /\ NoIdleQueue'
  BY <1>1, <1>3 DEF MutualExclusion, NoLostGrant, NoIdleQueue, Owns, Owning
<1>5. QED
  BY <1>1, <1>2, <1>4

\* A step that changes the phase of t and neither the list, nor the lock,
\* nor whether t owns it.
LEMMA QuietKeepsInv ==
    ASSUME MutexInv, NEW t \in Task, NEW p \in Phase \ {"queued"}, Go(t, p),
           phase[t] # "queued", UNCHANGED <<waiters, held>>,
           stop' \in [Task -> BOOLEAN], p \in Owning <=> Owns(t)
    PROVE  MutexInv'
<1>. USE DEF MutexInv, TypeOK, ParkTypeOK
<1>1. phase' \in [Task -> Phase] /\ phase'[t] = p
      /\ \A u \in Task : u # t => phase'[u] = phase[u]
  BY DEF Go
<1>2. QueueOK'
  BY <1>1, SameQueue DEF OthersStay
<1>3. MutualExclusion' /\ NoLostGrant' /\ NoIdleQueue'
  BY <1>1 DEF MutualExclusion, NoLostGrant, NoIdleQueue, Owns
<1>4. QED
  BY <1>1, <1>2, <1>3

\* Joining the list of a lock that is held.
LEMMA EnqueueKeepsInv ==
    ASSUME MutexInv, NEW t \in Task, phase[t] = "armed", held, Go(t, "queued"),
           waiters' = Append(waiters, t), UNCHANGED <<stop, held>>
    PROVE  MutexInv'
<1>. USE DEF MutexInv, TypeOK, ParkTypeOK
<1>1. phase' \in [Task -> Phase] /\ phase'[t] = "queued"
      /\ \A u \in Task : u # t => phase'[u] = phase[u]
  BY DEF Go, Phase
<1>2. waiters' \in Seq(Task) /\ QueueOK'
  BY <1>1, PushKeepsQueue DEF OthersStay
<1>3. MutualExclusion' /\ NoLostGrant' /\ NoIdleQueue'
  BY <1>1 DEF MutualExclusion, NoLostGrant, NoIdleQueue, Owns, Owning
<1>4. QED
  BY <1>1, <1>2, <1>3

-----------------------------------------------------------------------------
\* The invariant is inductive: one step per action.
LEMMA StepKeepsInv ==
    ASSUME MutexInv, [Next]_vars
    PROVE  MutexInv'
<1>1. CASE UNCHANGED vars
  BY <1>1 DEF vars, MutexInv, TypeOK, ParkTypeOK, QueueOK, MutualExclusion,
              NoLostGrant, NoIdleQueue, Owns
<1>2. ASSUME NEW t \in Task, Step(t)
      PROVE  MutexInv'
  <2>. stop \in [Task -> BOOLEAN] /\ phase \in [Task -> Phase]
    BY DEF MutexInv, TypeOK, ParkTypeOK
  <2>1. CASE Lock(t)
    <3>1. CASE TryNow(t)
      BY <2>1, <3>1, TryNowKeepsInv DEF Lock
    <3>2. CASE held /\ stop[t] /\ Ends(t) /\ UNCHANGED <<waiters, held>>
      BY <2>1, <3>2, QuietKeepsInv DEF Lock, Ends, Owns, Owning, Phase
    <3>3. CASE held /\ ~stop[t] /\ Go(t, "arming") /\ UNCHANGED <<waiters, stop, held>>
      BY <2>1, <3>3, QuietKeepsInv DEF Lock, Owns, Owning, Phase
    <3>4. QED
      BY <2>1, <3>1, <3>2, <3>3 DEF Lock
  <2>2. CASE TryLock(t)
    BY <2>2, TryNowKeepsInv DEF TryLock
  <2>3. CASE Park(t)
    BY <2>3, TryNowKeepsInv, EnqueueKeepsInv DEF Park
  <2>4. CASE CancelQueued(t)
    BY <2>4, LeaveKeepsInv DEF CancelQueued
  <2>5. CASE AbandonQueued(t)
    BY <2>5, LeaveKeepsInv DEF AbandonQueued, Ends
  <2>6. CASE Unlock(t)
    BY <2>6, ReleaseKeepsInv DEF Unlock
  <2>7. CASE RevokeGrant(t)
    BY <2>7, ReleaseKeepsInv DEF RevokeGrant
  <2>8. CASE ParkStep(t) /\ UNCHANGED held
    <3>1. CASE Arm(t)
      BY <2>8, <3>1, QuietKeepsInv DEF Arm, Owns, Owning, Phase
    <3>2. CASE RequestStop(t)
      BY <2>8, <3>2 DEF RequestStop, MutexInv, TypeOK, ParkTypeOK, QueueOK,
                        MutualExclusion, NoLostGrant, NoIdleQueue, Owns
    <3>3. CASE CancelNote(t)
      BY <2>8, <3>3, QuietKeepsInv DEF CancelNote, Owns, Owning, Phase
    <3>4. CASE ParkCancelled(t)
      BY <2>8, <3>4, QuietKeepsInv DEF ParkCancelled, Ends, Owns, Owning, Phase
    <3>5. CASE WakeCancelled(t)
      BY <2>8, <3>5, QuietKeepsInv DEF WakeCancelled, Ends, Owns, Owning, Phase
    <3>6. CASE WakeGranted(t)
      BY <2>8, <3>6, QuietKeepsInv DEF WakeGranted, Owns, Owning, Phase
    <3>7. CASE AbandonGranted(t)
      BY <2>8, <3>7, QuietKeepsInv DEF AbandonGranted, Owns, Owning, Phase
    <3>8. QED
      BY <2>8, <3>1, <3>2, <3>3, <3>4, <3>5, <3>6, <3>7 DEF ParkStep
  <2>9. QED
    BY <1>2, <2>1, <2>2, <2>3, <2>4, <2>5, <2>6, <2>7, <2>8 DEF Step
<1>3. QED
  BY <1>1, <1>2 DEF Next

\* The inductive invariant of AsyncMutex holds in every reachable state.
THEOREM MutexInvariant == Spec => []MutexInv
<1>1. Init => MutexInv
  BY InitQueue DEF Init, MutexInv, TypeOK, ParkInit,
                   MutualExclusion, NoLostGrant, NoIdleQueue, Owns, Owning
<1>2. MutexInv /\ [Next]_vars => MutexInv'
  BY StepKeepsInv
<1>3. QED
  BY <1>1, <1>2, PTL DEF Spec

\* lock(), tryLock(), the hand-off in release_one and revokeGrant never
\* produce two owners.
THEOREM MutexIsExclusive == Spec => []MutualExclusion
<1>1. MutexInv => MutualExclusion
  BY DEF MutexInv
<1>2. QED
  BY <1>1, MutexInvariant, PTL

\* No hand-off to a cancelled or destroyed waiter loses the lock.
THEOREM MutexLosesNoGrant == Spec => []NoLostGrant
<1>1. MutexInv => NoLostGrant
  BY DEF MutexInv
<1>2. QED
  BY <1>1, MutexInvariant, PTL

-----------------------------------------------------------------------------
(* The refinement of FifoLock.                                             *)

\* Owner is the one task that owns the lock, if any.
OwnerOK ==
    /\ \A t \in Task : Owns(t) => Owner = t
    /\ held <=> Owner # None

\* The invariant makes it so.
LEMMA OwnerIsUnique == MutexInv => OwnerOK
<1>. SUFFICES ASSUME MutexInv PROVE OwnerOK
  OBVIOUS
<1>1. MutualExclusion /\ NoLostGrant
  BY DEF MutexInv
<1>2. ASSUME NEW t \in Task, Owns(t)
      PROVE  Owner = t
  <2>1. Owner = CHOOSE u \in Task : Owns(u)
    BY <1>2 DEF Owner
  <2>2. Owner \in Task /\ Owns(Owner)
    BY <1>2, <2>1
  <2>3. QED
    BY <1>1, <1>2, <2>2 DEF MutualExclusion
<1>3. (\A t \in Task : ~Owns(t)) => Owner = None
  BY DEF Owner
<1>4. QED
  BY <1>1, <1>2, <1>3, NoneAssumption DEF NoLostGrant, OwnerOK

\* A step after which the same tasks own the lock leaves Owner alone.
LEMMA SameOwner ==
    ASSUME \A t \in Task : (Owns(t) <=> Owns(t)')
    PROVE  Owner' = Owner
<1>1. CASE \A t \in Task : ~Owns(t)
  BY <1>1 DEF Owner
<1>2. CASE \E t \in Task : Owns(t)
  <2>1. Owner = CHOOSE t \in Task : Owns(t)
    BY <1>2 DEF Owner
  <2>2. Owner' = CHOOSE t \in Task : Owns(t)'
    BY <1>2 DEF Owner
  <2>3. (CHOOSE t \in Task : Owns(t)) = (CHOOSE t \in Task : Owns(t)')
    OBVIOUS
  <2>4. QED
    BY <2>1, <2>2, <2>3
<1>3. QED
  BY <1>1, <1>2

\* Taking the free lock is Acquire.
LEMMA TryNowIsAcquire ==
    ASSUME MutexInv, OwnerOK, OwnerOK', NEW t \in Task, TryNow(t)
    PROVE  Fifo!Acquire(t)
<1>1. Owner = None
  BY DEF OwnerOK, TryNow
<1>2. waiters = <<>>
  BY DEF MutexInv, NoIdleQueue, TryNow
<1>3. Owns(t)'
  BY DEF Owns, Owning, TryNow, Go, MutexInv, TypeOK, ParkTypeOK
<1>4. Owner' = t
  BY <1>3 DEF OwnerOK
<1>5. QED
  BY <1>1, <1>2, <1>4 DEF Fifo!Acquire, TryNow

\* release_one is Release, or HandOver to the head of the line.
LEMMA ReleaseOneIsRelease ==
    ASSUME MutexInv, OwnerOK, OwnerOK', NEW t \in Task,
           phase[t] \in {"holding", "revoking"}, ReleaseOne(t)
    PROVE  Fifo!Release \/ Fifo!HandOver
<1>. USE DEF MutexInv, TypeOK, ParkTypeOK
<1>1. Owner # None
  BY NoneAssumption DEF OwnerOK, Owns, Owning
<1>2. CASE waiters = <<>>
  BY <1>1, <1>2 DEF ReleaseOne, OwnerOK, Fifo!Release
<1>3. CASE waiters # <<>>
  <2>1. PICK h \in Task : h = Head(waiters)
    BY <1>3, HeadIsQueued
  <2>2. Owns(h)'
    BY <1>3, <2>1 DEF ReleaseOne, Owns, Owning
  <2>3. Owner' = Head(waiters)
    BY <2>1, <2>2 DEF OwnerOK
  <2>4. QED
    BY <1>1, <1>3, <2>3 DEF ReleaseOne, Fifo!HandOver
<1>4. QED
  BY <1>2, <1>3

\* A step of one task that changes neither the list nor whether it owns the
\* lock is a stutter of FifoLock.
LEMMA QuietIsStutter ==
    ASSUME MutexInv, NEW t \in Task, NEW p \in Phase, Go(t, p), UNCHANGED waiters,
           p \in Owning <=> Owns(t)
    PROVE  UNCHANGED <<Owner, waiters>>
<1>1. \A u \in Task : Owns(u) <=> Owns(u)'
  BY DEF MutexInv, TypeOK, ParkTypeOK, Go, Owns
<1>2. QED
  BY <1>1, SameOwner

\* Every step of AsyncMutex is a step of FifoLock or a stutter.
LEMMA StepImplementsFifo ==
    ASSUME MutexInv, OwnerOK, OwnerOK', [Next]_vars
    PROVE  [Fifo!Next]_<<Owner, waiters>>
<1>1. CASE UNCHANGED vars
  <2>1. \A u \in Task : Owns(u) <=> Owns(u)'
    BY <1>1 DEF vars, Owns
  <2>2. QED
    BY <1>1, <2>1, SameOwner DEF vars
<1>2. ASSUME NEW t \in Task, Step(t)
      PROVE  [Fifo!Next]_<<Owner, waiters>>
  <2>. phase \in [Task -> Phase]
    BY DEF MutexInv, TypeOK, ParkTypeOK
  <2>1. CASE TryNow(t)
    BY <2>1, TryNowIsAcquire DEF Fifo!Next
  <2>2. CASE Lock(t)
    <3>1. CASE Go(t, "idle") /\ UNCHANGED waiters
      BY <2>2, <3>1, QuietIsStutter DEF Lock, Owns, Owning, Phase
    <3>2. CASE Go(t, "arming") /\ UNCHANGED waiters
      BY <2>2, <3>2, QuietIsStutter DEF Lock, Owns, Owning, Phase
    <3>3. QED
      BY <2>1, <2>2, <3>1, <3>2 DEF Lock, Ends
  <2>3. CASE TryLock(t)
    BY <2>1, <2>3 DEF TryLock
  <2>4. CASE Park(t)
    <3>1. CASE held /\ Go(t, "queued") /\ waiters' = Append(waiters, t)
      <4>1. \A u \in Task : Owns(u) <=> Owns(u)'
        BY <2>4, <3>1 DEF Park, Go, Owns, Owning
      <4>2. Owner' = Owner /\ Owner # None
        BY <3>1, <4>1, SameOwner DEF OwnerOK
      <4>3. \A i \in DOMAIN waiters : waiters[i] # t
        BY <2>4 DEF Park, MutexInv, QueueOK
      <4>4. Fifo!Join(t)
        BY <3>1, <4>2, <4>3 DEF Fifo!Join
      <4>5. QED
        BY <4>4 DEF Fifo!Next
    <3>2. QED
      BY <2>1, <2>4, <3>1 DEF Park
  <2>5. CASE CancelQueued(t) \/ AbandonQueued(t)
    <3>1. \A u \in Task : Owns(u) <=> Owns(u)'
      BY <2>5 DEF CancelQueued, AbandonQueued, Ends, Go, Owns, Owning
    <3>2. Owner' = Owner
      BY <3>1, SameOwner
    <3>3. Fifo!Leave
      BY <2>5, <3>2 DEF CancelQueued, AbandonQueued, Unlink, RemoveAt,
                         Fifo!Leave
    <3>4. QED
      BY <3>3 DEF Fifo!Next
  <2>6. CASE Unlock(t) \/ RevokeGrant(t)
    BY <2>6, ReleaseOneIsRelease DEF Unlock, RevokeGrant, Fifo!Next
  <2>7. CASE ParkStep(t)
    <3>1. CASE RequestStop(t)
      <4>1. \A u \in Task : Owns(u) <=> Owns(u)'
        BY <3>1 DEF RequestStop, Owns
      <4>2. QED
        BY <3>1, <4>1, SameOwner DEF RequestStop
    <3>2. CASE Arm(t)
      BY <3>2, QuietIsStutter DEF Arm, Owns, Owning, Phase
    <3>3. CASE CancelNote(t)
      BY <3>3, QuietIsStutter DEF CancelNote, Owns, Owning, Phase
    <3>4. CASE ParkCancelled(t)
      BY <3>4, QuietIsStutter DEF ParkCancelled, Ends, Owns, Owning, Phase
    <3>5. CASE WakeCancelled(t)
      BY <3>5, QuietIsStutter DEF WakeCancelled, Ends, Owns, Owning, Phase
    <3>6. CASE WakeGranted(t)
      BY <3>6, QuietIsStutter DEF WakeGranted, Owns, Owning, Phase
    <3>7. CASE AbandonGranted(t)
      BY <3>7, QuietIsStutter DEF AbandonGranted, Owns, Owning, Phase
    <3>8. QED
      BY <2>7, <3>1, <3>2, <3>3, <3>4, <3>5, <3>6, <3>7 DEF ParkStep
  <2>8. QED
    BY <1>2, <2>2, <2>3, <2>4, <2>5, <2>6, <2>7 DEF Step
<1>3. QED
  BY <1>1, <1>2 DEF Next

\* AsyncMutex implements the FIFO lock: one owner at a time, served strictly
\* in order of arrival, whatever is cancelled or destroyed on the way.
THEOREM MutexImplementsFifoLock == Spec => ImplementsFifoLock
<1>1. Init => Fifo!Init
  BY DEF Init, ParkInit, Fifo!Init, Owner, Owns, Owning
<1>2. MutexInv /\ OwnerOK /\ OwnerOK' /\ [Next]_vars => [Fifo!Next]_<<Owner, waiters>>
  BY StepImplementsFifo
<1>3. QED
  BY <1>1, <1>2, MutexInvariant, OwnerIsUnique, PTL DEF Spec, ImplementsFifoLock, Fifo!Spec
=============================================================================
