----------------------------- MODULE AsyncMutex -----------------------------
(***************************************************************************)
(* AsyncMutex (Yarn/includes/AsyncSync.h, Yarn/src/AsyncSync.cpp).         *)
(*                                                                         *)
(* The lock is handed from the releasing task straight to the head of the  *)
(* wait list: `held' stays true over the hand-off, and the grant travels   *)
(* with the scheduled resumption until the waiter runs or, if its frame is *)
(* destroyed first, until revokeGrant passes it on.                        *)
(***************************************************************************)
EXTENDS ParkBase

CONSTANT None       \* stands for "no owner" in the refinement of FifoLock

ASSUME NoneAssumption == None \notin Task

VARIABLE held       \* AsyncMutex::held

vars == <<phase, waiters, stop, held>>

Init == ParkInit /\ held = FALSE

Owning == {"granted", "holding", "revoking"}
Owns(t) == phase[t] \in Owning

\* A version of release_one that serves the newest waiter.
ReleaseLast(t) ==
    IF waiters = <<>>
    THEN /\ held' = FALSE
         /\ Go(t, "idle")
         /\ UNCHANGED waiters
    ELSE /\ waiters' = SubSeq(waiters, 1, Len(waiters) - 1)
         /\ phase' = [phase EXCEPT ![t] = "idle", ![waiters[Len(waiters)]] = "granted"]
         /\ UNCHANGED held

\* release_one on behalf of t: free the lock, or hand it to the oldest waiter.
ReleaseOne(t) ==
    IF waiters = <<>>
    THEN /\ held' = FALSE
         /\ Go(t, "idle")
         /\ UNCHANGED waiters
    ELSE /\ waiters' = Tail(waiters)
         /\ phase' = [phase EXCEPT ![t] = "idle", ![Head(waiters)] = "granted"]
         /\ UNCHANGED held

\* A tryNow that does not look whether the lock is free.
TryBlind(t) ==
    /\ held' = TRUE
    /\ Go(t, "holding")
    /\ UNCHANGED <<waiters, stop>>

\* MutexLockAwaiter::tryNow
TryNow(t) ==
    /\ ~held
    /\ held' = TRUE
    /\ Go(t, "holding")
    /\ UNCHANGED <<waiters, stop>>

\* lock(), first pass of park(): take a free lock, give up if cancelled
\* already, or go and arm the hook.
Lock(t) ==
    /\ phase[t] = "idle"
    /\ \/ TryNow(t)
       \/ held /\ stop[t] /\ Ends(t) /\ UNCHANGED <<waiters, held>>
       \/ held /\ ~stop[t] /\ Go(t, "arming") /\ UNCHANGED <<waiters, stop, held>>

\* tryLock()
TryLock(t) ==
    /\ phase[t] = "idle"
    /\ TryNow(t)

\* Second pass of park(): the lock may have been freed while the hook was armed.
Park(t) ==
    /\ phase[t] = "armed"
    /\ \/ TryNow(t)
       \/ /\ held
          /\ Go(t, "queued")
          /\ waiters' = Append(waiters, t)
          /\ UNCHANGED <<stop, held>>

\* A cancelThunk that leaves the cancelled waiter in the list.
CancelLeavesNode(t) ==
    /\ phase[t] = "queued"
    /\ stop[t]
    /\ Go(t, "withdrawn")
    /\ UNCHANGED <<waiters, stop, held>>

\* cancelThunk of a queued task.
CancelQueued(t) ==
    /\ phase[t] = "queued"
    /\ stop[t]
    /\ Unlink(t)
    /\ Go(t, "withdrawn")
    /\ UNCHANGED <<stop, held>>

\* The frame of a queued task is destroyed.
AbandonQueued(t) ==
    /\ phase[t] = "queued"
    /\ Unlink(t)
    /\ Ends(t)
    /\ UNCHANGED held

\* AsyncMutexGuard::unlock and its destructor
Unlock(t) ==
    /\ phase[t] = "holding"
    /\ ReleaseOne(t)
    /\ stop' = [stop EXCEPT ![t] = FALSE]

\* MutexLockAwaiter::revokeGrant
RevokeGrant(t) ==
    /\ phase[t] = "revoking"
    /\ ReleaseOne(t)
    /\ stop' = [stop EXCEPT ![t] = FALSE]

Step(t) ==
    \/ Lock(t) \/ TryLock(t) \/ Park(t) \/ CancelQueued(t) \/ AbandonQueued(t)
    \/ Unlock(t) \/ RevokeGrant(t)
    \/ ParkStep(t) /\ UNCHANGED held

Next == \E t \in Task : Step(t)

Spec == Init /\ [][Next]_vars

\* Every thread takes its next step, the pool runs what is scheduled, a
\* requested cancellation runs its hook, a destroying thread finishes.
Progress(t) ==
    \/ Park(t) \/ CancelQueued(t) \/ RevokeGrant(t)
    \/ ParkProgress(t) /\ UNCHANGED held

Fairness == \A t \in Task : WF_vars(Progress(t))
-----------------------------------------------------------------------------
\* Types of the park protocol's state and of `held'.
TypeOK == ParkTypeOK /\ held \in BOOLEAN

(***************************************************************************)
(* Mutual exclusion, counting a grant on its way to its waiter and a grant *)
(* being revoked as ownership: there is never a second owner, whatever     *)
(* release, cancellation and frame destruction do to each other.           *)
(***************************************************************************)
MutualExclusion == \A t, u \in Task : Owns(t) /\ Owns(u) => t = u

(***************************************************************************)
(* `held' is true exactly while someone owns the lock: no release, no      *)
(* cancelled or destroyed waiter ever leaves it locked for good.           *)
(***************************************************************************)
NoLostGrant == held <=> \E t \in Task : Owns(t)

(***************************************************************************)
(* Nobody stays parked on a free lock (the second pass re-checks), so a    *)
(* fast-path lock() or tryLock() never overtakes a queued waiter.          *)
(***************************************************************************)
NoIdleQueue == waiters # <<>> => held

\* The inductive invariant behind the three.
MutexInv == TypeOK /\ QueueOK /\ MutualExclusion /\ NoLostGrant /\ NoIdleQueue

(***************************************************************************)
(* AsyncMutex implements the FIFO lock: its owner is the task that owns    *)
(* the grant, its line is the wait list.                                   *)
(***************************************************************************)
Owner == IF \E t \in Task : Owns(t) THEN CHOOSE t \in Task : Owns(t) ELSE None
Fifo == INSTANCE FifoLock WITH owner <- Owner, line <- waiters
ImplementsFifoLock == Fifo!Spec

(***************************************************************************)
(* Cancellation needs no help from the owner: a task whose scope is        *)
(* cancelled anywhere inside lock() leaves it even if the lock is never    *)
(* released.                                                               *)
(***************************************************************************)
Inside(t) == phase[t] \in {"arming", "armed", "noted", "queued", "granted", "withdrawn"}
=============================================================================
