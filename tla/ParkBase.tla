------------------------------ MODULE ParkBase ------------------------------
(***************************************************************************)
(* The park protocol that every awaiter of Yarn's async primitives shares  *)
(* (detail::ParkBase in Yarn/includes/AsyncSync.h, with the CancelBinding  *)
(* and WaitProxy of Yarn/includes/Cancellation.h).                         *)
(*                                                                         *)
(* A task that calls an awaiting operation runs park(): a first pass under *)
(* the primitive's mutex, the arming of its cancellation hook outside it,  *)
(* and a second pass under the mutex that takes the resource or queues.    *)
(* A cancellation request runs the armed hook (cancelThunk) on any thread. *)
(* A queued task leaves the queue by a grant, by its own cancellation, or  *)
(* because its frame is destroyed (abandon).  A grant or a cancellation    *)
(* only schedules the resumption: the pool performs it later, and the      *)
(* frame may be destroyed before it does.                                  *)
(*                                                                         *)
(* This module holds the state of that protocol and the steps that are the *)
(* same for every primitive; AsyncMutex, AsyncSemaphore, ... extend it and *)
(* add their own tryNow, fixupLocked, revokeGrant and release.  Every      *)
(* awaiter of those primitives is awaited by a Task<> of the library, so   *)
(* the awaiting promise always has a cancel core (`core' is never null)    *)
(* and park() always takes its two passes.                                 *)
(***************************************************************************)
EXTENDS Naturals, Sequences, FiniteSets

CONSTANT Task       \* the coroutines that use the primitive

ASSUME TaskAssumption == IsFiniteSet(Task)

VARIABLES
    phase,          \* where each task stands in the protocol
    waiters,        \* WaitList: the queued tasks, oldest first
    stop            \* has cancellation of the task's scope been requested?

parkVars == <<phase, waiters, stop>>

(***************************************************************************)
(*  idle       outside the primitive                                       *)
(*  arming     first pass done, hook not armed yet; the mutex is free      *)
(*  armed      hook armed, second pass still to come                       *)
(*  noted      as armed, and the hook has fired: earlyCancel is set        *)
(*  queued     parked in the wait list                                     *)
(*  granted    popped by a grant, resumption scheduled, not yet performed  *)
(*  withdrawn  removed by cancelThunk, resumption scheduled                *)
(*  holding    resumed with the resource (or got it without parking)       *)
(*  revoking   frame destroyed after the grant and before its resumption:  *)
(*             the destroying thread is about to call revokeGrant          *)
(***************************************************************************)
Phase == {"idle", "arming", "armed", "noted", "queued",
          "granted", "withdrawn", "holding", "revoking"}

ParkInit ==
    /\ phase = [t \in Task |-> "idle"]
    /\ waiters = <<>>
    /\ stop = [t \in Task |-> FALSE]

Go(t, p) == phase' = [phase EXCEPT ![t] = p]

\* The call of t is over: it returned, threw or its frame is gone.  Its
\* cancellation scope goes with it; the next call runs in a scope of its own.
Ends(t) ==
    /\ Go(t, "idle")
    /\ stop' = [stop EXCEPT ![t] = FALSE]

\* WaitList::remove: the k-th node leaves the intrusive list.
RemoveAt(s, k) == SubSeq(s, 1, k-1) \o SubSeq(s, k+1, Len(s))

Unlink(t) == \E i \in DOMAIN waiters :
    /\ waiters[i] = t
    /\ waiters' = RemoveAt(waiters, i)

\* CancelBinding::arm.  A hook armed on a chain that is already cancelled
\* runs its thunk at once.
Arm(t) ==
    /\ phase[t] = "arming"
    /\ Go(t, IF stop[t] THEN "noted" ELSE "armed")
    /\ UNCHANGED <<waiters, stop>>

\* Someone requests cancellation of t's scope (or its deadline passes).
RequestStop(t) ==
    /\ ~stop[t]
    /\ stop' = [stop EXCEPT ![t] = TRUE]
    /\ UNCHANGED <<phase, waiters>>

\* cancelThunk of a task that is armed but not queued: leave a note for the
\* second pass.
CancelNote(t) ==
    /\ phase[t] = "armed"
    /\ stop[t]
    /\ Go(t, "noted")
    /\ UNCHANGED <<waiters, stop>>

\* The second pass finds the note: return to the caller as cancelled.
ParkCancelled(t) ==
    /\ phase[t] = "noted"
    /\ Ends(t)
    /\ UNCHANGED waiters

\* The pool resumes a task that its cancellation took out of the queue; or its
\* frame is destroyed first and the proxy swallows the resumption.  Either way
\* the call is over and there is no grant to give back.
WakeCancelled(t) ==
    /\ phase[t] = "withdrawn"
    /\ Ends(t)
    /\ UNCHANGED waiters

\* The pool resumes a task that was granted the resource.
WakeGranted(t) ==
    /\ phase[t] = "granted"
    /\ Go(t, "holding")
    /\ UNCHANGED <<waiters, stop>>

\* The frame is destroyed after a grant and before its resumption.  The proxy
\* swallows the resumption; revokeGrant is a later step of the same thread.
AbandonGranted(t) ==
    /\ phase[t] = "granted"
    /\ Go(t, "revoking")
    /\ UNCHANGED <<waiters, stop>>

\* Steps of the protocol that touch nothing of the primitive.
ParkStep(t) ==
    \/ Arm(t) \/ RequestStop(t) \/ CancelNote(t) \/ ParkCancelled(t)
    \/ WakeCancelled(t) \/ WakeGranted(t) \/ AbandonGranted(t)

\* Steps the pool and the cancelling threads always get round to.
ParkProgress(t) ==
    \/ Arm(t) \/ CancelNote(t) \/ ParkCancelled(t)
    \/ WakeCancelled(t) \/ WakeGranted(t)

ParkTypeOK ==
    /\ phase \in [Task -> Phase]
    /\ waiters \in Seq(Task)
    /\ stop \in [Task -> BOOLEAN]

\* The wait list holds exactly the queued tasks, each of them once.
QueueOK ==
    /\ \A i \in DOMAIN waiters : phase[waiters[i]] = "queued"
    /\ \A t \in Task : phase[t] = "queued" => \E i \in DOMAIN waiters : waiters[i] = t
    /\ \A i, j \in DOMAIN waiters : waiters[i] = waiters[j] => i = j
=============================================================================
