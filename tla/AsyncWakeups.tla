---------------------------- MODULE AsyncWakeups ----------------------------
(***************************************************************************)
(* The primitives that wake without handing a resource over: AsyncEvent,   *)
(* AsyncNotify, AsyncOnce and AsyncBarrier (Yarn/includes/AsyncSync.h,     *)
(* Yarn/src/AsyncSync.cpp), each a specification of its own over the park  *)
(* protocol and the variables declared with it.                            *)
(***************************************************************************)
EXTENDS ParkBase
-----------------------------------------------------------------------------
(***************************************************************************)
(* AsyncEvent (Yarn/includes/AsyncSync.h, Yarn/src/AsyncSync.cpp): a latch *)
(* that set() flips once and for all.  Nothing is handed over with a wake, *)
(* so a destroyed waiter has nothing to give back.                         *)
(***************************************************************************)
VARIABLE latched    \* AsyncEvent::latched

eventVars == <<phase, waiters, stop, latched>>

EventInit == ParkInit /\ latched = FALSE

\* wait(): await_ready, then the first pass of park()
EventWait(t) ==
    /\ phase[t] = "idle"
    /\ \/ latched /\ Go(t, "holding") /\ UNCHANGED <<waiters, stop, latched>>
       \/ ~latched /\ stop[t] /\ Ends(t) /\ UNCHANGED <<waiters, latched>>
       \/ ~latched /\ ~stop[t] /\ Go(t, "arming") /\ UNCHANGED <<waiters, stop, latched>>

\* Second pass of park(), which re-checks the latch under the lock
EventPark(t) ==
    /\ phase[t] = "armed"
    /\ \/ latched /\ Go(t, "holding") /\ UNCHANGED <<waiters, stop, latched>>
       \/ /\ ~latched
          /\ Go(t, "queued")
          /\ waiters' = Append(waiters, t)
          /\ UNCHANGED <<stop, latched>>

\* cancelThunk of a queued task
EventCancel(t) ==
    /\ phase[t] = "queued"
    /\ stop[t]
    /\ Unlink(t)
    /\ Go(t, "withdrawn")
    /\ UNCHANGED <<stop, latched>>

EventAbandon(t) ==
    /\ phase[t] = "queued"
    /\ Unlink(t)
    /\ Ends(t)
    /\ UNCHANGED latched

\* set(): idempotent; wakes everyone
EventSet ==
    /\ ~latched
    /\ latched' = TRUE
    /\ waiters' = <<>>
    /\ phase' = [t \in Task |-> IF phase[t] = "queued" THEN "granted" ELSE phase[t]]
    /\ UNCHANGED stop

\* wait() returns (or the destroyed waiter's frame is gone).
EventReturn(t) ==
    /\ phase[t] \in {"holding", "revoking"}
    /\ Ends(t)
    /\ UNCHANGED <<waiters, latched>>

EventStep(t) ==
    \/ EventWait(t) \/ EventPark(t) \/ EventCancel(t) \/ EventAbandon(t) \/ EventReturn(t)
    \/ ParkStep(t) /\ UNCHANGED latched

EventNext == EventSet \/ \E t \in Task : EventStep(t)

EventProgress(t) ==
    \/ EventPark(t) \/ EventCancel(t) \/ EventReturn(t)
    \/ ParkProgress(t) /\ UNCHANGED latched

\* Threads take their steps and the pool its tasks; nobody need ever call set().
EventSpec == EventInit /\ [][EventNext]_eventVars /\ \A t \in Task : WF_eventVars(EventProgress(t))

\* Types, and a wait list that holds exactly the parked tasks.
EventTypeOK == ParkTypeOK /\ QueueOK /\ latched \in BOOLEAN

(***************************************************************************)
(* Nobody is parked on a set event: the second pass re-checks the latch,   *)
(* and set() empties the list in the critical section that latches.        *)
(***************************************************************************)
NobodyParkedOnceSet == latched => waiters = <<>>

(***************************************************************************)
(* wait() succeeds only after set().                                       *)
(***************************************************************************)
NoEarlyReturn == \A t \in Task : phase[t] \in {"granted", "holding", "revoking"} => latched
-----------------------------------------------------------------------------
(***************************************************************************)
(* AsyncNotify (Yarn/includes/AsyncSync.h, Yarn/src/AsyncSync.cpp): a      *)
(* notification reaches whoever waits at that moment and is not stored.    *)
(* A waiter destroyed between its notification and its resumption passes   *)
(* the notification on.                                                    *)
(***************************************************************************)
VARIABLE pending    \* history: notifications given to a waiter, not yet
                    \* delivered to it and not yet void

notifyVars == <<phase, waiters, stop, pending>>

NotifyInit == ParkInit /\ pending = 0

\* notified() and notifiedFor(), first pass of park(): tryNow is always false
Notified(t) ==
    /\ phase[t] = "idle"
    /\ \/ stop[t] /\ Ends(t) /\ UNCHANGED <<waiters, pending>>
       \/ ~stop[t] /\ Go(t, "arming") /\ UNCHANGED <<waiters, stop, pending>>

\* Second pass of park()
NotifyPark(t) ==
    /\ phase[t] = "armed"
    /\ Go(t, "queued")
    /\ waiters' = Append(waiters, t)
    /\ UNCHANGED <<stop, pending>>

\* A cancelThunk that leaves the cancelled waiter in the list.
NotifyCancelLeaves(t) ==
    /\ phase[t] = "queued"
    /\ stop[t]
    /\ Go(t, "withdrawn")
    /\ UNCHANGED <<waiters, stop, pending>>

NotifyCancel(t) ==
    /\ phase[t] = "queued"
    /\ stop[t]
    /\ Unlink(t)
    /\ Go(t, "withdrawn")
    /\ UNCHANGED <<stop, pending>>

NotifyAbandon(t) ==
    /\ phase[t] = "queued"
    /\ Unlink(t)
    /\ Ends(t)
    /\ UNCHANGED pending

\* notifyOne()
NotifyOne ==
    /\ waiters # <<>>
    /\ waiters' = Tail(waiters)
    /\ Go(Head(waiters), "granted")
    /\ pending' = pending + 1
    /\ UNCHANGED stop

\* notifyAll()
NotifyAll ==
    /\ waiters # <<>>
    /\ waiters' = <<>>
    /\ phase' = [t \in Task |-> IF phase[t] = "queued" THEN "granted" ELSE phase[t]]
    /\ pending' = pending + Len(waiters)
    /\ UNCHANGED stop

\* The notification is delivered: notified() returns.
NotifyDeliver(t) ==
    /\ phase[t] = "granted"
    /\ Ends(t)
    /\ pending' = pending - 1
    /\ UNCHANGED waiters

\* AsyncNotifyAwaiter::revokeGrant is notifyOne: the notification goes to the
\* next waiter, or is void if nobody waits.
NotifyRevoke(t) ==
    /\ phase[t] = "revoking"
    /\ stop' = [stop EXCEPT ![t] = FALSE]
    /\ IF waiters = <<>>
       THEN Go(t, "idle") /\ pending' = pending - 1 /\ UNCHANGED waiters
       ELSE /\ waiters' = Tail(waiters)
            /\ phase' = [phase EXCEPT ![t] = "idle", ![Head(waiters)] = "granted"]
            /\ UNCHANGED pending

NotifyProtocol(t) ==
    \/ Arm(t) \/ RequestStop(t) \/ CancelNote(t) \/ ParkCancelled(t)
    \/ WakeCancelled(t) \/ AbandonGranted(t)

NotifyStep(t) ==
    \/ Notified(t) \/ NotifyPark(t) \/ NotifyCancel(t) \/ NotifyAbandon(t)
    \/ NotifyDeliver(t) \/ NotifyRevoke(t)
    \/ NotifyProtocol(t) /\ UNCHANGED pending

NotifyNext == NotifyOne \/ NotifyAll \/ \E t \in Task : NotifyStep(t)

NotifySpec == NotifyInit /\ [][NotifyNext]_notifyVars

\* Types, and a wait list that holds exactly the parked tasks.
NotifyTypeOK == ParkTypeOK /\ QueueOK /\ pending \in 0..Cardinality(Task)

(***************************************************************************)
(* No notification is swallowed: one that was given to a waiter is on its  *)
(* way to a live waiter or about to be passed on, until it is delivered or *)
(* nobody is left to take it.  A waiter that was cancelled out of the list *)
(* never absorbs one.                                                      *)
(***************************************************************************)
NoneSwallowed == pending = Cardinality({t \in Task : phase[t] \in {"granted", "revoking"}})
-----------------------------------------------------------------------------
(***************************************************************************)
(* AsyncOnce::callOnce (Yarn/includes/AsyncSync.h, Yarn/src/AsyncSync.cpp).*)
(* The first caller runs fn, the others park and look again when they are  *)
(* woken.  A runner that is cancelled, or whose frame is destroyed inside  *)
(* fn, hands the run back.  Here phase "holding" is the runner inside fn.  *)
(***************************************************************************)
VARIABLES
    state,          \* AsyncOnce::state
    completed       \* history: how often fn ran to its end

onceVars == <<phase, waiters, stop, state, completed>>

OnceInit == ParkInit /\ state = "Idle" /\ completed = 0

\* First pass of park() of a caller, or of a woken caller that looks again.
CallOnce(t) ==
    /\ phase[t] \in {"idle", "granted"}
    /\ \/ /\ state = "Idle"
          /\ state' = "Running"
          /\ Go(t, "holding")
          /\ UNCHANGED <<waiters, stop, completed>>
       \/ state = "Done" /\ Ends(t) /\ UNCHANGED <<waiters, state, completed>>
       \/ state = "Running" /\ stop[t] /\ Ends(t) /\ UNCHANGED <<waiters, state, completed>>
       \/ /\ state = "Running" /\ ~stop[t]
          /\ Go(t, "arming")
          /\ UNCHANGED <<waiters, stop, state, completed>>

\* Second pass of park()
OncePark(t) ==
    /\ phase[t] = "armed"
    /\ \/ /\ state = "Idle"
          /\ state' = "Running"
          /\ Go(t, "holding")
          /\ UNCHANGED <<waiters, stop, completed>>
       \/ state = "Done" /\ Ends(t) /\ UNCHANGED <<waiters, state, completed>>
       \/ /\ state = "Running"
          /\ Go(t, "queued")
          /\ waiters' = Append(waiters, t)
          /\ UNCHANGED <<stop, state, completed>>

\* cancelThunk of a queued task
OnceCancel(t) ==
    /\ phase[t] = "queued"
    /\ stop[t]
    /\ Unlink(t)
    /\ Go(t, "withdrawn")
    /\ UNCHANGED <<stop, state, completed>>

\* The frame of a parked or of a woken caller is destroyed.  ParkBase's
\* revokeGrant does nothing: every other waiter was woken with it.
OnceAbandon(t) ==
    /\ phase[t] = "queued"
    /\ Unlink(t)
    /\ Ends(t)
    /\ UNCHANGED <<state, completed>>

AbandonWoken(t) ==
    /\ phase[t] = "granted"
    /\ Ends(t)
    /\ UNCHANGED <<waiters, state, completed>>

\* The runner leaves with state s, waking everyone.
RunnerLeaves(t, s) ==
    /\ phase[t] = "holding"
    /\ state' = s
    /\ phase' = [u \in Task |-> IF u = t THEN "idle"
                                ELSE IF phase[u] = "queued" THEN "granted" ELSE phase[u]]
    /\ waiters' = <<>>
    /\ stop' = [stop EXCEPT ![t] = FALSE]

\* fn returned or threw
FnEnds(t) == RunnerLeaves(t, "Done") /\ completed' = completed + 1

\* fn threw CancelledException: the run is handed back
FnCancelled(t) == RunnerLeaves(t, "Idle") /\ UNCHANGED completed

\* ~RunnerGuard: the runner's frame is destroyed while suspended inside fn
RunnerDestroyed(t) == RunnerLeaves(t, "Idle") /\ UNCHANGED completed

OnceProtocol(t) ==
    \/ Arm(t) \/ RequestStop(t) \/ CancelNote(t) \/ ParkCancelled(t) \/ WakeCancelled(t)

OnceStep(t) ==
    \/ CallOnce(t) \/ OncePark(t) \/ OnceCancel(t) \/ OnceAbandon(t) \/ AbandonWoken(t)
    \/ FnEnds(t) \/ FnCancelled(t) \/ RunnerDestroyed(t)
    \/ OnceProtocol(t) /\ UNCHANGED <<state, completed>>

OnceNext == \E t \in Task : OnceStep(t)

OnceSpec == OnceInit /\ [][OnceNext]_onceVars

\* Threads and the pool take their steps; fn ends, is cancelled, or its
\* runner is destroyed.
OnceProgress(t) ==
    \/ OncePark(t) \/ OnceCancel(t) \/ FnEnds(t) \/ FnCancelled(t) \/ RunnerDestroyed(t)
    \/ phase[t] = "granted" /\ CallOnce(t)
    \/ (Arm(t) \/ CancelNote(t) \/ ParkCancelled(t) \/ WakeCancelled(t))
       /\ UNCHANGED <<state, completed>>

\* Types, and a wait list that holds exactly the parked tasks.
OnceTypeOK ==
    /\ ParkTypeOK /\ QueueOK
    /\ state \in {"Idle", "Running", "Done"}
    /\ completed \in Nat

(***************************************************************************)
(* fn runs to its end at most once, and callers are told "done" only if it *)
(* did: a cancelled or destroyed runner leaves the run to someone else.    *)
(***************************************************************************)
CompletesOnce == completed <= 1 /\ (state = "Done" <=> completed = 1)

(***************************************************************************)
(* "Running" always has a live runner, exactly one: the state never        *)
(* survives the runner's frame.                                            *)
(***************************************************************************)
RunningHasRunner ==
    Cardinality({t \in Task : phase[t] = "holding"}) = IF state = "Running" THEN 1 ELSE 0

(***************************************************************************)
(* Nobody is parked unless a runner will wake it.                          *)
(***************************************************************************)
ParkedBehindRunner == waiters # <<>> => state = "Running"
-----------------------------------------------------------------------------
(***************************************************************************)
(* AsyncBarrier (Yarn/includes/AsyncSync.h, Yarn/src/AsyncSync.cpp): every *)
(* N-th arrival wakes the others and starts the next cycle.  Its awaiter   *)
(* arms the hook first and takes a single pass under the lock; a waiter    *)
(* that leaves before the trip withdraws its arrival.                      *)
(***************************************************************************)
CONSTANT N          \* AsyncBarrier::initial, at least 1
VARIABLE countdown  \* AsyncBarrier::countdown

barrierVars == <<phase, waiters, stop, countdown>>

BarrierInit == ParkInit /\ countdown = N

\* arrive(): the check before arming
BarrierArrive(t) ==
    /\ phase[t] = "idle"
    /\ IF stop[t] THEN Ends(t) ELSE Go(t, "arming") /\ UNCHANGED stop
    /\ UNCHANGED <<waiters, countdown>>

\* Under the lock, not the last one: count the arrival and park.
BarrierPark(t) ==
    /\ phase[t] = "armed"
    /\ countdown # 1
    /\ countdown' = countdown - 1
    /\ Go(t, "queued")
    /\ waiters' = Append(waiters, t)
    /\ UNCHANGED stop

\* The last arrival: reset the count, wake everyone, go on.
BarrierTrip(t) ==
    /\ phase[t] = "armed"
    /\ countdown = 1
    /\ countdown' = N
    /\ phase' = [u \in Task |-> IF u = t THEN "holding"
                                ELSE IF phase[u] = "queued" THEN "granted" ELSE phase[u]]
    /\ waiters' = <<>>
    /\ UNCHANGED stop

BarrierCancel(t) ==
    /\ phase[t] = "queued"
    /\ stop[t]
    /\ Unlink(t)
    /\ Go(t, "withdrawn")
    /\ countdown' = countdown + 1
    /\ UNCHANGED stop

BarrierAbandon(t) ==
    /\ phase[t] = "queued"
    /\ Unlink(t)
    /\ Ends(t)
    /\ countdown' = countdown + 1

\* arrive() returns, or the frame is destroyed after the trip: the arrival
\* was used, there is nothing to revoke.
BarrierReturn(t) ==
    /\ phase[t] \in {"holding", "revoking"}
    /\ Ends(t)
    /\ UNCHANGED <<waiters, countdown>>

BarrierStep(t) ==
    \/ BarrierArrive(t) \/ BarrierPark(t) \/ BarrierTrip(t) \/ BarrierCancel(t) \/ BarrierAbandon(t)
    \/ BarrierReturn(t)
    \/ ParkStep(t) /\ UNCHANGED countdown

BarrierNext == \E t \in Task : BarrierStep(t)

BarrierSpec == BarrierInit /\ [][BarrierNext]_barrierVars

\* Threads and the pool take their steps, and tasks keep arriving.
BarrierProgress(t) ==
    \/ BarrierArrive(t) \/ BarrierPark(t) \/ BarrierTrip(t) \/ BarrierCancel(t) \/ BarrierReturn(t)
    \/ ParkProgress(t) /\ UNCHANGED countdown

\* Types, and a wait list that holds exactly the parked tasks.
BarrierTypeOK == ParkTypeOK /\ QueueOK /\ countdown \in 1..N

(***************************************************************************)
(* Every counted arrival is parked and every parked task is counted, so a  *)
(* trip releases exactly N tasks, however many left before it.             *)
(***************************************************************************)
ArrivalsAreParked == countdown + Len(waiters) = N

(***************************************************************************)
(* A step that lets tasks through lets N of them through (the trigger and  *)
(* N-1 parked ones) and leaves nobody behind.                              *)
(***************************************************************************)
BarrierThrough == {t \in Task : phase[t] \in {"granted", "holding"}}
TripIsFull ==
    (\E t \in Task : phase[t] = "armed" /\ phase'[t] = "holding") =>
        Cardinality(BarrierThrough' \ BarrierThrough) = N /\ waiters' = <<>>
=============================================================================
