--------------------------- MODULE AsyncSemaphore ---------------------------
(***************************************************************************)
(* AsyncSemaphore (Yarn/includes/AsyncSync.h, Yarn/src/AsyncSync.cpp).     *)
(*                                                                         *)
(* A released permit goes straight to the head of the wait list and        *)
(* travels with its resumption; `count' only rises when nobody waits.      *)
(* acquireFor (timedWait) is acquire in a scope whose stop is requested by *)
(* the deadline, so RequestStop stands for a timeout as well.              *)
(***************************************************************************)
EXTENDS ParkBase

CONSTANTS
    Permits,        \* the constructor's `initial'
    MaxTotal        \* bound on the permits in existence

PermitsOK == Permits \in Nat /\ MaxTotal \in Nat /\ Permits <= MaxTotal

VARIABLES
    count,          \* AsyncSemaphore::count
    total           \* history: permits in existence, held or free

vars == <<phase, waiters, stop, count, total>>

Init == ParkInit /\ count = Permits /\ total = Permits

Owning == {"granted", "holding", "revoking"}
Owners == {t \in Task : phase[t] \in Owning}

\* AsyncSemAcquireAwaiter's tryNow
TryNow(t) ==
    /\ count > 0
    /\ count' = count - 1
    /\ Go(t, "holding")
    /\ UNCHANGED <<waiters, stop, total>>

\* acquire() and acquireFor(), first pass of park()
Acquire(t) ==
    /\ phase[t] = "idle"
    /\ \/ TryNow(t)
       \/ count = 0 /\ stop[t] /\ Ends(t) /\ UNCHANGED <<waiters, count, total>>
       \/ count = 0 /\ ~stop[t] /\ Go(t, "arming") /\ UNCHANGED <<waiters, stop, count, total>>

\* tryAcquire()
TryAcquire(t) ==
    /\ phase[t] = "idle"
    /\ TryNow(t)

\* A second pass that does not look at the count again.
ParkBlind(t) ==
    /\ phase[t] = "armed"
    /\ Go(t, "queued")
    /\ waiters' = Append(waiters, t)
    /\ UNCHANGED <<stop, count, total>>

\* Second pass of park()
Park(t) ==
    /\ phase[t] = "armed"
    /\ \/ TryNow(t)
       \/ /\ count = 0
          /\ Go(t, "queued")
          /\ waiters' = Append(waiters, t)
          /\ UNCHANGED <<stop, count, total>>

\* cancelThunk of a queued task
CancelQueued(t) ==
    /\ phase[t] = "queued"
    /\ stop[t]
    /\ Unlink(t)
    /\ Go(t, "withdrawn")
    /\ UNCHANGED <<stop, count, total>>

\* The frame of a queued task is destroyed.
AbandonQueued(t) ==
    /\ phase[t] = "queued"
    /\ Unlink(t)
    /\ Ends(t)
    /\ UNCHANGED <<count, total>>

\* The body of release(): hand the permit to the oldest waiter or bank it.
\* `after' is the phase function the caller leaves behind.
Give(after) ==
    IF waiters = <<>>
    THEN phase' = after /\ count' = count + 1 /\ UNCHANGED waiters
    ELSE /\ waiters' = Tail(waiters)
         /\ phase' = [after EXCEPT ![Head(waiters)] = "granted"]
         /\ UNCHANGED count

\* release() by a task that acquired
Release(t) ==
    /\ phase[t] = "holding"
    /\ Give([phase EXCEPT ![t] = "idle"])
    /\ stop' = [stop EXCEPT ![t] = FALSE]
    /\ UNCHANGED total

\* release() by someone who never acquired: a producer adds a permit.
Post ==
    /\ total < MaxTotal
    /\ total' = total + 1
    /\ Give(phase)
    /\ UNCHANGED stop

\* A consumer keeps its permit for good.
Consume(t) ==
    /\ phase[t] = "holding"
    /\ total' = total - 1
    /\ Ends(t)
    /\ UNCHANGED <<waiters, count>>

\* AsyncSemAcquireAwaiter::revokeGrant
RevokeGrant(t) ==
    /\ phase[t] = "revoking"
    /\ Give([phase EXCEPT ![t] = "idle"])
    /\ stop' = [stop EXCEPT ![t] = FALSE]
    /\ UNCHANGED total

Step(t) ==
    \/ Acquire(t) \/ TryAcquire(t) \/ Park(t) \/ CancelQueued(t) \/ AbandonQueued(t)
    \/ Release(t) \/ Consume(t) \/ RevokeGrant(t)
    \/ ParkStep(t) /\ UNCHANGED <<count, total>>

Next == Post \/ \E t \in Task : Step(t)

Spec == Init /\ [][Next]_vars

Progress(t) ==
    \/ Park(t) \/ CancelQueued(t) \/ RevokeGrant(t)
    \/ ParkProgress(t) /\ UNCHANGED <<count, total>>

-----------------------------------------------------------------------------
TypeOK ==
    /\ ParkTypeOK
    /\ count \in Nat
    /\ total \in 0..MaxTotal

(***************************************************************************)
(* No permit is ever lost or made up: the free ones, the ones held, the    *)
(* ones on their way to a waiter and the ones being taken back from a      *)
(* destroyed waiter are all the permits there are.                         *)
(***************************************************************************)
PermitsConserved == count + Cardinality(Owners) = total

(***************************************************************************)
(* Nobody stays parked while a permit is free, so tryAcquire() never       *)
(* overtakes a queued task.                                                *)
(***************************************************************************)
NoIdlePermit == waiters # <<>> => count = 0

SemInv == TypeOK /\ QueueOK /\ PermitsConserved /\ NoIdlePermit
=============================================================================
