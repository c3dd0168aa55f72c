---------------------------- MODULE AsyncRwLock -----------------------------
(***************************************************************************)
(* AsyncRwLock (Yarn/includes/AsyncSync.h, Yarn/src/AsyncSync.cpp).        *)
(*                                                                         *)
(* One wait list for readers and writers.  Whoever leaves the lock, or     *)
(* leaves the list, promotes the waiters that can run now and takes the    *)
(* lock on their behalf (promoteLocked).                                   *)
(***************************************************************************)
EXTENDS ParkBase, Integers

CONSTANT Writer     \* the tasks that lock exclusively; the others share

VARIABLE state      \* AsyncRwLock::state: -1 a writer, otherwise the readers

vars == <<phase, waiters, stop, state>>

Init == ParkInit /\ state = 0

Owning == {"granted", "holding", "revoking"}
Owners == {t \in Task : phase[t] \in Owning}

\* The readers at the head of the list, up to the first writer.
LeadingReaders(w) ==
    CHOOSE n \in 0..Len(w) :
        /\ \A i \in 1..n : w[i] \notin Writer
        /\ n < Len(w) => w[n+1] \in Writer

\* How many waiters at the head of w can run when the lock is in state s.
Promotable(w, s) ==
    IF w = <<>> THEN 0
    ELSE IF Head(w) \in Writer THEN (IF s = 0 THEN 1 ELSE 0)
    ELSE IF s >= 0 THEN LeadingReaders(w) ELSE 0

\* promoteLocked, applied to phases ph, list w and state s.
Promote(ph, w, s) ==
    LET n == Promotable(w, s) IN
    /\ waiters' = SubSeq(w, n+1, Len(w))
    /\ phase' = [t \in Task |-> IF \E i \in 1..n : w[i] = t THEN "granted" ELSE ph[t]]
    /\ state' = IF n > 0 /\ Head(w) \in Writer THEN -1 ELSE s + n

\* A release that leaves readers inside promotes nobody.
NoPromote(ph, w, s) == waiters' = w /\ phase' = ph /\ state' = s

\* The writer's fast path alone, without the look at the queue.
CanEnterPastQueue(t) == IF t \in Writer THEN state = 0 ELSE state >= 0

\* tryNow of AsyncRwReadAwaiter and AsyncRwWriteAwaiter
CanEnter(t) ==
    /\ waiters = <<>>
    /\ IF t \in Writer THEN state = 0 ELSE state >= 0

TryNow(t) ==
    /\ CanEnter(t)
    /\ state' = IF t \in Writer THEN -1 ELSE state + 1
    /\ Go(t, "holding")
    /\ UNCHANGED <<waiters, stop>>

\* lockShared() and lockExclusive(), first pass of park()
Lock(t) ==
    /\ phase[t] = "idle"
    /\ \/ TryNow(t)
       \/ ~CanEnter(t) /\ stop[t] /\ Ends(t) /\ UNCHANGED <<waiters, state>>
       \/ ~CanEnter(t) /\ ~stop[t] /\ Go(t, "arming") /\ UNCHANGED <<waiters, stop, state>>

\* Second pass of park()
Park(t) ==
    /\ phase[t] = "armed"
    /\ \/ TryNow(t)
       \/ /\ ~CanEnter(t)
          /\ Go(t, "queued")
          /\ waiters' = Append(waiters, t)
          /\ UNCHANGED <<stop, state>>

\* A queued task leaves the list in favour of phase p, and fixupLocked runs.
Leave(t, p) == \E i \in DOMAIN waiters :
    /\ waiters[i] = t
    /\ Promote([phase EXCEPT ![t] = p], RemoveAt(waiters, i), state)

\* cancelThunk of a queued task
CancelQueued(t) ==
    /\ phase[t] = "queued"
    /\ stop[t]
    /\ Leave(t, "withdrawn")
    /\ UNCHANGED stop

\* The frame of a queued task is destroyed.
AbandonQueued(t) ==
    /\ phase[t] = "queued"
    /\ Leave(t, "idle")
    /\ stop' = [stop EXCEPT ![t] = FALSE]

\* releaseWriter, and releaseReader, which promotes when the last one leaves
Release(t) ==
    LET ph == [phase EXCEPT ![t] = "idle"]
        s == IF t \in Writer THEN 0 ELSE state - 1
    IN IF s = 0 THEN Promote(ph, waiters, s) ELSE NoPromote(ph, waiters, s)

\* The guards' unlock and destructors
Unlock(t) ==
    /\ phase[t] = "holding"
    /\ Release(t)
    /\ stop' = [stop EXCEPT ![t] = FALSE]

\* An abandon that keeps the lock of a destroyed task.
RevokeForgets(t) ==
    /\ phase[t] = "revoking"
    /\ Ends(t)
    /\ UNCHANGED <<waiters, state>>

\* The awaiters' revokeGrant
RevokeGrant(t) ==
    /\ phase[t] = "revoking"
    /\ Release(t)
    /\ stop' = [stop EXCEPT ![t] = FALSE]

Step(t) ==
    \/ Lock(t) \/ Park(t) \/ CancelQueued(t) \/ AbandonQueued(t)
    \/ Unlock(t) \/ RevokeGrant(t)
    \/ ParkStep(t) /\ UNCHANGED state

Next == \E t \in Task : Step(t)

Spec == Init /\ [][Next]_vars

Progress(t) ==
    \/ Park(t) \/ CancelQueued(t) \/ Unlock(t) \/ RevokeGrant(t)
    \/ ParkProgress(t) /\ UNCHANGED state

-----------------------------------------------------------------------------
\* Types, and a wait list that holds exactly the parked tasks.
TypeOK == ParkTypeOK /\ QueueOK /\ state \in -1..Cardinality(Task)

(***************************************************************************)
(* `state' tells who is inside: -1 exactly while one writer and nobody     *)
(* else owns the lock, otherwise the number of readers that own it.        *)
(* Grants in flight and grants being revoked count as owners.              *)
(***************************************************************************)
StateCountsOwners ==
    IF state = -1 THEN \E w \in Writer : Owners = {w}
    ELSE Owners \cap Writer = {} /\ state = Cardinality(Owners)

(***************************************************************************)
(* The head of the list cannot run: nobody stays parked who could go, also *)
(* after the writer in front of it was cancelled or destroyed.             *)
(***************************************************************************)
HeadIsBlocked ==
    waiters # <<>> => IF Head(waiters) \in Writer THEN state # 0 ELSE state = -1

RwInv == TypeOK /\ StateCountsOwners /\ HeadIsBlocked

(***************************************************************************)
(* Strict FIFO across readers and writers: while a task stays queued, only *)
(* tasks that stood before it in the list become owners.                   *)
(***************************************************************************)
NobodyOvertakes ==
    \A i \in DOMAIN waiters :
        phase'[waiters[i]] = "queued" =>
            \A u \in Owners' \ Owners : \E j \in 1..(i-1) : waiters[j] = u
=============================================================================
