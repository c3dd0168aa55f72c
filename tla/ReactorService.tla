--------------------------- MODULE ReactorService ---------------------------
(***************************************************************************)
(* What the Reactor promises its callers (the ownership contract in        *)
(* Yarn/includes/Reactor.h): a registered handle is resumed exactly once,  *)
(* by whoever takes it out, be it readiness, expiry, a cancel or the death *)
(* of the loop.  ReactorTimers and ReactorFds implement it; GatedWait is   *)
(* written against it.                                                     *)
(***************************************************************************)
EXTENDS Naturals

CONSTANT Handle

VARIABLES
    pending,    \* the handles that wait in the Reactor's tables
    flight,     \* how many resumptions of a handle are queued in the pool
    dead,       \* Reactor::dead
    owed        \* history: how many registrations of a handle are not resumed yet

serviceVars == <<pending, flight, dead, owed>>

ServiceInit ==
    /\ pending = {} /\ flight = [h \in Handle |-> 0] /\ dead = FALSE
    /\ owed = [h \in Handle |-> 0]

\* Reactor::schedule
Scheduled(S) == [h \in Handle |-> IF h \in S THEN flight[h] + 1 ELSE flight[h]]

TakeOut(S) == pending' = pending \ S /\ flight' = Scheduled(S \cap pending) /\ UNCHANGED owed

\* register*: what cannot be tracked is resumed at once, and so are the waiters that
\* the call finds to be stale.
Register(h) ==
    /\ \E S \in SUBSET pending :
          \/ ~dead /\ h \notin pending /\ pending' = (pending \ S) \cup {h} /\ flight' = Scheduled(S)
          \/ pending' = pending \ S /\ flight' = Scheduled(S \cup {h})
    /\ owed' = [owed EXCEPT ![h] = @ + 1]
    /\ UNCHANGED dead

\* cancelWait, cancelTimer
Cancel(h) == TakeOut({h}) /\ UNCHANGED dead

\* Readiness, expiry, cancelFd, or the sweep of a dead loop.
Complete == \E S \in SUBSET pending : TakeOut(S) /\ UNCHANGED dead

\* epoll_wait failed.
Die == dead' = TRUE /\ \E S \in SUBSET pending : TakeOut(S)

\* The pool runs a resumption.
Resume(h) ==
    /\ flight[h] > 0 /\ flight' = [flight EXCEPT ![h] = @ - 1]
    /\ owed' = [owed EXCEPT ![h] = @ - 1]
    /\ UNCHANGED <<pending, dead>>

ServiceNext == Complete \/ Die \/ \E h \in Handle : Register(h) \/ Cancel(h) \/ Resume(h)

ServiceSpec == ServiceInit /\ [][ServiceNext]_serviceVars
-----------------------------------------------------------------------------
\* Each registration that was not resumed yet waits in the table or has one
\* resumption on its way: none is lost, none is resumed twice.
OwedIsComing == \A h \in Handle : owed[h] = flight[h] + (IF h \in pending THEN 1 ELSE 0)
=============================================================================
