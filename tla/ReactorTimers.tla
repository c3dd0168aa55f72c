--------------------------- MODULE ReactorTimers ----------------------------
(***************************************************************************)
(* The timers of the Reactor (Yarn/src/Reactor.cpp, the epoll backend): a  *)
(* table of deadlines, one timerfd armed for the earliest of them, and the *)
(* loop that serves it.  timerSetMu makes each operation on the table one  *)
(* step, which includes the scheduling of the handles it takes out;        *)
(* reading the timerfd happens outside it.                                 *)
(***************************************************************************)
EXTENDS Naturals

CONSTANTS
    Handle,
    Duration,
    MaxNow,     \* the clock stops there
    MaxFaults   \* how often an allocation or timerfd_settime may fail

ASSUME TimersAssumption == Duration \subseteq Nat /\ MaxNow \in Nat /\ MaxFaults \in Nat

VARIABLES
    now,            \* steady_clock
    timers,         \* timers and timerIndex: the deadline of each armed handle
    timerArmed,
    timerArmedFor,
    expiry,         \* when the timerfd becomes readable, or Never
    flight,         \* how many resumptions of a handle are queued in the pool
    dead,           \* Reactor::dead
    owed,           \* history: how many registrations of a handle are not resumed yet
    poked,          \* the eventfd wakefd is readable
    batch,          \* events epoll_wait returned that are still to be handled
    loop,           \* wait, fire (the timerfd was read), sweep (dying) or exited
    running,        \* Reactor::running
    faults

vars == <<now, timers, timerArmed, timerArmedFor, expiry, flight, dead, owed, poked, batch, loop, running, faults>>
kernelTimer == <<timerArmed, timerArmedFor, expiry, poked, faults>>

Never == MaxNow + 1

Init ==
    /\ now = 0 /\ timers = [h \in {} |-> 0] /\ flight = [h \in Handle |-> 0] /\ dead = FALSE
    /\ owed = [h \in Handle |-> 0]
    /\ timerArmed = FALSE /\ timerArmedFor = 0 /\ expiry = Never
    /\ poked = FALSE /\ batch = {} /\ loop = "wait" /\ running = TRUE /\ faults = 0

Armed == DOMAIN timers
\* timers.begin()->first, if there is one
First(T) == {d \in {T[h] : h \in DOMAIN T} : \A h \in DOMAIN T : d <= T[h]}
\* Reactor::schedule
Scheduled(S) == [h \in Handle |-> IF h \in S THEN flight[h] + 1 ELSE flight[h]]
Without(S) == [h \in Armed \ S |-> timers[h]]

Fault == faults < MaxFaults /\ faults' = faults + 1

\* armTimerfdLocked, with the eventfd as the caller leaves it; a failure pokes the loop.
ArmTimerfd(deadline, poke) ==
    \/ /\ timerArmed' = TRUE /\ timerArmedFor' = deadline /\ expiry' = deadline
       /\ poked' = poke /\ UNCHANGED faults
    \/ /\ Fault
       /\ timerArmed' = FALSE /\ poked' = TRUE
       /\ UNCHANGED <<timerArmedFor, expiry>>

\* An insertion that arms only an idle timerfd.
RegisterTimerLate(d, h) ==
    /\ h \notin Armed /\ ~dead /\ flight[h] = 0 /\ now + d <= MaxNow
    /\ timers' = [x \in Armed \cup {h} |-> IF x = h THEN now + d ELSE timers[x]]
    /\ IF ~timerArmed THEN ArmTimerfd(now + d, poked) ELSE UNCHANGED kernelTimer
    /\ owed' = [owed EXCEPT ![h] = @ + 1]
    /\ UNCHANGED <<now, batch, loop, running, flight, dead>>

\* registerTimer: not tracked (the loop is dead, the handle is a duplicate, out of
\* memory) means scheduled at once.
RegisterTimer(d, h) ==
    /\ flight[h] = 0 /\ now + d <= MaxNow
    /\ \/ /\ ~dead /\ h \notin Armed
          /\ timers' = [x \in Armed \cup {h} |-> IF x = h THEN now + d ELSE timers[x]]
          /\ IF (\A x \in Armed : now + d < timers[x]) /\ (~timerArmed \/ now + d < timerArmedFor)
             THEN ArmTimerfd(now + d, poked) ELSE UNCHANGED kernelTimer
          /\ UNCHANGED flight
       \/ /\ ~dead /\ h \notin Armed /\ Fault
          /\ flight' = Scheduled({h})
          /\ UNCHANGED <<timers, timerArmed, timerArmedFor, expiry, poked>>
       \/ /\ dead \/ h \in Armed
          /\ flight' = Scheduled({h})
          /\ UNCHANGED <<timers, kernelTimer>>
    /\ owed' = [owed EXCEPT ![h] = @ + 1]
    /\ UNCHANGED <<now, batch, loop, running, dead>>

\* A cancel that resumes a handle whether or not it took it out.
CancelAlways(h) ==
    /\ timers' = Without({h}) /\ flight' = Scheduled({h})
    /\ UNCHANGED <<now, kernelTimer, batch, loop, running, dead, owed>>

\* cancelTimer: whoever takes the entry out owns the resumption.
CancelTimer(h) ==
    /\ timers' = Without({h})
    /\ flight' = Scheduled({h} \cap Armed)
    /\ UNCHANGED <<now, kernelTimer, batch, loop, running, dead, owed>>

\* The pool resumes the handle.
Resume(h) ==
    /\ flight[h] > 0 /\ flight' = [flight EXCEPT ![h] = @ - 1]
    /\ owed' = [owed EXCEPT ![h] = @ - 1]
    /\ UNCHANGED <<now, timers, kernelTimer, batch, loop, running, dead>>
-----------------------------------------------------------------------------
(* The loop                                                                *)

Tick ==
    /\ now < MaxNow /\ now' = now + 1
    /\ UNCHANGED <<timers, kernelTimer, batch, loop, running, flight, dead, owed>>

Pending == (IF poked THEN {"wake"} ELSE {}) \cup (IF expiry <= now THEN {"timer"} ELSE {})

\* epoll_wait returns some of what is ready; a stop() may have come since it began.
Poll ==
    /\ loop = "wait" /\ batch = {}
    /\ \E B \in SUBSET Pending \ {{}} : batch' = B
    /\ UNCHANGED <<now, timers, kernelTimer, loop, running, flight, dead, owed>>

\* A poke: see that the timerfd is armed for the earliest deadline.
HandleWake ==
    /\ loop = "wait" /\ "wake" \in batch /\ batch' = batch \ {"wake"}
    /\ \/ \E d \in First(timers) : (~timerArmed \/ d < timerArmedFor) /\ ArmTimerfd(d, FALSE)
       \/ /\ Armed = {} \/ (timerArmed /\ \A h \in Armed : timerArmedFor <= timers[h])
          /\ poked' = FALSE /\ UNCHANGED <<timerArmed, timerArmedFor, expiry, faults>>
    /\ UNCHANGED <<now, timers, loop, running, flight, dead, owed>>

ReadTimerfd ==
    /\ loop = "wait" /\ "timer" \in batch /\ batch' = batch \ {"timer"} /\ loop' = "fire"
    /\ expiry' = IF expiry <= now THEN Never ELSE expiry
    /\ UNCHANGED <<now, timers, timerArmed, timerArmedFor, poked, running, faults, flight, dead, owed>>

\* Take out what is due, and arm for what is left.
Fire ==
    /\ loop = "fire" /\ loop' = "wait"
    /\ LET due == {h \in Armed : timers[h] <= now}
       IN /\ timers' = Without(due)
          /\ flight' = Scheduled(due)
          /\ IF due = Armed THEN timerArmed' = FALSE /\ UNCHANGED <<timerArmedFor, expiry, poked, faults>>
             ELSE \E d \in First(Without(due)) : ArmTimerfd(d, poked)
    /\ UNCHANGED <<now, batch, running, dead, owed>>

\* epoll_wait fails: abandonWaiters sets dead while it holds fdMu ...
Die ==
    /\ loop = "wait" /\ batch = {}
    /\ loop' = "sweep" /\ dead' = TRUE
    /\ UNCHANGED <<now, timers, kernelTimer, batch, running, flight, owed>>

\* ... and then, under timerSetMu, takes every sleeper out.
Sweep ==
    /\ loop = "sweep" /\ loop' = "exited"
    /\ timers' = Without(Armed) /\ flight' = Scheduled(Armed)
    /\ UNCHANGED <<now, kernelTimer, batch, running, dead, owed>>

\* Reactor::stop, at the exit of the process; sleepers that are left are dropped.
Stop ==
    /\ running /\ running' = FALSE /\ poked' = TRUE
    /\ UNCHANGED <<now, timers, timerArmed, timerArmedFor, expiry, batch, loop, faults, flight, dead, owed>>

Exit ==
    /\ loop = "wait" /\ batch = {} /\ ~running /\ loop' = "exited"
    /\ UNCHANGED <<now, timers, kernelTimer, batch, running, flight, dead, owed>>

Loop == Poll \/ HandleWake \/ ReadTimerfd \/ Fire \/ Sweep \/ Exit

Next ==
    \/ Loop \/ Tick \/ Die \/ Stop
    \/ \E h \in Handle : Resume(h) \/ CancelTimer(h) \/ \E d \in Duration : RegisterTimer(d, h)

\* The loop's thread runs and time passes.
Spec == Init /\ [][Next]_vars /\ WF_vars(Loop) /\ WF_vars(Tick)
-----------------------------------------------------------------------------
\* Types of the timer table and the loop.
TypeOK ==
    /\ now \in 0..MaxNow /\ Armed \subseteq Handle /\ \A h \in Armed : timers[h] \in 0..MaxNow
    /\ flight \in [Handle -> Nat] /\ dead \in BOOLEAN /\ owed \in [Handle -> Nat]
    /\ timerArmed \in BOOLEAN /\ timerArmedFor \in 0..MaxNow /\ expiry \in 0..Never
    /\ poked \in BOOLEAN /\ batch \subseteq {"wake", "timer"}
    /\ loop \in {"wait", "fire", "sweep", "exited"} /\ running \in BOOLEAN /\ faults \in 0..MaxFaults

(***************************************************************************)
(* "This can be earlier than the first entry of timers but never later":   *)
(* while the loop lives, the kernel timer goes off no later than the first *)
(* deadline, or the loop is about to look at the table again.              *)
(***************************************************************************)
TimerNeverLate ==
    Armed # {} /\ running /\ ~dead =>
        \/ timerArmed /\ \A h \in Armed : expiry <= timers[h]
        \/ poked \/ "timer" \in batch \/ loop = "fire"

\* Every registered handle is resumed exactly once (the contract in Reactor.h).
Service == INSTANCE ReactorService WITH pending <- Armed
ImplementsService == Service!ServiceSpec

\* An armed timerfd goes off when the table says, but while the loop is serving it.
ArmedIsSet == timerArmed => expiry = timerArmedFor \/ loop = "fire"

\* The inductive invariant: types, a resumption for each registration that is owed
\* one, and a kernel timer that is never late.
TimersInv == TypeOK /\ Service!OwedIsComing /\ ArmedIsSet /\ TimerNeverLate
=============================================================================
