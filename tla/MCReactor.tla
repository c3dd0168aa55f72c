------------------------------ MODULE MCReactor -----------------------------
(***************************************************************************)
(* The Reactor for TLC, each part on its own (`sys' never changes): of the *)
(* epoll build its timers, its descriptor waits, and two awaiters that use *)
(* them, the first of which can be cancelled by its scope and by its       *)
(* chain; the Windows poll thread; and the io_uring build.  A part that is *)
(* not running stays in its initial state.                                 *)
(***************************************************************************)
EXTENDS ReactorTimers

CONSTANTS Fd, MaxCloses, Scoped, Chained, PollHandle

VARIABLES
    sys,
    waiters, napping, flights, down, fdOwed, mask, open, ready, events, fdLoop, orphan, fdFaults, closes,
    pending, resumes, gone, waitOwed, frame, thread, handle, stop, hook, cancelled, proxy, woken,
    listed, requests, heap, live, seq, pollDead, active, pollLoop, until, failures, wake, signalled, clock,
    pollFlight, pollOwed, budget,
    ring, pollFds, sleeps, backing, ringDead, arrived, ticks, ringFlight, ringOwed, regs, asks

Fds == INSTANCE ReactorFds WITH
    flight <- flights, dead <- down, owed <- fdOwed, batch <- events, loop <- fdLoop, faults <- fdFaults
Awaiters == INSTANCE GatedWait WITH flight <- resumes, dead <- gone, owed <- waitOwed, Wait <- Handle
Win == INSTANCE ReactorPoll WITH
    pending <- listed, cancels <- requests, dead <- pollDead, loop <- pollLoop, ready <- signalled, now <- clock,
    flight <- pollFlight, owed <- pollOwed,
    Handle <- PollHandle, Sock <- Fd, Duration <- {1}, MinHeap <- 2, MaxFailures <- 2,
    MaxRegs <- 3, MaxCancels <- 2, MaxNow <- 1, MaxLost <- 1
Uring == INSTANCE ReactorUring WITH
    timers <- sleeps, dead <- ringDead, ready <- arrived, now <- ticks, flight <- ringFlight, owed <- ringOwed,
    Backoff <- 1, MaxRegs <- 2, MaxCancels <- 1, MaxNow <- 1, MaxFull <- 1, MaxFails <- 2

fdVars == <<waiters, napping, flights, down, fdOwed, mask, open, ready, events, fdLoop, orphan, fdFaults, closes>>
waitVars == <<pending, resumes, gone, waitOwed, frame, thread, handle, stop, hook, cancelled, proxy, woken>>
pollVars == <<listed, requests, heap, live, seq, pollDead, active, pollLoop, until, failures, wake, signalled, clock,
              pollFlight, pollOwed, budget>>
ringVars == <<ring, pollFds, sleeps, backing, ringDead, arrived, ticks, ringFlight, ringOwed, regs, asks>>
allVars == <<sys, vars, fdVars, waitVars, pollVars, ringVars>>

MCInit ==
    /\ sys \in {"timers", "fds", "awaiters", "poll", "uring"}
    /\ Init /\ Fds!Init /\ Awaiters!Init /\ Win!Init /\ Uring!Init

OnlyTimers == UNCHANGED <<sys, fdVars, waitVars, pollVars, ringVars>>
OnlyFds == UNCHANGED <<sys, vars, waitVars, pollVars, ringVars>>
OnlyAwaiters == UNCHANGED <<sys, vars, fdVars, pollVars, ringVars>>
OnlyPoll == UNCHANGED <<sys, vars, fdVars, waitVars, ringVars>>
OnlyUring == UNCHANGED <<sys, vars, fdVars, waitVars, pollVars>>

MCNext ==
    \/ sys = "timers" /\ Next /\ OnlyTimers
    \/ sys = "fds" /\ Fds!Next /\ OnlyFds
    \/ sys = "awaiters" /\ Awaiters!Next /\ OnlyAwaiters
    \/ sys = "poll" /\ Win!Next /\ OnlyPoll
    \/ sys = "uring" /\ Uring!Next /\ OnlyUring

(***************************************************************************)
(* The loop, the kernel and the pool run and time passes; nothing need     *)
(* ever become ready.  Since `sys' never changes, fairness of a            *)
(* disjunction over systems is fairness in each.                           *)
(***************************************************************************)
LoopRuns ==
    \/ sys = "timers" /\ Loop /\ OnlyTimers
    \/ sys = "fds" /\ Fds!Loop /\ OnlyFds
    \/ sys = "awaiters" /\ Awaiters!Runtime /\ OnlyAwaiters
    \/ sys = "poll" /\ Win!Loop /\ OnlyPoll
    \/ sys = "uring" /\ Uring!Loop /\ OnlyUring
TimePasses ==
    \/ sys = "timers" /\ Tick /\ OnlyTimers
    \/ sys = "awaiters" /\ gone /\ Awaiters!Serve /\ OnlyAwaiters
    \/ sys = "poll" /\ Win!Tick /\ OnlyPoll
    \/ sys = "uring" /\ Uring!Tick /\ OnlyUring
KernelRuns == sys = "uring" /\ Uring!Kernel /\ OnlyUring
CallEnds(h) == sys = "uring" /\ Uring!BackOff(h) /\ OnlyUring

MCSpec ==
    /\ MCInit /\ [][MCNext]_allVars
    /\ WF_allVars(LoopRuns) /\ WF_allVars(TimePasses) /\ WF_allVars(KernelRuns)
    /\ \A h \in Handle : WF_allVars(CallEnds(h))
-----------------------------------------------------------------------------
\* Types of the tables of each build and of the awaiters, and what ties the timerfd to its record.
TypesOK == TypeOK /\ ArmedIsSet /\ Fds!TypeOK /\ Awaiters!TypeOK /\ Win!TypeOK /\ Uring!TypeOK

(***************************************************************************)
(* A wait proxy is freed exactly when its last user is done, and resumed   *)
(* at most once; every wait not yet resumed is in a table or has exactly   *)
(* one resumption on its way.                                              *)
(***************************************************************************)
ProxiesAreAccounted == Awaiters!ProxiesAreAccounted /\ Win!OwedIsComing /\ Uring!OwedIsComing

(***************************************************************************)
(* No wait is ended by a cancel that was meant for an earlier one: not by  *)
(* a proxy at the same address, nor by a request left for the poll thread. *)
(***************************************************************************)
NoForeignWake == []Awaiters!NoForeignWake /\ Win!RequestsAreOld

(***************************************************************************)
(* Whoever waits for a direction of an open file is watched for it; the    *)
(* poll thread does not sleep past a deadline or a registration it has not *)
(* seen; what is queued on the ring is pushed, and its timeout serves the  *)
(* earliest sleep.                                                         *)
(***************************************************************************)
NoLostReadiness ==
    Fds!NoLostReadiness /\ Win!NeverOverslept /\ Uring!QueuedIsPushed /\ Uring!SleepersAreServed

\* The descriptor waits, the poll thread and the io_uring build keep the Reactor's contract.
BackendsImplementService == Fds!ImplementsService /\ Win!ImplementsService /\ Uring!ImplementsService

(***************************************************************************)
(* Sleepers wake, readiness is delivered, and a stop or the loop's death   *)
(* ends a wait.                                                            *)
(***************************************************************************)
Unserved(h) == \E fd \in Fd, d \in Fds!Dir : h \in waiters[fd][d] \ orphan /\ d \in ready[fd]
Due(h) ==
    \/ sys = "timers" /\ h \in Armed
    \/ sys = "fds" /\ Unserved(h)
    \/ sys = "awaiters" /\ frame[h] = "parked" /\ (stop[h] # {} \/ gone)
    \/ sys = "poll" /\ Win!Overdue(h)
    \/ sys = "uring" /\ Uring!Overdue(h)
Resumed(h) ==
    \/ sys = "timers" /\ (h \notin Armed \/ ~running)
    \/ sys = "fds" /\ ~Unserved(h)
    \/ sys = "awaiters" /\ frame[h] \in Awaiters!Ended
    \/ sys = "poll" /\ ~Win!Overdue(h)
    \/ sys = "uring" /\ (~Uring!Overdue(h) \/ ring.stuck)
WaitersWake == \A h \in Handle : Due(h) ~> Resumed(h)
=============================================================================
