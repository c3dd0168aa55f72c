---------------------------- MODULE ReactorUring ----------------------------
(***************************************************************************)
(* The io_uring build of the Reactor (Yarn/src/Reactor.cpp): waits and the *)
(* one timeout that serves all sleeps are operations queued on a ring      *)
(* under sqMu, submitted to the kernel, and completed into a queue that    *)
(* the loop consumes.  A submission may fail and leave its operations      *)
(* queued, a queue slot may not be had, a removal may reach an operation   *)
(* that is over, and the timeout may be replaced while it fires.  Every    *)
(* section under sqMu is one step.  Callers cancel with resume = true.     *)
(***************************************************************************)
EXTENDS Naturals, FiniteSets, FiniteSetsExt, Sequences, SequencesExt

CONSTANTS
    Handle, Fd,
    Duration,               \* of a sleep
    Backoff,                \* the sleep of a wait that found no slot
    MaxRegs, MaxCancels, MaxNow, MaxFull, MaxFails  \* bounds: registrations, cancels, the clock, missing
                                                    \* slots, failed submissions

VARIABLES
    ring,       \* the ring, its kernel side, the wake eventfd and the armed timeout
    pollFds,    \* waits tracked: [h, fd]
    timers,     \* sleeps: [h, at]
    backing,    \* callers between a missing slot and their back-off sleep
    dead,
    ready, now,
    flight, owed,   \* resumptions on their way; registrations not resumed yet
    regs, asks      \* registrations and cancels so far

uringVars == <<ring, pollFds, timers, backing, dead, ready, now, flight, owed, regs, asks>>

Init ==
    /\ ring = [sq |-> <<>>, polls |-> {}, timeouts |-> {}, watch |-> TRUE, cq |-> <<>>,
               wakefd |-> FALSE, armed |-> FALSE, for |-> 0, gen |-> 0,
               full |-> 0, fails |-> 0, stuck |-> FALSE]
    /\ pollFds = {} /\ timers = {} /\ backing = {} /\ dead = FALSE
    /\ ready = {} /\ now = 0
    /\ flight = [h \in Handle |-> 0] /\ owed = [h \in Handle |-> 0]
    /\ regs = 0 /\ asks = 0

\* Reactor::schedule
Scheduled(S) == [h \in Handle |-> IF h \in S THEN flight[h] + 1 ELSE flight[h]]
Of(waits) == {w.h : w \in waits}
-----------------------------------------------------------------------------
(* The ring                                                                *)

Push(r, op) == [r EXCEPT !.sq = Append(@, op)]

\* The kernel takes one operation.  A timeout reads the one timespec when it is taken; the
\* completions of removals, and of removed timeouts, change nothing and are left out.
Taken(r, op) ==
    CASE op.op = "poll" -> [r EXCEPT !.polls = @ \cup {[h |-> op.h, fd |-> op.fd]}]
      [] op.op = "unpoll" /\ op.h \in Of(r.polls) ->
            [r EXCEPT !.polls = {p \in @ : p.h # op.h}, !.cq = Append(@, [of |-> "poll", id |-> op.h])]
      [] op.op = "unpoll" /\ op.h \notin Of(r.polls) -> r
      [] op.op = "timeout" -> [r EXCEPT !.timeouts = @ \cup {[gen |-> op.gen, at |-> r.for]}]
      [] op.op = "untimeout" -> [r EXCEPT !.timeouts = {x \in @ : x.gen # op.gen}]
      [] op.op = "watch" -> [r EXCEPT !.watch = TRUE]

Submitted(r) == FoldLeft(Taken, [r EXCEPT !.sq = <<>>, !.stuck = FALSE], r.sq)

\* A failed submission nobody is told of.
SubmitsQuietly(r) ==
    {Submitted(r)} \cup IF r.fails < MaxFails THEN {[r EXCEPT !.fails = @ + 1]} ELSE {}

\* The kernel stops after n operations each time: submitRetry reports no failure, and leaves the rest
\* to the next caller.
CutShort(r, n) == FoldLeft(Taken, [r EXCEPT !.sq = SubSeq(@, n + 1, Len(@)), !.fails = @ + 1, !.stuck = TRUE],
                           SubSeq(r.sq, 1, n))

\* submitRetry; pokeLoop when it fails
Submits(r) ==
    {Submitted(r)}
        \cup IF r.fails < MaxFails
              THEN {[r EXCEPT !.fails = @ + 1, !.wakefd = TRUE]} \cup {CutShort(r, n) : n \in 0 .. Len(r.sq) - 1}
              ELSE {}

\* getSqeLocked finds no slot
NoSlot(r) == IF r.full < MaxFull THEN {[r EXCEPT !.full = @ + 1]} ELSE {}

\* armKernelTimerLocked
Arms(r, d) ==
    LET removed == IF r.armed
                   THEN [Push(r, [op |-> "untimeout", gen |-> r.gen]) EXCEPT !.armed = FALSE]
                   ELSE r
        armed == Push([removed EXCEPT !.gen = @ + 1, !.armed = TRUE, !.for = d],
                      [op |-> "timeout", gen |-> r.gen + 1])
    IN  Submits(armed) \cup {[x EXCEPT !.wakefd = TRUE] : x \in NoSlot(r) \cup NoSlot(removed)}

First(ts) == Min({t.at : t \in ts})

\* Arm for the earliest sleep, if what is armed does not serve it.
Rearms(r, ts) == IF ts # {} /\ (~r.armed \/ First(ts) < r.for) THEN Arms(r, First(ts)) ELSE {r}
-----------------------------------------------------------------------------
(* Callers                                                                 *)

Owe(h) == regs < MaxRegs /\ regs' = regs + 1 /\ owed' = [owed EXCEPT ![h] = @ + 1]

\* registerReadable, registerWritable
RegisterWait(h, fd) ==
    /\ owed[h] = 0 /\ Owe(h)
    /\ \/ dead /\ flight' = Scheduled({h}) /\ UNCHANGED <<ring, pollFds, backing>>
       \/ /\ ~dead /\ pollFds' = pollFds \cup {[h |-> h, fd |-> fd]}
          /\ ring' \in Submits(Push(ring, [op |-> "poll", h |-> h, fd |-> fd]))
          /\ UNCHANGED <<flight, backing>>
       \/ ~dead /\ ring' \in NoSlot(ring) /\ backing' = backing \cup {h} /\ UNCHANGED <<flight, pollFds>>
    /\ UNCHANGED <<timers, dead, ready, now, asks>>

\* registerTimer, under the lock; what is not tracked (the loop is dead, the handle sleeps already, out
\* of memory) is scheduled at once
Sleep(h, d) ==
    /\ \/ flight' = Scheduled({h}) /\ UNCHANGED <<ring, timers>>
       \/ /\ ~dead /\ h \notin Of(timers)
          /\ timers' = timers \cup {[h |-> h, at |-> now + d]} /\ UNCHANGED flight
          /\ ring' \in IF now + d = First(timers') THEN Rearms(ring, timers') ELSE {ring}
    /\ UNCHANGED <<pollFds, dead, ready, now, asks>>

RegisterTimer(h, d) ==
    /\ owed[h] = (IF h \in Of(timers) THEN 1 ELSE 0) /\ Owe(h) /\ Sleep(h, d)
    /\ UNCHANGED backing

BackOff(h) == h \in backing /\ backing' = backing \ {h} /\ Sleep(h, Backoff) /\ UNCHANGED <<owed, regs>>

Ask == asks < MaxCancels /\ asks' = asks + 1 /\ UNCHANGED <<backing, dead, ready, now, owed, regs>>

\* cancelWait, cancelByHandle; nothing happens without a slot
CancelWait(h) ==
    /\ Ask /\ ring' \in NoSlot(ring) \cup Submits(Push(ring, [op |-> "unpoll", h |-> h]))
    /\ UNCHANGED <<pollFds, timers, flight>>

CancelTimer(h) ==
    /\ Ask /\ h \in Of(timers) /\ timers' = {t \in timers : t.h # h} /\ flight' = Scheduled({h})
    /\ UNCHANGED <<ring, pollFds>>

\* One removal for each waiter, as long as there are slots, then one submission.
CancelFd(fd) ==
    /\ Ask
    /\ \E hit \in SUBSET Of({w \in pollFds : w.fd = fd}) :
          LET removals == SetToSeq({[op |-> "unpoll", h |-> h] : h \in hit})
              after(r) == IF hit = {} THEN {r} ELSE Submits([r EXCEPT !.sq = @ \o removals])
          IN  IF hit = Of({w \in pollFds : w.fd = fd}) THEN ring' \in after(ring)
              ELSE \E r \in NoSlot(ring) : ring' \in after(r)
    /\ UNCHANGED <<pollFds, timers, flight>>
-----------------------------------------------------------------------------
(* run()                                                                   *)

Completion(what) ==
    /\ ~dead /\ ring.cq # <<>> /\ Head(ring.cq).of = what
    /\ UNCHANGED <<backing, dead, ready, now, owed, regs, asks>>
Seen == [ring EXCEPT !.cq = Tail(@)]

\* The last submission is tried once: what it leaves is pushed by the next caller's.
OnWake ==
    /\ Completion("wake")
    /\ \E r \in Rearms(Push([Seen EXCEPT !.wakefd = FALSE], [op |-> "watch"]), timers) :
            ring' \in {Submitted(r)}
                \cup IF r.fails < MaxFails THEN {[r EXCEPT !.fails = @ + 1, !.stuck = r.sq # <<>>]} ELSE {}
    /\ UNCHANGED <<pollFds, timers, flight>>

OnTimeout ==
    /\ Completion("timeout")
    /\ LET due == {t \in timers : t.at <= now}
       IN  /\ timers' = timers \ due /\ flight' = Scheduled(Of(due))
           /\ ring' \in IF Head(ring.cq).id # ring.gen THEN {Seen}
                        ELSE Rearms([Seen EXCEPT !.armed = FALSE], timers')
    /\ UNCHANGED pollFds

OnPoll ==
    /\ Completion("poll")
    /\ pollFds' = {w \in pollFds : w.h # Head(ring.cq).id} /\ flight' = Scheduled({Head(ring.cq).id})
    /\ ring' = Seen /\ UNCHANGED timers

\* io_uring_wait_cqe fails: abandonWaiters
Abandon ==
    /\ ~dead /\ dead' = TRUE /\ flight' = Scheduled(Of(pollFds) \cup Of(timers))
    /\ pollFds' = {} /\ timers' = {}
    /\ UNCHANGED <<ring, backing, ready, now, owed, regs, asks>>

Loop == OnWake \/ OnTimeout \/ OnPoll
-----------------------------------------------------------------------------
(* The kernel completes what is ready, due or written to.                  *)

Kernel ==
    /\ \/ \E p \in ring.polls : /\ p.fd \in ready
             /\ ring' = [ring EXCEPT !.polls = @ \ {p}, !.cq = Append(@, [of |-> "poll", id |-> p.h])]
       \/ \E x \in ring.timeouts : /\ x.at <= now
             /\ ring' = [ring EXCEPT !.timeouts = @ \ {x}, !.cq = Append(@, [of |-> "timeout", id |-> x.gen])]
       \/ /\ ring.watch /\ ring.wakefd
          /\ ring' = [ring EXCEPT !.watch = FALSE, !.cq = Append(@, [of |-> "wake", id |-> 0])]
    /\ UNCHANGED <<pollFds, timers, backing, dead, ready, now, flight, owed, regs, asks>>

BecomeReady(fd) ==
    /\ fd \notin ready /\ ready' = ready \cup {fd}
    /\ UNCHANGED <<ring, pollFds, timers, backing, dead, now, flight, owed, regs, asks>>

Tick ==
    /\ now < MaxNow /\ now' = now + 1
    /\ UNCHANGED <<ring, pollFds, timers, backing, dead, ready, flight, owed, regs, asks>>

Resume(h) ==
    /\ flight[h] > 0 /\ flight' = [flight EXCEPT ![h] = @ - 1] /\ owed' = [owed EXCEPT ![h] = @ - 1]
    /\ UNCHANGED <<ring, pollFds, timers, backing, dead, ready, now, regs, asks>>

Next ==
    \/ Loop \/ Abandon \/ Kernel \/ Tick
    \/ \E h \in Handle : CancelWait(h) \/ CancelTimer(h) \/ BackOff(h) \/ Resume(h)
    \/ \E h \in Handle, fd \in Fd : RegisterWait(h, fd)
    \/ \E h \in Handle, d \in Duration : RegisterTimer(h, d)
    \/ \E fd \in Fd : BecomeReady(fd) \/ CancelFd(fd)

\* The loop and the kernel run, time passes, and a caller finishes its call.
Spec ==
    /\ Init /\ [][Next]_uringVars
    /\ WF_uringVars(Loop) /\ WF_uringVars(Kernel) /\ WF_uringVars(Tick)
    /\ \A h \in Handle : WF_uringVars(BackOff(h))
-----------------------------------------------------------------------------
\* Types of the tables; a handle waits for one thing.
TypeOK ==
    /\ \A w \in pollFds : w.h \in Handle /\ w.fd \in Fd
    /\ \A t \in timers : t.h \in Handle /\ t.at \in Nat
    /\ backing \subseteq Handle /\ ready \subseteq Fd /\ dead \in BOOLEAN
    /\ \A h \in Handle : Cardinality({w \in pollFds : w.h = h}) + Cardinality({t \in timers : t.h = h}) <= 1
    /\ \A h \in Handle : flight[h] \in Nat /\ owed[h] \in Nat

WakeComes ==
    \/ \E i \in DOMAIN ring.cq : ring.cq[i].of = "wake"
    \/ ring.wakefd /\ (ring.watch \/ \E i \in DOMAIN ring.sq : ring.sq[i].op = "watch")

(***************************************************************************)
(* What a failed submission left queued is pushed by the loop, which a     *)
(* poke is about to wake.  The exceptions are the loop's own submission    *)
(* after a wake, which is not repeated, and one that the kernel cuts short *)
(* a thousand times, which submitRetry does not report.                    *)
(***************************************************************************)
QueuedIsPushed == ring.sq # <<>> => dead \/ WakeComes \/ ring.stuck

\* The earliest sleep is served by a timeout no later than it, or a wake comes that arms one.
SleepersAreServed ==
    timers # {} =>
        \/ dead \/ WakeComes \/ ring.stuck
        \/ \E x \in ring.timeouts : x.gen = ring.gen /\ x.at <= First(timers)
        \/ \E i \in DOMAIN ring.cq : ring.cq[i] = [of |-> "timeout", id |-> ring.gen]

\* Who is ready or due is resumed, unless the loop's submission failed.
Overdue(h) ==
    \/ \E w \in pollFds : w.h = h /\ w.fd \in ready
    \/ \E t \in timers : t.h = h /\ t.at <= now
WaitersWake == \A h \in Handle : Overdue(h) ~> (~Overdue(h) \/ ring.stuck)

\* Every registered handle is resumed exactly once (the contract in Reactor.h).
Service == INSTANCE ReactorService WITH pending <- Of(pollFds) \cup Of(timers) \cup backing
ImplementsService == Service!ServiceSpec
OwedIsComing == Service!OwedIsComing
=============================================================================
