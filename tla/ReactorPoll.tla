---------------------------- MODULE ReactorPoll -----------------------------
(***************************************************************************)
(* The Windows readiness thread of the Reactor (Yarn/src/Reactor.cpp): it  *)
(* takes all registrations out of the shared list, applies the             *)
(* cancellations that came too late for the list, polls its private copy,  *)
(* and puts back what was not ready.  Whoever cancels meanwhile cannot see *)
(* the registration and leaves a request, which must reach it and no later *)
(* one on the same handle.  Every section under pollMu is one step, with   *)
(* the scheduling and the wake datagram that follow it.                    *)
(***************************************************************************)
EXTENDS Naturals, FiniteSets, FiniteSetsExt

CONSTANTS
    Handle, Sock,
    Duration,       \* of a sleep
    MinHeap,        \* kMinHeap of compactTimersLocked
    MaxFailures,    \* kMaxPollFailures
    MaxRegs, MaxCancels, MaxNow, MaxLost    \* bounds: registrations, cancels, the clock, lost datagrams

VARIABLES
    pending, cancels,   \* WindowsState: registrations; requests for the poll thread
    heap, live,         \* its timers, and the id of the live entry of each handle (0: none)
    seq,                \* nextRegSeq and nextTimerId
    dead,
    active,             \* the poll thread's own registrations
    loop,               \* snapshot, poll, putback, dying or exited
    until,              \* when WSAPoll gives up (MaxNow + 1: after kPollMaxTimeoutMs)
    failures,           \* in a row
    wake,               \* a datagram is in the wake socket
    ready,              \* sockets that are ready
    now,
    flight, owed,       \* resumptions on their way; registrations not resumed yet
    budget              \* cancels and losses so far

tables == <<pending, cancels, heap, live, seq, dead>>
thread == <<active, loop, until, failures>>
pollVars == <<tables, thread, wake, ready, now, flight, owed, budget>>

Any == "any"
Far == MaxNow + 1

Init ==
    /\ pending = {} /\ cancels = {} /\ heap = {} /\ live = [h \in Handle |-> 0] /\ seq = 0 /\ dead = FALSE
    /\ active = {} /\ loop = "snapshot" /\ until = Far /\ failures = 0 /\ wake = FALSE
    /\ ready = {} /\ now = 0
    /\ flight = [h \in Handle |-> 0] /\ owed = [h \in Handle |-> 0]
    /\ budget = [cancels |-> 0, lost |-> 0]

\* Reactor::schedule
Scheduled(S) == [h \in Handle |-> IF h \in S THEN flight[h] + 1 ELSE flight[h]]
Of(regs) == {r.h : r \in regs}

\* sendto on the wake socket, best effort
Poke(cost) ==
    \/ wake' = TRUE /\ budget' = [budget EXCEPT !.cancels = @ + cost]
    \/ /\ budget.lost < MaxLost /\ UNCHANGED wake
       /\ budget' = [budget EXCEPT !.cancels = @ + cost, !.lost = @ + 1]

IsLive(e) == live[e.h] = e.id
Sleeping == {h \in Handle : live[h] # 0}

\* compactTimersLocked
Compacted(es, l) ==
    LET kept == {e \in es : l[e.h] = e.id}
    IN  IF Cardinality(es) < MinHeap \/ Cardinality(es) <= 2 * Cardinality(kept) THEN es ELSE kept
-----------------------------------------------------------------------------
(* Callers.  A handle is the address of a wait proxy, which waits once at  *)
(* a time; cancels may come for a wait that is over.                       *)

Owe(h) == owed' = [owed EXCEPT ![h] = @ + 1]

RegisterWait(h, s) ==
    /\ owed[h] = 0 /\ seq < MaxRegs /\ Owe(h)
    /\ IF dead THEN flight' = Scheduled({h}) /\ UNCHANGED <<pending, seq, wake, budget>>
       ELSE /\ seq' = seq + 1 /\ pending' = pending \cup {[h |-> h, sock |-> s, seq |-> seq + 1]}
            /\ UNCHANGED flight /\ Poke(0)
    /\ UNCHANGED <<cancels, heap, live, dead, thread, ready, now>>

\* What is not tracked (the thread is dead, the handle has a timer already, out of memory)
\* is scheduled at once; compactTimersLocked may find no memory either, and is skipped.
RegisterTimer(h, d) ==
    /\ owed[h] = (IF live[h] = 0 THEN 0 ELSE 1) /\ seq < MaxRegs /\ Owe(h)
    /\ \/ flight' = Scheduled({h}) /\ UNCHANGED <<heap, live, seq, wake, budget>>
       \/ /\ ~dead /\ live[h] = 0
          /\ seq' = seq + 1 /\ live' = [live EXCEPT ![h] = seq + 1]
          /\ LET with == heap \cup {[h |-> h, id |-> seq + 1, at |-> now + d]}
             IN  heap' \in {with, Compacted(with, live')}
          /\ UNCHANGED flight /\ Poke(0)
    /\ UNCHANGED <<pending, cancels, dead, thread, ready, now>>

\* A request that says nothing of when it was made.
RequestTimeless(h, s) == [h |-> h, sock |-> s, upTo |-> MaxRegs, made |-> seq]

\* CancelRequest; "made" remembers for the properties when it was.
Request(h, s) == [h |-> h, sock |-> s, upTo |-> seq, made |-> seq]

CancelWait(h) ==
    /\ budget.cancels < MaxCancels
    /\ LET mine == {r \in pending : r.h = h}
       IN  IF mine # {}
           THEN /\ pending' = pending \ mine /\ flight' = Scheduled({h})
                /\ budget' = [budget EXCEPT !.cancels = @ + 1] /\ UNCHANGED <<cancels, wake>>
           ELSE cancels' = cancels \cup {Request(h, Any)} /\ Poke(1) /\ UNCHANGED <<pending, flight>>
    /\ UNCHANGED <<heap, live, seq, dead, thread, ready, now, owed>>

CancelTimer(h) ==
    /\ budget.cancels < MaxCancels /\ live[h] # 0 /\ budget' = [budget EXCEPT !.cancels = @ + 1]
    /\ live' = [live EXCEPT ![h] = 0] /\ heap' \in {heap, Compacted(heap, live')}
    /\ flight' = Scheduled({h})
    /\ UNCHANGED <<pending, cancels, seq, dead, thread, wake, ready, now, owed>>

CancelFd(s) ==
    /\ budget.cancels < MaxCancels
    /\ LET hit == {r \in pending : r.sock = s}
       IN  pending' = pending \ hit /\ flight' = Scheduled(Of(hit))
    /\ cancels' = cancels \cup {Request(Any, s)} /\ Poke(1)
    /\ UNCHANGED <<heap, live, seq, dead, thread, ready, now, owed>>
-----------------------------------------------------------------------------
(* run()                                                                   *)

Reaches(c, r) == r.seq <= c.upTo /\ (IF c.h = Any THEN r.sock = c.sock ELSE r.h = c.h)

\* Take the list and the requests, fire the due timers, compute the timeout; then apply
\* the requests to what is now the thread's own.
Snapshot ==
    /\ loop = "snapshot" /\ loop' = "poll"
    /\ LET due == {e \in heap : e.at <= now}
           fired == {e.h : e \in {x \in due : IsLive(x)}}
           hit == {r \in pending : \E c \in cancels : Reaches(c, r)}
       IN  /\ heap' = heap \ due
           /\ live' = [h \in Handle |-> IF h \in fired THEN 0 ELSE live[h]]
           /\ until' = IF heap' = {} THEN Far ELSE Min({e.at : e \in heap'})
           /\ active' = pending \ hit /\ flight' = Scheduled(fired \cup Of(hit))
    /\ pending' = {} /\ cancels' = {}
    /\ UNCHANGED <<seq, dead, failures, wake, ready, now, owed, budget>>

\* WSAPoll returns: the wake socket is drained, and who is ready scheduled.
Poll ==
    /\ loop = "poll" /\ loop' = "putback"
    /\ wake \/ until <= now \/ until = Far \/ \E r \in active : r.sock \in ready
    /\ wake' = FALSE /\ failures' = 0
    /\ LET hit == {r \in active : r.sock \in ready}
       IN  active' = active \ hit /\ flight' = Scheduled(Of(hit))
    /\ UNCHANGED <<tables, until, ready, now, owed, budget>>

\* An error: everything goes back to the list, until there are too many in a row.
PollFails ==
    /\ loop = "poll" /\ failures' = failures + 1
    /\ loop' = IF failures + 1 >= MaxFailures THEN "dying" ELSE "putback"
    /\ UNCHANGED <<tables, active, until, wake, ready, now, flight, owed, budget>>

PutBack ==
    /\ loop = "putback" /\ loop' = "snapshot"
    /\ pending' = pending \cup active /\ active' = {}
    /\ UNCHANGED <<cancels, heap, live, seq, dead, until, failures, wake, ready, now, flight, owed, budget>>

\* The thread gives up: its own waiters first, then those on the list and the sleepers.
Orphan ==
    /\ loop = "dying" /\ active # {} /\ active' = {} /\ flight' = Scheduled(Of(active))
    /\ UNCHANGED <<tables, loop, until, failures, wake, ready, now, owed, budget>>

Die ==
    /\ loop = "dying" /\ active = {} /\ loop' = "exited" /\ dead' = TRUE
    /\ flight' = Scheduled(Of(pending) \cup Sleeping)
    /\ pending' = {} /\ heap' = {} /\ live' = [h \in Handle |-> 0]
    /\ UNCHANGED <<cancels, seq, active, until, failures, wake, ready, now, owed, budget>>
-----------------------------------------------------------------------------
Resume(h) ==
    /\ flight[h] > 0 /\ flight' = [flight EXCEPT ![h] = @ - 1] /\ owed' = [owed EXCEPT ![h] = @ - 1]
    /\ UNCHANGED <<tables, thread, wake, ready, now, budget>>

BecomeReady(s) ==
    /\ s \notin ready /\ ready' = ready \cup {s}
    /\ UNCHANGED <<tables, thread, wake, now, flight, owed, budget>>

Tick ==
    /\ now < MaxNow /\ now' = now + 1
    /\ UNCHANGED <<tables, thread, wake, ready, flight, owed, budget>>

Loop == Snapshot \/ Poll \/ PollFails \/ PutBack \/ Orphan \/ Die

Next ==
    \/ Loop \/ Tick
    \/ \E h \in Handle : CancelWait(h) \/ CancelTimer(h) \/ Resume(h)
    \/ \E h \in Handle, s \in Sock : RegisterWait(h, s)
    \/ \E h \in Handle, d \in Duration : RegisterTimer(h, d)
    \/ \E s \in Sock : BecomeReady(s) \/ CancelFd(s)

\* The thread runs and time passes.
Spec == Init /\ [][Next]_pollVars /\ WF_pollVars(Loop) /\ WF_pollVars(Tick)
-----------------------------------------------------------------------------
\* Types of the tables and of the thread's own state.
TypeOK ==
    /\ \A r \in pending \cup active : r.h \in Handle /\ r.sock \in Sock /\ r.seq \in 1..seq
    /\ \A c \in cancels : c.upTo \in 0..MaxRegs /\ (c.h \in Handle \/ c.h = Any)
    /\ \A e \in heap : e.h \in Handle /\ e.id \in 1..seq
    /\ live \in [Handle -> 0..seq] /\ dead \in BOOLEAN /\ failures \in 0..MaxFailures
    /\ loop \in {"snapshot", "poll", "putback", "dying", "exited"}
    /\ \A h \in Handle : flight[h] \in Nat /\ owed[h] \in Nat

(***************************************************************************)
(* A request reaches only registrations that were made before it: "a later *)
(* one on the same handle address is new" (CancelRequest::upTo).           *)
(***************************************************************************)
RequestsAreOld ==
    [][\A r \in pending : (loop = "snapshot" /\ loop' = "poll" /\ r \notin active')
            => \E c \in cancels : Reaches(c, r) /\ r.seq <= c.made]_pollVars

\* The thread does not sleep past a deadline or a registration it has not seen, unless
\* the datagram was lost, and then no longer than WSAPoll's longest timeout.
NeverOverslept ==
    loop = "poll" => wake \/ budget.lost > 0 \/ (pending = {} /\ cancels = {} /\ \A e \in heap : IsLive(e) => until <= e.at)

\* Who is ready, due or cancelled is resumed.
Overdue(h) ==
    \/ \E r \in pending \cup active : r.h = h /\ (r.sock \in ready \/ \E c \in cancels : Reaches(c, r))
    \/ \E e \in heap : e.h = h /\ IsLive(e) /\ e.at <= now
WaitersWake == \A h \in Handle : Overdue(h) ~> ~Overdue(h)

\* Every registered handle is resumed exactly once (the contract in Reactor.h).
Service == INSTANCE ReactorService WITH pending <- Of(pending \cup active) \cup Sleeping
ImplementsService == Service!ServiceSpec
OwedIsComing == Service!OwedIsComing
=============================================================================
