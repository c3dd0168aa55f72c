----------------------------- MODULE FiberPool ------------------------------
(***************************************************************************)
(* The scheduler: submission (Yarn::dispatch), the workers' loop           *)
(* (Fiber::process), parking and waking, growth and retirement of          *)
(* temporary fibers, the stall watchdog, and the shutdown of the pool      *)
(* (Yarn/src/Yarn.cpp, Yarn/src/Fiber.cpp).  The rings are the sequences   *)
(* that MPMCQueue and WorkStealingDeque implement; between two accesses to *)
(* shared state every other thread may run, in sequentially consistent     *)
(* order.                                                                  *)
(*                                                                         *)
(* A temporary fiber object lives once: unborn, live, retired.  parkSignal *)
(* only matters by whether it changed since park() read it (`bumped'); a   *)
(* bump outside park() leaves no trace.                                    *)
(***************************************************************************)
EXTENDS Naturals, Sequences, FiniteSets, SequencesExt

CONSTANTS
    Perm, Temp,         \* the permanent fibers, the temporary ones yet to be born
    Submitter,          \* threads outside the pool
    Task,               \* the tasks, numbers in the order of their submission
    Outside,            \* the tasks submitted from outside; the rest are spawned
    Spawns, Waits,      \* what each task submits when it runs; what it then blocks on
    InboxCap, DequeCap, InjectionCap, GrowAt,
    Watched,            \* whether the watchdog's thread can be started
    Closes,             \* whether the pool is shut down, by a thread outside it
    NoFiber, NoTask

Fiber == Perm \cup Temp
Thread == Fiber \cup Submitter

VARIABLES
    life, running, parked, claimed, bumped, inbox, deque,   \* per fiber
    wpc, hand,                                              \* the worker: where it is, its task
    injection, parkedWorkers, todo, done,                   \* todo: not submitted yet
    dpc, dtask, tgt, left, after, woke, drain,              \* each thread inside dispatch
    inl, tramp,                                             \* its inline task and tlsInlineDrainQueue
    armed, wdpc, stale,                                     \* the watchdog: nothing completed since its last tick
    down, halt, discarded                                   \* shutdownWorkers: its phase, whom to stop, what never runs

fiberVars == <<life, running, parked, claimed, bumped, inbox, deque>>
workVars == <<wpc, hand>>
poolVars == <<injection, parkedWorkers, todo, done>>
inlineVars == <<inl, tramp>>
sendVars == <<dpc, dtask, tgt, left, after, woke, drain, inlineVars>>
downVars == <<down, halt, discarded>>
dogVars == <<armed, wdpc, stale, downVars>>
vars == <<fiberVars, workVars, poolVars, sendVars, dogVars>>

Live == {f \in Fiber : life[f] = "live"}
Put(g, x, v) == [g EXCEPT ![x] = v]

Init ==
    /\ life = [f \in Fiber |-> IF f \in Perm THEN "live" ELSE "unborn"]
    /\ running = [f \in Fiber |-> TRUE]
    /\ parked = [f \in Fiber |-> FALSE]
    /\ claimed = [f \in Fiber |-> FALSE]
    /\ bumped = [f \in Fiber |-> FALSE]
    /\ inbox = [f \in Fiber |-> <<>>] /\ deque = [f \in Fiber |-> <<>>]
    /\ wpc = [f \in Fiber |-> "loop"] /\ hand = [f \in Fiber |-> NoTask]
    /\ injection = <<>> /\ parkedWorkers = 0 /\ todo = Task /\ done = {}
    /\ dpc = [h \in Thread |-> "none"] /\ dtask = [h \in Thread |-> NoTask]
    /\ tgt = [h \in Thread |-> NoFiber] /\ left = [h \in Thread |-> {}]
    /\ after = [h \in Thread |-> "end"] /\ woke = [h \in Thread |-> FALSE]
    /\ drain = [h \in Thread |-> {}]
    /\ inl = [h \in Thread |-> NoTask] /\ tramp = [h \in Thread |-> <<>>]
    /\ armed = FALSE /\ wdpc = "tick" /\ stale = FALSE
    /\ down = "up" /\ halt = {} /\ discarded = {}
-----------------------------------------------------------------------------
(* Yarn::dispatch, on thread h                                             *)

At(h, pc) == dpc[h] = pc
Go(h, pc) == dpc' = Put(dpc, h, pc)
InPark == {"publish", "check", "checkPeers", "wait", "asleep"}
Bump(f) == bumped' = Put(bumped, f, wpc[f] \in InPark)
\* A sleeper whose parkSignal changed returns from its wait.
Notify(f) == wpc' = IF wpc[f] = "asleep" /\ bumped'[f] THEN Put(wpc, f, "unpark") ELSE wpc

\* Enter dispatch with task t: a worker first tries its own deque, others take
\* the snapshot.  It has at most three fibers, so that all of them are probed.
Begin(h, t) ==
    /\ dtask' = Put(dtask, h, t)
    /\ tgt' = Put(tgt, h, NoFiber)
    /\ IF h \in Fiber THEN Go(h, "seed") /\ left' = Put(left, h, {})
       ELSE Go(h, "probe") /\ left' = Put(left, h, Live)

Submit(h) ==
    /\ h \in Submitter /\ At(h, "none") /\ down = "up"
    /\ \E t \in todo \cap Outside :
           /\ \A u \in todo \cap Outside : t <= u
           /\ todo' = todo \ {t}
           /\ Begin(h, t)
    /\ UNCHANGED <<fiberVars, workVars, injection, parkedWorkers, done, after, woke, drain, inlineVars, dogVars>>

\* Fiber::seed
Seed(h) ==
    /\ At(h, "seed")
    /\ IF running[h] /\ Len(deque[h]) < DequeCap
       THEN /\ deque' = Put(deque, h, Append(deque[h], dtask[h]))
            /\ after' = Put(after, h, "end")
            /\ dtask' = Put(dtask, h, NoTask)
            /\ Go(h, "wake") /\ UNCHANGED left
       ELSE Go(h, "probe") /\ left' = Put(left, h, Live) /\ UNCHANGED <<deque, after, dtask>>
    /\ UNCHANGED <<life, running, parked, claimed, bumped, inbox, workVars, poolVars,
                   tgt, woke, drain, inlineVars, dogVars>>

\* tryPushInbox: the first look at running
Probe(h) ==
    /\ At(h, "probe")
    /\ \/ /\ left[h] = {}
          /\ Go(h, "inject")
          /\ tgt' = Put(tgt, h, NoFiber) /\ UNCHANGED left
       \/ \E f \in left[h] :
              /\ left' = Put(left, h, left[h] \ {f})
              /\ tgt' = Put(tgt, h, f)
              /\ Go(h, IF running[f] THEN "push" ELSE "probe")
    /\ UNCHANGED <<fiberVars, workVars, poolVars, dtask, after, woke, drain, inlineVars, dogVars>>

\* Enqueue and bump parkSignal.
Push(h) ==
    /\ At(h, "push")
    /\ LET f == tgt[h] IN
       IF Len(inbox[f]) < InboxCap
       THEN /\ inbox' = Put(inbox, f, Append(inbox[f], dtask[h])) /\ Bump(f)
            /\ dtask' = Put(dtask, h, NoTask) /\ left' = Put(left, h, {}) /\ Go(h, "look")
       ELSE UNCHANGED <<inbox, bumped, dtask, left>> /\ Go(h, "probe")
    /\ UNCHANGED <<life, running, parked, claimed, deque, workVars, poolVars,
                   tgt, after, woke, drain, inlineVars, dogVars>>

\* Wake the target if it is parked, otherwise some idle peer.
Look(h) ==
    /\ At(h, "look")
    /\ UNCHANGED fiberVars
    /\ after' = Put(after, h, "end")
    /\ IF parked[tgt[h]] THEN Notify(tgt[h]) /\ Go(h, "end") ELSE UNCHANGED wpc /\ Go(h, "wake")
    /\ UNCHANGED <<hand, poolVars, dtask, tgt, left, woke, drain, inlineVars, dogVars>>

\* enqueueInjection
Inject(h) ==
    /\ At(h, "inject")
    /\ IF Len(injection) < InjectionCap
       THEN /\ injection' = Append(injection, dtask[h])
            /\ after' = Put(after, h, "backlog")
            /\ dtask' = Put(dtask, h, NoTask)
            /\ Go(h, "wake")
       ELSE Go(h, "grow") /\ UNCHANGED <<injection, after, dtask>>
    /\ UNCHANGED <<fiberVars, workVars, parkedWorkers, todo, done, tgt, left, woke, drain, inlineVars, dogVars>>

\* maybeGrowLocked, by thread h or by the watchdog: at most |Temp| fibers at a time.
CanGrow == down = "up" /\ \E f \in Temp : life[f] = "unborn"
Grow(f) == f \in Temp /\ life[f] = "unborn" /\ life' = Put(life, f, "live")

\* A published task nobody was woken for, and a backlog: add a fiber.
Backlog(h) ==
    /\ At(h, "backlog")
    /\ IF woke[h] \/ Len(injection) < GrowAt \/ ~CanGrow
       THEN UNCHANGED life
       ELSE \E f \in Temp : Grow(f)
    /\ Go(h, "end")
    /\ UNCHANGED <<running, parked, claimed, bumped, inbox, deque, workVars, poolVars,
                   dtask, tgt, left, after, woke, drain, inlineVars, dogVars>>

\* The injection queue is full: a new fiber's inbox, or run it here.
GrowFull(h) ==
    /\ At(h, "grow")
    /\ \/ /\ CanGrow
          /\ \E f \in Temp : Grow(f) /\ left' = Put(left, h, {}) /\ tgt' = Put(tgt, h, f)
          /\ Go(h, "pushGrown")
       \/ /\ ~CanGrow
          /\ Go(h, "inline")
          /\ UNCHANGED <<life, left, tgt>>
    /\ UNCHANGED <<running, parked, claimed, bumped, inbox, deque, workVars, poolVars,
                   dtask, after, woke, drain, inlineVars, dogVars>>

PushGrown(h) ==
    /\ At(h, "pushGrown")
    /\ LET f == tgt[h] IN
       IF running[f] /\ Len(inbox[f]) < InboxCap
       THEN /\ inbox' = Put(inbox, f, Append(inbox[f], dtask[h])) /\ Bump(f)
            /\ dtask' = Put(dtask, h, NoTask) /\ Go(h, "look")
       ELSE UNCHANGED <<inbox, bumped, dtask>> /\ Go(h, "inline")
    /\ UNCHANGED <<life, running, parked, claimed, deque, workVars, poolVars,
                   tgt, left, after, woke, drain, inlineVars, dogVars>>

\* The trampoline: inside an inline run the task is only noted.
Inline(h) ==
    /\ At(h, "inline")
    /\ IF inl[h] = NoTask
       THEN inl' = Put(inl, h, dtask[h]) /\ UNCHANGED tramp /\ Go(h, "inlineRun")
       ELSE tramp' = Put(tramp, h, Append(tramp[h], dtask[h])) /\ UNCHANGED inl /\ Go(h, "end")
    /\ dtask' = Put(dtask, h, NoTask)
    /\ UNCHANGED <<fiberVars, workVars, poolVars, tgt, left, after, woke, drain, dogVars>>

\* runInlineAndFree: submit what the task spawns, block on what it waits for,
\* then take the next noted task.
InlineRun(h) ==
    /\ At(h, "inlineRun")
    /\ \/ \E t \in todo \cap Spawns[inl[h]] :
              /\ todo' = todo \ {t}
              /\ Begin(h, t)
              /\ UNCHANGED <<done, inl, tramp>>
       \/ /\ todo \cap Spawns[inl[h]] = {} /\ Waits[inl[h]] \subseteq done
          /\ done' = done \cup {inl[h]}
          /\ IF tramp[h] = <<>>
             THEN inl' = Put(inl, h, NoTask) /\ UNCHANGED tramp /\ Go(h, "end")
             ELSE /\ inl' = Put(inl, h, tramp[h][Len(tramp[h])])
                  /\ tramp' = Put(tramp, h, SubSeq(tramp[h], 1, Len(tramp[h]) - 1))
                  /\ UNCHANGED dpc
          /\ UNCHANGED <<todo, dtask, tgt, left>>
    /\ UNCHANGED <<fiberVars, workVars, injection, parkedWorkers, after, woke, drain, dogVars>>

\* wdStop is not set.
Ticks == down \in {"up", "stop"}

\* wakeOneParked: make sure the watchdog watches if there is one, then claim a
\* parked fiber.
Wake(h) ==
    /\ At(h, "wake")
    /\ armed' = (armed \/ (Watched /\ Ticks))
    /\ LET sleepers == IF parkedWorkers = 0 THEN {} ELSE {f \in Live : parked[f] /\ ~claimed[f]} IN
       IF sleepers = {}
       THEN Go(h, after[h]) /\ woke' = Put(woke, h, FALSE) /\ UNCHANGED <<left, claimed>>
       ELSE \E f \in sleepers :
                /\ claimed' = Put(claimed, f, TRUE)
                /\ left' = Put(left, h, {f})
                /\ Go(h, "poke") /\ UNCHANGED woke
    /\ UNCHANGED <<life, running, parked, bumped, inbox, deque, workVars, poolVars,
                   dtask, tgt, after, drain, inlineVars, wdpc, stale, downVars>>

\* Fiber::poke
Poke(h) ==
    /\ At(h, "poke")
    /\ \E f \in left[h] :
           IF parked[f]
           THEN Bump(f) /\ Notify(f)
           ELSE UNCHANGED <<bumped, wpc>>
    /\ woke' = Put(woke, h, TRUE)
    /\ left' = Put(left, h, {})
    /\ Go(h, after[h])
    /\ UNCHANGED <<life, running, parked, claimed, inbox, deque, hand, poolVars,
                   dtask, tgt, after, drain, inlineVars, dogVars>>

\* A push that does not look at running again.
EndNoRecheck(h) ==
    /\ At(h, "end")
    /\ Go(h, IF inl[h] = NoTask THEN "none" ELSE "inlineRun")
    /\ tgt' = Put(tgt, h, NoFiber) /\ left' = Put(left, h, {})
    /\ after' = Put(after, h, "end") /\ woke' = Put(woke, h, FALSE)
    /\ UNCHANGED <<fiberVars, workVars, poolVars, dtask, drain, inlineVars, dogVars>>

\* The end of tryPushInbox and of dispatch: if the target retired meanwhile,
\* forward what is left in its inbox.
End(h) ==
    /\ At(h, "end")
    /\ LET d == drain[h] \cup {f \in {tgt[h]} \ {NoFiber} : ~running[f]}
           leftover == {f \in d : inbox[f] # <<>>} IN
       IF leftover # {}
       THEN \E f \in leftover :
                /\ inbox' = Put(inbox, f, Tail(inbox[f]))
                /\ Begin(h, Head(inbox[f]))
                /\ drain' = Put(drain, h, d)
       ELSE /\ drain' = Put(drain, h, {})
            /\ Go(h, IF inl[h] = NoTask THEN "none" ELSE "inlineRun")
            /\ tgt' = Put(tgt, h, NoFiber) /\ left' = Put(left, h, {})
            /\ UNCHANGED <<inbox, dtask>>
    /\ after' = Put(after, h, "end") /\ woke' = Put(woke, h, FALSE)
    /\ UNCHANGED <<life, running, parked, claimed, bumped, deque, workVars, poolVars, inlineVars, dogVars>>

Dispatch(h) ==
    \/ Seed(h) \/ Probe(h) \/ Push(h) \/ Look(h) \/ Inject(h) \/ Backlog(h)
    \/ GrowFull(h) \/ PushGrown(h) \/ Inline(h) \/ InlineRun(h)
    \/ Wake(h) \/ Poke(h) \/ End(h)
-----------------------------------------------------------------------------
(* Fiber::process, on the thread of fiber f                                *)

On(f, pc) == life[f] # "unborn" /\ dpc[f] = "none" /\ wpc[f] = pc
Move(f, pc) == wpc' = Put(wpc, f, pc)

\* Take the oldest inbox task, else the newest of the own deque, else go for
\* the injection queue.
Local(f) ==
    /\ On(f, "loop")
    /\ IF ~running[f] THEN Move(f, "exit") /\ UNCHANGED <<hand, inbox, deque>>
       ELSE IF inbox[f] # <<>>
       THEN /\ hand' = Put(hand, f, Head(inbox[f]))
            /\ inbox' = Put(inbox, f, Tail(inbox[f]))
            /\ Move(f, "run") /\ UNCHANGED deque
       ELSE IF deque[f] # <<>>
       THEN /\ hand' = Put(hand, f, deque[f][Len(deque[f])])
            /\ deque' = Put(deque, f, SubSeq(deque[f], 1, Len(deque[f]) - 1))
            /\ Move(f, "run") /\ UNCHANGED inbox
       ELSE Move(f, IF injection # <<>> THEN "refill" ELSE "steal") /\ UNCHANGED <<hand, inbox, deque>>
    /\ UNCHANGED <<life, running, parked, claimed, bumped, poolVars, sendVars, dogVars>>

\* run(): submit what the task spawns, block on what it waits for.  A task that is run
\* from the injection queue is not counted as completed (noteCompleted).
Run(f) ==
    /\ On(f, "run") \/ On(f, "runHere")
    /\ \/ \E t \in todo \cap Spawns[hand[f]] :
              /\ todo' = todo \ {t}
              /\ Begin(f, t)
              /\ UNCHANGED <<done, hand, wpc, stale>>
       \/ /\ todo \cap Spawns[hand[f]] = {} /\ Waits[hand[f]] \subseteq done
          /\ done' = done \cup {hand[f]} /\ stale' = (stale /\ wpc[f] = "runHere")
          /\ hand' = Put(hand, f, NoTask)
          /\ Move(f, "loop")
          /\ UNCHANGED <<todo, dpc, dtask, tgt, left>>
    /\ UNCHANGED <<fiberVars, injection, parkedWorkers, after, woke, drain, inlineVars, armed, wdpc, downVars>>

\* getFromPending: seed the own deque from the injection queue, with one wake
\* per task, until the queue is empty, the deque full or the fiber stopped.
Refill(f) ==
    /\ On(f, "refill")
    /\ IF injection = <<>>
       THEN Move(f, "loop") /\ UNCHANGED <<injection, deque, hand, dpc, after>>
       ELSE /\ injection' = Tail(injection)
            /\ IF running[f] /\ Len(deque[f]) < DequeCap
               THEN /\ deque' = Put(deque, f, Append(deque[f], Head(injection)))
                    /\ after' = Put(after, f, "end") /\ Go(f, "wake")
                    /\ UNCHANGED <<hand, wpc>>
               ELSE /\ hand' = Put(hand, f, Head(injection))
                    /\ Move(f, "requeue") /\ UNCHANGED <<deque, dpc, after>>
    /\ UNCHANGED <<life, running, parked, claimed, bumped, inbox, parkedWorkers, todo, done,
                   dtask, tgt, left, woke, drain, inlineVars, dogVars>>

\* It was not seeded: put the task back, or run it if the queue refilled.
Requeue(f) ==
    /\ On(f, "requeue")
    /\ IF Len(injection) < InjectionCap
       THEN /\ injection' = Append(injection, hand[f])
            /\ hand' = Put(hand, f, NoTask)
            /\ Move(f, "loop")
       ELSE Move(f, "runHere") /\ UNCHANGED <<injection, hand>>
    /\ UNCHANGED <<fiberVars, parkedWorkers, todo, done, sendVars, dogVars>>

\* stealFromPeers: the oldest of some peer's deque, else of its inbox.
HasWork(p) == inbox[p] # <<>> \/ deque[p] # <<>>
Steal(f) ==
    /\ On(f, "steal")
    /\ \/ /\ \A p \in Live \ {f} : ~HasWork(p)
          /\ Move(f, IF injection = <<>> THEN "idle" ELSE "loop")
          /\ UNCHANGED <<hand, inbox, deque>>
       \/ \E p \in Live \ {f} :
              /\ HasWork(p)
              /\ IF deque[p] # <<>>
                 THEN hand' = Put(hand, f, Head(deque[p])) /\ deque' = Put(deque, p, Tail(deque[p])) /\ UNCHANGED inbox
                 ELSE hand' = Put(hand, f, Head(inbox[p])) /\ inbox' = Put(inbox, p, Tail(inbox[p])) /\ UNCHANGED deque
              /\ Move(f, "run")
    /\ UNCHANGED <<life, running, parked, claimed, bumped, poolVars, sendVars, dogVars>>

\* Step 5 of the loop: a temporary fiber that stayed idle retires.
Retire(f) ==
    /\ On(f, "idle") /\ f \in Temp
    /\ running' = Put(running, f, FALSE)
    /\ Move(f, "drain")
    /\ UNCHANGED <<life, parked, claimed, bumped, inbox, deque, hand, poolVars, sendVars, dogVars>>

\* drainToPending, before signalDone and again after it.
DrainTo(f, next) ==
    /\ IF HasWork(f)
       THEN /\ IF inbox[f] # <<>>
               THEN Begin(f, Head(inbox[f])) /\ inbox' = Put(inbox, f, Tail(inbox[f])) /\ UNCHANGED deque
               ELSE /\ Begin(f, deque[f][Len(deque[f])])
                    /\ deque' = Put(deque, f, SubSeq(deque[f], 1, Len(deque[f]) - 1))
                    /\ UNCHANGED inbox
            /\ UNCHANGED wpc
       ELSE Move(f, next) /\ UNCHANGED <<dpc, dtask, tgt, left, inbox, deque>>
    /\ UNCHANGED <<life, running, parked, claimed, bumped, hand, poolVars,
                   after, woke, drain, inlineVars, dogVars>>

Drain(f) == On(f, "drain") /\ DrainTo(f, "done")
DrainAgain(f) == On(f, "again") /\ DrainTo(f, "exit")

SignalDone(f) ==
    /\ On(f, "done") /\ down # "stop"
    /\ life' = Put(life, f, "retired")
    /\ Move(f, "again")
    /\ UNCHANGED <<running, parked, claimed, bumped, inbox, deque, hand, poolVars, sendVars, dogVars>>

\* park(): read parkSignal, drop the old wake claim
ParkRead(f) ==
    /\ On(f, "idle")
    /\ bumped' = Put(bumped, f, FALSE)
    /\ claimed' = Put(claimed, f, FALSE)
    /\ Move(f, "publish")
    /\ UNCHANGED <<life, running, parked, inbox, deque, hand, poolVars, sendVars, dogVars>>

ParkPublish(f) ==
    /\ On(f, "publish")
    /\ parked' = Put(parked, f, TRUE)
    /\ parkedWorkers' = parkedWorkers + 1
    /\ Move(f, "check")
    /\ UNCHANGED <<life, running, claimed, bumped, inbox, deque, hand, injection, todo, done, sendVars, dogVars>>

\* A park that goes to sleep without looking again.
ParkCheckNot(f) ==
    /\ On(f, "check")
    /\ Move(f, "wait")
    /\ UNCHANGED <<fiberVars, hand, poolVars, sendVars, dogVars>>

\* haveWork(): the own queues and the injection queue, then the peers
ParkCheck(f) ==
    /\ On(f, "check")
    /\ Move(f, IF ~running[f] \/ HasWork(f) \/ injection # <<>> THEN "unpark" ELSE "checkPeers")
    /\ UNCHANGED <<fiberVars, hand, poolVars, sendVars, dogVars>>

ParkCheckPeers(f) ==
    /\ On(f, "checkPeers")
    /\ Move(f, IF \E p \in Live \ {f} : HasWork(p) THEN "unpark" ELSE "wait")
    /\ UNCHANGED <<fiberVars, hand, poolVars, sendVars, dogVars>>

\* The futex compares and sleeps in one step.
ParkWait(f) ==
    /\ On(f, "wait")
    /\ Move(f, IF bumped[f] THEN "unpark" ELSE "asleep")
    /\ UNCHANGED <<fiberVars, hand, poolVars, sendVars, dogVars>>

\* Only a temporary fiber's wait has a timeout.
ParkTimeout(f) ==
    /\ On(f, "asleep") /\ f \in Temp
    /\ Move(f, "unpark")
    /\ UNCHANGED <<fiberVars, hand, poolVars, sendVars, dogVars>>

\* A wake-up that stays counted as parked.
UnparkKeepsCount(f) ==
    /\ On(f, "unpark")
    /\ parked' = Put(parked, f, FALSE)
    /\ bumped' = Put(bumped, f, FALSE)
    /\ Move(f, "loop")
    /\ UNCHANGED <<life, running, claimed, inbox, deque, hand, poolVars, sendVars, dogVars>>

Unpark(f) ==
    /\ On(f, "unpark")
    /\ parked' = Put(parked, f, FALSE)
    /\ parkedWorkers' = parkedWorkers - 1
    /\ bumped' = Put(bumped, f, FALSE)
    /\ Move(f, "loop")
    /\ UNCHANGED <<life, running, claimed, inbox, deque, hand, injection, todo, done, sendVars, dogVars>>

Process(f) ==
    \/ Local(f) \/ Run(f) \/ Refill(f) \/ Requeue(f) \/ Steal(f)
    \/ Drain(f) \/ SignalDone(f) \/ DrainAgain(f)
    \/ ParkRead(f) \/ ParkPublish(f) \/ ParkCheck(f) \/ ParkCheckPeers(f) \/ ParkWait(f) \/ Unpark(f)

\* reap() and ~Fiber, once no snapshot holds the fiber: its place is free for
\* a new one.  (The code allocates a new object without waiting for this.)
Held(f) == \E h \in Thread : dpc[h] # "none" /\ (tgt[h] = f \/ f \in left[h] \/ f \in drain[h])
Reap(f) ==
    /\ life[f] = "retired" /\ down # "stop" /\ On(f, "exit") /\ ~Held(f) /\ ~HasWork(f)
    /\ life' = Put(life, f, "unborn")
    /\ running' = Put(running, f, TRUE)
    /\ claimed' = Put(claimed, f, FALSE)
    /\ bumped' = Put(bumped, f, FALSE)
    /\ Move(f, "loop")
    /\ UNCHANGED <<parked, inbox, deque, hand, poolVars, sendVars, dogVars>>
-----------------------------------------------------------------------------
(* Yarn::watchdogLoop: one tick looks for queued work, and for completions *)
(* since the tick before (kStallTicks of them in the code)                 *)

Outstanding == injection # <<>> \/ \E f \in Live : HasWork(f)

\* Nothing queued: disarm, then look again, for a producer that published
\* meanwhile saw the flag still set.
Idle ==
    /\ wdpc = "tick" /\ armed /\ Ticks /\ ~Outstanding
    /\ wdpc' = "disarm"
    /\ UNCHANGED <<fiberVars, workVars, poolVars, sendVars, armed, stale, downVars>>

\* A watchdog that trusts its first look.
DisarmForGood ==
    /\ wdpc = "disarm"
    /\ armed' = FALSE /\ wdpc' = "tick" /\ stale' = FALSE
    /\ UNCHANGED <<fiberVars, workVars, poolVars, sendVars, downVars>>

Disarm ==
    /\ wdpc = "disarm"
    /\ armed' = FALSE /\ wdpc' = "again"
    /\ UNCHANGED <<fiberVars, workVars, poolVars, sendVars, stale, downVars>>

LookAgain ==
    /\ wdpc = "again"
    /\ armed' = (armed \/ Outstanding)
    /\ wdpc' = "tick" /\ stale' = FALSE
    /\ UNCHANGED <<fiberVars, workVars, poolVars, sendVars, downVars>>

Progressed ==
    /\ wdpc = "tick" /\ armed /\ Ticks /\ Outstanding /\ ~stale
    /\ stale' = TRUE
    /\ UNCHANGED <<fiberVars, workVars, poolVars, sendVars, armed, wdpc, downVars>>

\* A stall resolved by poking the sleepers alone.
ResolveStallPokes ==
    /\ wdpc = "tick" /\ armed /\ Ticks /\ Outstanding /\ stale
    /\ bumped' = [f \in Fiber |-> bumped[f] \/ (f \in Live /\ parked[f] /\ wpc[f] \in InPark)]
    /\ wpc' = [f \in Fiber |-> IF f \in Live /\ wpc[f] = "asleep" THEN "unpark" ELSE wpc[f]]
    /\ UNCHANGED <<life, running, parked, claimed, inbox, deque, hand, poolVars, sendVars, dogVars>>

\* resolveStall: poke the sleepers, or add a fiber.
ResolveStall ==
    /\ wdpc = "tick" /\ armed /\ Ticks /\ Outstanding /\ stale
    /\ IF parkedWorkers > 0
       THEN /\ bumped' = [f \in Fiber |-> bumped[f] \/ (f \in Live /\ parked[f] /\ wpc[f] \in InPark)]
            /\ wpc' = [f \in Fiber |-> IF f \in Live /\ wpc[f] = "asleep" THEN "unpark" ELSE wpc[f]]
            /\ UNCHANGED life
       ELSE /\ IF CanGrow THEN \E f \in Temp : Grow(f) ELSE UNCHANGED life
            /\ UNCHANGED <<bumped, wpc>>
    /\ UNCHANGED <<running, parked, claimed, inbox, deque, hand, poolVars, sendVars, dogVars>>

Watchdog == Idle \/ Disarm \/ LookAgain \/ Progressed \/ ResolveStall
-----------------------------------------------------------------------------
(* Yarn::shutdownWorkers, on a thread outside the pool that is the last to *)
(* use it: no other one is in dispatch then or submits later               *)

\* Phase 1 begins: cmu is held, and from here on nobody grows.
ShutDown ==
    /\ Closes /\ down = "up" /\ \A h \in Submitter : dpc[h] = "none"
    /\ down' = "stop" /\ halt' = Live
    /\ UNCHANGED <<fiberVars, workVars, poolVars, sendVars, armed, wdpc, stale, discarded>>

\* Fiber::stop
Stop(f) ==
    /\ down = "stop" /\ f \in halt
    /\ running' = Put(running, f, FALSE)
    /\ Bump(f) /\ Notify(f)
    /\ halt' = halt \ {f}
    /\ UNCHANGED <<life, parked, claimed, inbox, deque, hand, poolVars, sendVars, armed, wdpc, stale, down, discarded>>

\* cmu is released; stopWatchdog sets wdStop.
StopWatchdog ==
    /\ down = "stop" /\ halt = {}
    /\ down' = "join"
    /\ UNCHANGED <<fiberVars, workVars, poolVars, sendVars, armed, wdpc, stale, halt, discarded>>

\* Every thread of the pool has been joined: ~Fiber and phase 4 fail what is still queued.
Discard ==
    /\ down = "join" /\ wdpc = "tick"
    /\ \A f \in Fiber : life[f] = "unborn" \/ On(f, "exit")
    /\ down' = "over"
    /\ discarded' = UNION {ToSet(inbox[f]) \cup ToSet(deque[f]) : f \in Fiber} \cup ToSet(injection)
    /\ inbox' = [f \in Fiber |-> <<>>] /\ deque' = [f \in Fiber |-> <<>>] /\ injection' = <<>>
    /\ UNCHANGED <<life, running, parked, claimed, bumped, workVars, parkedWorkers, todo, done,
                   sendVars, armed, wdpc, stale, halt>>

Closing == StopWatchdog \/ Discard \/ \E f \in Fiber : Stop(f)
-----------------------------------------------------------------------------
Next ==
    \/ \E h \in Submitter : Submit(h)
    \/ \E h \in Thread : Dispatch(h)
    \/ \E f \in Fiber : Process(f) \/ Retire(f) \/ ParkTimeout(f) \/ Reap(f)
    \/ Watchdog \/ ShutDown \/ Closing

\* Every thread runs, and tasks return unless they wait for another one; the
\* condition variables' timeouts expire.
Fairness ==
    /\ \A h \in Submitter : WF_vars(Submit(h))
    /\ \A h \in Thread : WF_vars(Dispatch(h))
    /\ \A f \in Fiber : WF_vars(Process(f))
    /\ \A f \in Temp : WF_vars(ParkTimeout(f)) /\ WF_vars(Reap(f))
    /\ WF_vars(Watchdog) /\ WF_vars(Closing)

Spec == Init /\ [][Next]_vars /\ Fairness
-----------------------------------------------------------------------------
TypeOK ==
    /\ life \in [Fiber -> {"unborn", "live", "retired"}] /\ \A f \in Perm : life[f] = "live"
    /\ \A f \in Fiber : Len(inbox[f]) <= InboxCap /\ Len(deque[f]) <= DequeCap
    /\ Len(injection) <= InjectionCap
    /\ hand \in [Fiber -> Task \cup {NoTask}] /\ dtask \in [Thread -> Task \cup {NoTask}]
    /\ parkedWorkers = Cardinality({f \in Fiber :
           wpc[f] \in {"check", "checkPeers", "wait", "asleep", "unpark"}})
    /\ done \subseteq Task /\ todo \subseteq Task
    /\ down \in {"up", "stop", "join", "over"} /\ halt \subseteq Fiber /\ discarded \subseteq Task

\* Where a task is while it is neither unsubmitted nor done.
Times(t, q) == Cardinality({i \in DOMAIN q : q[i] = t})
HeldBy(t) ==
    Cardinality({f \in Fiber : hand[f] = t}) + Cardinality({h \in Thread : dtask[h] = t})
    + Cardinality({h \in Thread : inl[h] = t \/ Times(t, tramp[h]) > 0})
QueuedIn(t, S) == {f \in Fiber : Times(t, S[f]) > 0}

\* A submitted task is in exactly one place until it has run or was discarded: no
\* queue, retiring fiber, refill, inline fallback or shutdown loses it or frees it twice.
OnePlaceEach ==
    \A t \in Task :
        Cardinality(QueuedIn(t, inbox)) + Cardinality(QueuedIn(t, deque)) + Times(t, injection) + HeldBy(t)
            = IF t \in todo \cup done \cup discarded THEN 0 ELSE 1

Busy == \E h \in Thread : dpc[h] # "none"
Queued == Outstanding \/ \E f \in Fiber : HasWork(f)

\* No lost wake-up: with no submission in progress, work is never queued while
\* every worker sleeps.  (Not counting on the watchdog.)
NoLostWakeup == down = "up" /\ ~Busy /\ Queued => \E f \in Fiber : life[f] # "unborn" /\ wpc[f] \notin {"asleep", "exit"}

\* A retired fiber nobody still holds keeps no task: the producer that raced with
\* its last drain forwards what it pushed (Fiber::tryPushInbox, the re-check).  And
\* none is left in a pool that was shut down: each was run or failed.
NothingStranded ==
    /\ \A f \in Fiber : life[f] = "retired" /\ wpc[f] = "exit" /\ ~Held(f) => ~HasWork(f)
    /\ down = "over" => Task \ todo = done \cup discarded /\ done \cap discarded = {}

\* A worker in a task that waits for one not done yet.
Blocked(f) == wpc[f] \in {"run", "runHere"} /\ todo \cap Spawns[hand[f]] = {} /\ ~(Waits[hand[f]] \subseteq done)

\* "Whoever publishes work makes sure the stall detector is watching it": work
\* queued behind blocked and sleeping workers only is watched (Yarn::wakeOneParked).
StallIsWatched ==
    (/\ down = "up" /\ ~Busy /\ Queued
     /\ \A f \in Fiber : life[f] # "unborn" => wpc[f] \in {"asleep", "exit"} \/ Blocked(f))
        => armed \/ wdpc # "tick"

\* Every task is run, also one queued behind the task that waits for it.
EveryTaskRuns == <>(done = Task)
=============================================================================
