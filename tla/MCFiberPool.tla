---------------------------- MODULE MCFiberPool -----------------------------
(***************************************************************************)
(* Six small pools over the same variables; `sys' says which one.         *)
(*   blocking   one worker, one temporary: task 1 spawns 2 and blocks on   *)
(*              it, so only the watchdog's fiber can run 2;                *)
(*   crowded    one worker, one temporary, three tasks, rings of one: the  *)
(*              injection queue fills and the pool grows; the thread of    *)
(*              the watchdog could not be started;                         *)
(*   saturated  one worker, no temporary, 4 spawns 7: tasks run inline, on *)
(*              the trampoline;                                            *)
(*   twoWorkers two workers: who wakes whom;                               *)
(*   closing    one worker, one temporary: task 1 spawns 2, and the pool   *)
(*              is shut down at any moment;                                *)
(*   behind     two workers, one temporary: 1 and 2 are from outside and 1 *)
(*              blocks on 2.                                               *)
(***************************************************************************)
EXTENDS Naturals, Sequences, FiniteSets

CONSTANTS p1, p2, q1, s1, NoFiber, NoTask

VARIABLES
    life, running, parked, claimed, bumped, inbox, deque, wpc, hand,
    injection, parkedWorkers, todo, done, dpc, dtask, tgt, left, after, woke, drain,
    inl, tramp, armed, wdpc, stale, down, halt, discarded, sys

Leaf(S) == [t \in S |-> {}]
OneOnTwo == [t \in 1..2 |-> IF t = 1 THEN {2} ELSE {}]

Blk == INSTANCE FiberPool WITH Perm <- {p1}, Temp <- {q1}, Submitter <- {s1}, Task <- 1..2,
           Outside <- {1}, Spawns <- OneOnTwo, Waits <- OneOnTwo,
           InboxCap <- 1, DequeCap <- 1, InjectionCap <- 1, GrowAt <- 1, Watched <- TRUE, Closes <- FALSE
Crw == INSTANCE FiberPool WITH Perm <- {p1}, Temp <- {q1}, Submitter <- {s1}, Task <- 1..3,
           Outside <- 1..3, Spawns <- Leaf(1..3), Waits <- Leaf(1..3),
           InboxCap <- 1, DequeCap <- 1, InjectionCap <- 1, GrowAt <- 1, Watched <- FALSE, Closes <- FALSE
Sat == INSTANCE FiberPool WITH Perm <- {p1}, Temp <- {}, Submitter <- {s1}, Task <- 1..7,
           Outside <- 1..6, Spawns <- [Leaf(1..7) EXCEPT ![4] = {7}], Waits <- Leaf(1..7),
           InboxCap <- 1, DequeCap <- 1, InjectionCap <- 1, GrowAt <- 1, Watched <- TRUE, Closes <- FALSE
Two == INSTANCE FiberPool WITH Perm <- {p1, p2}, Temp <- {}, Submitter <- {s1}, Task <- 1..2,
           Outside <- 1..2, Spawns <- Leaf(1..2), Waits <- Leaf(1..2),
           InboxCap <- 1, DequeCap <- 1, InjectionCap <- 1, GrowAt <- 1, Watched <- TRUE, Closes <- FALSE
Clo == INSTANCE FiberPool WITH Perm <- {p1}, Temp <- {q1}, Submitter <- {s1}, Task <- 1..2,
           Outside <- {1}, Spawns <- OneOnTwo, Waits <- Leaf(1..2),
           InboxCap <- 1, DequeCap <- 1, InjectionCap <- 1, GrowAt <- 1, Watched <- TRUE, Closes <- TRUE
Beh == INSTANCE FiberPool WITH Perm <- {p1, p2}, Temp <- {q1}, Submitter <- {s1}, Task <- 1..2,
           Outside <- 1..2, Spawns <- Leaf(1..2), Waits <- OneOnTwo,
           InboxCap <- 2, DequeCap <- 2, InjectionCap <- 2, GrowAt <- 1, Watched <- TRUE, Closes <- FALSE

vars == <<Blk!vars, sys>>
OfBlk == sys = "blocking" /\ UNCHANGED sys
OfCrw == sys = "crowded" /\ UNCHANGED sys
OfSat == sys = "saturated" /\ UNCHANGED sys
OfTwo == sys = "twoWorkers" /\ UNCHANGED sys
OfClo == sys = "closing" /\ UNCHANGED sys
OfBeh == sys = "behind" /\ UNCHANGED sys

Init ==
    \/ sys = "blocking" /\ Blk!Init
    \/ sys = "crowded" /\ Crw!Init
    \/ sys = "saturated" /\ Sat!Init
    \/ sys = "twoWorkers" /\ Two!Init
    \/ sys = "closing" /\ Clo!Init

Next ==
    \/ OfBlk /\ Blk!Next
    \/ OfCrw /\ Crw!Next
    \/ OfSat /\ Sat!Next
    \/ OfTwo /\ Two!Next
    \/ OfClo /\ Clo!Next

\* FiberPool's fairness, of the pool in which a task blocks and of the one that is
\* shut down: one condition a thread, which is either inside dispatch or outside it.
Thread(h) ==
    \/ OfBlk /\ Blk!Dispatch(h)
    \/ OfBlk /\ h = s1 /\ Blk!Submit(h)
    \/ OfBlk /\ h # s1 /\ (Blk!Process(h) \/ Blk!ParkTimeout(h) \/ Blk!Reap(h))
    \/ OfClo /\ Clo!Dispatch(h)
    \/ OfClo /\ h = s1 /\ Clo!Submit(h)
    \/ OfClo /\ h # s1 /\ (Clo!Process(h) \/ Clo!ParkTimeout(h) \/ Clo!Reap(h))
Watchdog == (OfBlk /\ Blk!Watchdog) \/ (OfClo /\ Clo!Watchdog)

Spec ==
    /\ Init /\ [][Next]_vars
    /\ \A h \in {s1, p1, q1} : WF_vars(Thread(h))
    /\ WF_vars(Watchdog) /\ WF_vars(OfClo /\ Clo!Closing)
BehindSpec == sys = "behind" /\ Beh!Init /\ [][OfBeh /\ Beh!Next]_vars
-----------------------------------------------------------------------------
\* Each property of FiberPool, of the pool that is running.
TypeOK ==
    /\ sys = "blocking" => Blk!TypeOK
    /\ sys = "crowded" => Crw!TypeOK
    /\ sys = "saturated" => Sat!TypeOK
    /\ sys = "twoWorkers" => Two!TypeOK
    /\ sys = "closing" => Clo!TypeOK

\* A submitted task is in exactly one place until it has run, and that place is
\* not a retired fiber that nobody holds any more.
OnePlaceEach ==
    /\ sys = "blocking" => Blk!OnePlaceEach /\ Blk!NothingStranded
    /\ sys = "crowded" => Crw!OnePlaceEach /\ Crw!NothingStranded
    /\ sys = "saturated" => Sat!OnePlaceEach
    /\ sys = "twoWorkers" => Two!OnePlaceEach
    /\ sys = "closing" => Clo!OnePlaceEach /\ Clo!NothingStranded

\* Work is never queued while every worker sleeps and nobody is about to wake one.
NoLostWakeup ==
    /\ sys = "blocking" => Blk!NoLostWakeup
    /\ sys = "crowded" => Crw!NoLostWakeup
    /\ sys = "saturated" => Sat!NoLostWakeup
    /\ sys = "twoWorkers" => Two!NoLostWakeup

\* Work behind blocked and sleeping workers only is watched by the stall detector.
StallIsWatched == (sys = "blocking" => Blk!StallIsWatched) /\ (sys = "behind" => Beh!StallIsWatched)

\* Every task is run, also one queued behind the task that blocks on it, and then
\* the watchdog disarms; and a shutdown comes to its end.
EveryTaskRuns ==
    (sys = "blocking" \/ down = "stop") ~>
        (sys = "blocking" /\ done = 1..2 /\ ~armed) \/ down = "over"
=============================================================================
