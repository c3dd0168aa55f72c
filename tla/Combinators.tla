---------------------------- MODULE Combinators -----------------------------
(***************************************************************************)
(* whenAny, whenAll and withTimeout (Yarn/includes), each a specification  *)
(* of its own: a caller that spawns runners and parks until their outcome  *)
(* is published.                                                           *)
(***************************************************************************)
EXTENDS Naturals, FiniteSets

CONSTANTS Branch, Nobody

VARIABLES
    join,           \* the joined form of whenAny and withTimeout?
    caller,         \* where the caller stands
    todo,           \* the branches not spawned yet
    runner,         \* where each branch's runner stands, or withTimeout's only one
    stop,           \* the branches have been told to stop
    finished, published, waiter, outcome,   \* WhenAnyState, TimeoutState
    remaining,      \* of WhenAnyState, and the latch of whenAll
    results,        \* whenAll: the branches whose result or exception is recorded
    waiterAddr, failed,
    timer, runnerDone, timeoutRecorded,     \* withTimeout
    resumes         \* history: how often the caller's frame was resumed

\* A branch that ends late never resumes a caller whose frame was destroyed.
GoneStep == caller = "gone" => caller' = "gone" /\ resumes' = resumes
-----------------------------------------------------------------------------
(***************************************************************************)
(* whenAny (Yarn/includes/WhenAny.h): one detached runner per branch; the  *)
(* first to flip `finished' writes the outcome and stops the others.  The  *)
(* caller resumes when the outcome is published: by the winner, or, with   *)
(* joinLosers, by the last runner.  The caller parks in a WhenAnyAwaiter,  *)
(* and its frame may be destroyed there.                                   *)
(***************************************************************************)
anyVars == <<join, caller, todo, runner, finished, published, waiter, stop, remaining, outcome, resumes>>
anyFixed == <<join, todo>>

AnyInit ==
    /\ join \in BOOLEAN
    /\ caller = "spawning" /\ todo = Branch
    /\ runner = [b \in Branch |-> "none"]
    /\ finished = FALSE /\ published = FALSE /\ waiter = FALSE /\ stop = FALSE
    /\ remaining = Cardinality(Branch) /\ outcome = Nobody /\ resumes = 0

AnySpawn(b) ==
    /\ caller = "spawning" /\ b \in todo /\ todo' = todo \ {b}
    /\ caller' = IF todo' = {} THEN "awaiting" ELSE "spawning"
    /\ runner' = [runner EXCEPT ![b] = "running"]
    /\ UNCHANGED <<join, finished, published, waiter, stop, remaining, outcome, resumes>>

\* The pool refuses a branch: failWhenAny, before the caller can have parked
FailWhenAny ==
    /\ caller = "spawning" /\ caller' = "awaiting" /\ todo' = {}
    /\ finished' = TRUE
    /\ stop' = (stop \/ ~finished)
    /\ outcome' = IF finished THEN outcome ELSE "spawn failed"
    /\ remaining' = IF join THEN remaining - Cardinality(todo) ELSE remaining
    /\ published' = (published \/ IF join THEN remaining' = 0 ELSE ~finished)
    /\ UNCHANGED <<join, runner, waiter, resumes>>

\* A branch returns, throws, or unwinds because its scope was stopped.
AnyFinish(b) ==
    /\ runner[b] = "running" /\ runner' = [runner EXCEPT ![b] = "ended"]
    /\ UNCHANGED <<anyFixed, caller, finished, published, waiter, stop, remaining, outcome, resumes>>

AnyExchange(b) ==
    /\ runner[b] = "ended"
    /\ runner' = [runner EXCEPT ![b] = IF finished THEN "lost" ELSE "won"]
    /\ finished' = TRUE
    /\ UNCHANGED <<anyFixed, caller, published, waiter, stop, remaining, outcome, resumes>>

AnyWrite(b) ==
    /\ runner[b] = "won" /\ runner' = [runner EXCEPT ![b] = "settling"]
    /\ stop' = TRUE /\ outcome' = b
    /\ UNCHANGED <<anyFixed, caller, finished, published, waiter, remaining, resumes>>

\* publishWhenAny: a parked caller is resumed.
AnyPublish ==
    /\ published' = TRUE /\ waiter' = FALSE
    /\ IF waiter THEN caller' = "returned" /\ resumes' = resumes + 1 ELSE UNCHANGED <<caller, resumes>>

\* settleRunner; the runner's value dies before it
AnySettle(b) ==
    /\ runner[b] \in {"settling", "lost"}
    /\ remaining' = IF join THEN remaining - 1 ELSE remaining
    /\ runner' = [runner EXCEPT ![b] =
           IF IF join THEN remaining' = 0 ELSE @ = "settling" THEN "publishing" ELSE "done"]
    /\ UNCHANGED <<anyFixed, caller, finished, published, waiter, stop, outcome, resumes>>

AnyRunnerPublish(b) ==
    /\ runner[b] = "publishing" /\ runner' = [runner EXCEPT ![b] = "done"]
    /\ AnyPublish
    /\ UNCHANGED <<anyFixed, finished, stop, remaining, outcome>>

\* await_ready and await_suspend
AnyAwait ==
    /\ caller = "awaiting"
    /\ IF published THEN caller' = "returned" /\ resumes' = resumes + 1 /\ UNCHANGED waiter
       ELSE caller' = "parked" /\ waiter' = TRUE /\ UNCHANGED resumes
    /\ UNCHANGED <<anyFixed, runner, finished, published, stop, remaining, outcome>>

\* ~WhenAnyAwaiter of a parked caller
AnyDestroy ==
    /\ caller = "parked" /\ caller' = "gone"
    /\ waiter' = FALSE /\ stop' = TRUE
    /\ UNCHANGED <<anyFixed, runner, finished, published, remaining, outcome, resumes>>

\* The scope of a caller that has not returned is stopped, and with it every branch's.
AnyStopScope ==
    /\ caller \in {"spawning", "awaiting", "parked"} /\ ~stop /\ stop' = TRUE
    /\ UNCHANGED <<anyFixed, caller, runner, finished, published, waiter, remaining, outcome, resumes>>

AnyRunner(b) == AnyFinish(b) \/ AnyExchange(b) \/ AnyWrite(b) \/ AnySettle(b) \/ AnyRunnerPublish(b)
AnyNext == FailWhenAny \/ AnyAwait \/ AnyDestroy \/ AnyStopScope \/ \E b \in Branch : AnySpawn(b) \/ AnyRunner(b)
AnyProgress == AnyAwait \/ \E b \in Branch : AnySpawn(b) \/ AnyRunner(b)
AnySpec == AnyInit /\ [][AnyNext]_anyVars /\ WF_anyVars(AnyProgress)

\* The states of the caller and the runners, and a count that never wraps.
AnyTypeOK ==
    /\ join \in BOOLEAN /\ caller \in {"spawning", "awaiting", "parked", "returned", "gone"}
    /\ runner \in [Branch -> {"none", "running", "ended", "won", "lost", "publishing", "settling", "done"}]
    /\ remaining \in 0..Cardinality(Branch)

\* The caller sees a complete outcome, resumes once, and, in the joined form, only
\* when every branch is gone ("results included"); when it resumes, every other
\* branch has been told to stop.
RaceSettled ==
    caller = "returned" =>
        /\ outcome # Nobody /\ resumes = 1 /\ stop
        /\ join => \A b \in Branch : runner[b] \in {"none", "done"}
-----------------------------------------------------------------------------
(***************************************************************************)
(* whenAll (Yarn/includes/WhenAll.h): a latch with one slot per runner and *)
(* one for the awaiter; whoever takes the last slot lets the caller go on. *)
(***************************************************************************)
allVars == <<caller, todo, runner, results, remaining, waiterAddr, stop, failed, resumes>>

AllInit ==
    /\ caller = "spawning" /\ todo = Branch
    /\ runner = [b \in Branch |-> "none"] /\ results = {}
    /\ remaining = Cardinality(Branch) + 1
    /\ waiterAddr = FALSE /\ stop = FALSE /\ failed = FALSE /\ resumes = 0

AllSpawn(b) ==
    /\ caller = "spawning" /\ b \in todo /\ todo' = todo \ {b}
    /\ caller' = IF todo' = {} THEN "awaiting" ELSE "spawning"
    /\ runner' = [runner EXCEPT ![b] = "running"]
    /\ UNCHANGED <<results, remaining, waiterAddr, stop, failed, resumes>>

\* Spawning fails part-way: the slots of the missing runners are settled.
AllFailSpawn ==
    /\ caller = "spawning" /\ caller' = "awaiting" /\ todo' = {}
    /\ failed' = TRUE /\ remaining' = remaining - Cardinality(todo)
    /\ UNCHANGED <<runner, results, waiterAddr, stop, resumes>>

\* The branch ends: its result, or the first exception, is recorded.
AllStore(b) ==
    /\ runner[b] = "running" /\ runner' = [runner EXCEPT ![b] = "stored"]
    /\ results' = results \cup {b}
    /\ \E throws \in BOOLEAN : failed' = (failed \/ throws)
    /\ UNCHANGED <<caller, todo, remaining, waiterAddr, stop, resumes>>

CompleteOne(b) ==
    /\ runner[b] = "stored" /\ remaining' = remaining - 1
    /\ runner' = [runner EXCEPT ![b] = IF remaining' = 0 THEN "last" ELSE "done"]
    /\ UNCHANGED <<caller, todo, results, waiterAddr, stop, failed, resumes>>

\* resumeWaiter: nobody is there if the caller's frame was destroyed.
ResumeWaiter(b) ==
    /\ runner[b] = "last" /\ runner' = [runner EXCEPT ![b] = "done"]
    /\ waiterAddr' = FALSE
    /\ IF waiterAddr THEN caller' = "returned" /\ resumes' = resumes + 1 ELSE UNCHANGED <<caller, resumes>>
    /\ UNCHANGED <<todo, results, remaining, stop, failed>>

\* await_ready; then await_suspend publishes the proxy ...
AllAwait ==
    /\ caller = "awaiting"
    /\ \/ /\ remaining <= 1 /\ caller' = "returned" /\ resumes' = resumes + 1
          /\ UNCHANGED waiterAddr
       \/ /\ remaining > 1 /\ caller' = "published" /\ waiterAddr' = TRUE
          /\ UNCHANGED resumes
    /\ UNCHANGED <<todo, runner, results, remaining, stop, failed>>

\* ... leaves it there when its own slot was the last ...
AllSuspendLeaves ==
    /\ caller = "published" /\ remaining' = remaining - 1
    /\ caller' = "parked"
    /\ UNCHANGED <<todo, runner, results, waiterAddr, stop, failed, resumes>>

\* ... and takes its own slot of the latch.
AllSuspend ==
    /\ caller = "published" /\ remaining' = remaining - 1
    /\ IF remaining' = 0
       THEN caller' = "returned" /\ resumes' = resumes + 1 /\ waiterAddr' = FALSE
       ELSE caller' = "parked" /\ UNCHANGED <<resumes, waiterAddr>>
    /\ UNCHANGED <<todo, runner, results, stop, failed>>

\* ~WhenAllAwaiter of a parked caller; a resume in flight is swallowed.
AllDestroy ==
    /\ caller = "parked" /\ caller' = "gone" /\ stop' = TRUE
    /\ waiterAddr' = FALSE
    /\ UNCHANGED <<todo, runner, results, remaining, failed, resumes>>

\* The scope of a caller that has not returned is stopped, and with it every branch's.
AllStopScope ==
    /\ caller \in {"spawning", "awaiting", "published", "parked"} /\ ~stop /\ stop' = TRUE
    /\ UNCHANGED <<caller, todo, runner, results, remaining, waiterAddr, failed, resumes>>

AllRunner(b) == AllStore(b) \/ CompleteOne(b) \/ ResumeWaiter(b)
AllNext == AllFailSpawn \/ AllAwait \/ AllSuspend \/ AllDestroy \/ AllStopScope \/ \E b \in Branch : AllSpawn(b) \/ AllRunner(b)
AllProgress == AllAwait \/ AllSuspend \/ \E b \in Branch : AllSpawn(b) \/ AllRunner(b)
AllSpec == AllInit /\ [][AllNext]_allVars /\ WF_allVars(AllProgress)

\* The states of the caller and the runners, and a latch that never wraps.
AllTypeOK ==
    /\ caller \in {"spawning", "awaiting", "published", "parked", "returned", "gone"}
    /\ runner \in [Branch -> {"none", "running", "stored", "last", "done"}]
    /\ remaining \in 0..Cardinality(Branch) + 1

\* The caller resumes once, with every branch that was started over and its result
\* recorded; without a failure that is every branch.
AllJoined ==
    caller = "returned" =>
        /\ resumes = 1
        /\ \A b \in Branch : runner[b] # "none" => b \in results
        /\ failed \/ results = Branch
-----------------------------------------------------------------------------
(***************************************************************************)
(* withTimeout (Yarn/includes/Timeout.h): a runner for the task, a Reactor *)
(* timer, and a caller parked in a WhenAnyAwaiter.  Whoever flips          *)
(* `finished' decides; with joinLosers a timeout is published only when    *)
(* the task is gone too.                                                   *)
(***************************************************************************)
timedCore == <<finished, published, waiter, stop, runnerDone, timeoutRecorded, outcome>>
timedVars == <<join, caller, runner, timer, timedCore, resumes>>

TimedInit ==
    /\ join \in BOOLEAN
    /\ caller = "starting" /\ runner = "none" /\ timer = "none"
    /\ finished = FALSE /\ published = FALSE /\ waiter = FALSE /\ stop = FALSE
    /\ runnerDone = FALSE /\ timeoutRecorded = FALSE
    /\ outcome = "none" /\ resumes = 0

\* A parked caller is resumed by whoever publishes.
TimedPublish ==
    /\ published' = TRUE /\ waiter' = FALSE
    /\ IF waiter THEN caller' = "returned" /\ resumes' = resumes + 1 ELSE UNCHANGED <<caller, resumes>>

\* The timer goes in first; the Reactor may refuse it.
TimedRegister ==
    /\ caller = "starting"
    /\ \/ caller' = "registered" /\ timer' = "pending"
       \/ caller' = "failing" /\ UNCHANGED timer
    /\ UNCHANGED <<join, runner, timedCore, resumes>>

\* coSpawn of the runner, or the pool refuses it.
TimedSpawn ==
    /\ caller = "registered"
    /\ \/ caller' = "awaiting" /\ runner' = "running"
       \/ caller' = "failing" /\ UNCHANGED runner
    /\ UNCHANGED <<join, timer, timedCore, resumes>>

\* failSpawn settles the race, or reports the runner gone to a timer that was first.
TimedFailSpawn ==
    /\ caller = "failing" /\ caller' = "awaiting"
    /\ \/ /\ ~finished /\ finished' = TRUE
          /\ stop' = TRUE /\ outcome' = "spawn failed" /\ published' = TRUE
          /\ UNCHANGED runnerDone
       \/ /\ finished /\ join /\ runnerDone' = TRUE
          /\ published' = (published \/ timeoutRecorded)
          /\ UNCHANGED <<finished, stop, outcome>>
       \/ finished /\ ~join /\ UNCHANGED <<finished, stop, outcome, published, runnerDone>>
    /\ UNCHANGED <<join, runner, timer, waiter, timeoutRecorded, resumes>>

\* await_ready and await_suspend
TimedAwait ==
    /\ caller = "awaiting"
    /\ IF published THEN caller' = "returned" /\ resumes' = resumes + 1 /\ UNCHANGED waiter
       ELSE caller' = "parked" /\ waiter' = TRUE /\ UNCHANGED resumes
    /\ UNCHANGED <<join, runner, timer, finished, published, stop, runnerDone, timeoutRecorded, outcome>>

\* ~WhenAnyAwaiter of a parked caller
TimedDestroy ==
    /\ caller = "parked" /\ caller' = "gone"
    /\ waiter' = FALSE /\ stop' = TRUE
    /\ UNCHANGED <<join, runner, timer, finished, published, runnerDone, timeoutRecorded, outcome, resumes>>

\* The Reactor resumes the timer's frame, once: when it expires or when cancelTimer
\* takes it back, which a decided race only brings forward.
TimedExpire ==
    /\ timer = "pending"
    /\ timer' = IF finished THEN "done" ELSE "decided"
    /\ finished' = TRUE
    /\ UNCHANGED <<join, caller, runner, published, waiter, stop, runnerDone, timeoutRecorded, outcome, resumes>>

TimedExpireStops ==
    /\ timer = "decided" /\ timer' = "stopped" /\ stop' = TRUE
    /\ UNCHANGED <<join, caller, runner, finished, published, waiter, runnerDone, timeoutRecorded, outcome, resumes>>

\* The rest of expire(): publish at once, or record and leave it to the second.
TimedRecord ==
    /\ timer = "stopped" /\ timer' = "done"
    /\ outcome' = "timeout"
    /\ timeoutRecorded' = join
    /\ IF ~join \/ runnerDone THEN TimedPublish ELSE UNCHANGED <<published, waiter, caller, resumes>>
    /\ UNCHANGED <<join, runner, finished, stop, runnerDone>>

\* The task returns, throws or unwinds.
TimedFinish ==
    /\ runner = "running" /\ runner' = "ended"
    /\ UNCHANGED <<join, caller, timer, timedCore, resumes>>

TimedExchange ==
    /\ runner = "ended" /\ runner' = IF finished THEN "lost" ELSE "won"
    /\ finished' = TRUE
    /\ UNCHANGED <<join, caller, timer, published, waiter, stop, runnerDone, timeoutRecorded, outcome, resumes>>

\* The winning runner takes the timer back, writes its outcome, and publishes it.
TimedWrite ==
    /\ runner = "won" /\ runner' = "written"
    /\ outcome' = "result"
    /\ UNCHANGED <<join, caller, timer, finished, published, waiter, stop, runnerDone, timeoutRecorded, resumes>>

TimedRunnerPublish ==
    /\ runner = "written" /\ runner' = "done"
    /\ TimedPublish
    /\ UNCHANGED <<join, timer, finished, stop, runnerDone, timeoutRecorded, outcome>>

\* runnerFinishedLate of a losing runner, in the joined form
RunnerFinishedLate ==
    /\ runner = "lost" /\ runner' = "done"
    /\ runnerDone' = join
    /\ IF join /\ timeoutRecorded THEN TimedPublish ELSE UNCHANGED <<published, waiter, caller, resumes>>
    /\ UNCHANGED <<join, timer, finished, stop, timeoutRecorded, outcome>>

\* The scope of a caller that has not returned is stopped, and with it the task's.
TimedStopScope ==
    /\ caller \notin {"returned", "gone"} /\ ~stop /\ stop' = TRUE
    /\ UNCHANGED <<join, caller, runner, timer, finished, published, waiter, runnerDone, timeoutRecorded, outcome, resumes>>

TimedRunner == TimedFinish \/ TimedExchange \/ TimedWrite \/ TimedRunnerPublish \/ RunnerFinishedLate
TimedTimer == TimedExpire \/ TimedExpireStops \/ TimedRecord
TimedCaller == TimedRegister \/ TimedSpawn \/ TimedFailSpawn \/ TimedAwait

TimedNext == TimedCaller \/ TimedDestroy \/ TimedStopScope \/ TimedRunner \/ TimedTimer
TimedProgress == TimedCaller \/ TimedRunner \/ TimedTimer
TimedSpec == TimedInit /\ [][TimedNext]_timedVars /\ WF_timedVars(TimedProgress)

\* The states of the two sides; a proxy is registered exactly while the caller is parked.
TimedTypeOK ==
    /\ waiter <=> caller = "parked"
    /\ timer \in {"none", "pending", "decided", "stopped", "done"}
    /\ runner \in {"none", "running", "ended", "won", "written", "lost", "done"}

\* The caller sees one complete outcome and resumes once; a joined caller only when
\* the task is gone; and a caller told of a timeout has a task told to stop.
TimeoutSettled ==
    caller = "returned" =>
        /\ outcome # "none" /\ resumes = 1
        /\ join => runner \in {"none", "done"}
        /\ outcome = "timeout" => stop

\* Only one side writes the outcome.
OutcomeStep == outcome # "none" => outcome' = outcome
=============================================================================
