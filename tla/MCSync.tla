------------------------------- MODULE MCSync -------------------------------
(***************************************************************************)
(* What tasks wait on, for TLC, each on its own (`sys' never changes):     *)
(* AsyncMutex, AsyncSemaphore, AsyncRwLock, AsyncEvent, AsyncNotify,       *)
(* AsyncOnce and AsyncBarrier with three tasks; whenAny and whenAll over   *)
(* three branches, withTimeout, JoinHandle with a single join, a caller    *)
(* that issues three selects over two channels, two threads that cancel    *)
(* tasks of one chain, and a Signal.  AsyncMutex has variables of its own  *)
(* and rests in its initial state when it is not running; "fairmutex" is a *)
(* second one whose owners unlock.  The primitives built on the park       *)
(* protocol share its variables, as do the others variables of the same    *)
(* name, and those a system lacks stay 0.                                  *)
(***************************************************************************)
EXTENDS AsyncMutex

CONSTANTS Permits, MaxTotal, Writer, N, b1, b2, b3, Nobody, a1
VARIABLES sys, phases, queue, stops,                                    \* the park protocol
    owned, count, total, inside, latched, pending, state, completed, countdown,
    caller, todo, published, stopped, runner, resumes, remaining,
    join, finished, waiter, outcome,                                    \* whenAny, withTimeout
    results, waiterAddr, failed,                                        \* whenAll
    timer, runnerDone, timeoutRecorded,                                 \* withTimeout
    word, pc, addr, look, hook, cancelled, wake,                        \* JoinHandle
    buffer, closed, from, pull, inHand, decided, live, outstanding,     \* channelSelect
    result, exception, selects, returned, unreturned,
    by, alive, finishing, pins, hooks, up, firing, firer, bound,        \* a chain of tasks
    early, parks, cpc, target, taken, gone,
    handlers, fresh, active, emit, view, shared, seen, took, ran,       \* Signal
    tasks, awaiting, dead, wait, armed, missed, asked, wakes

Fair == INSTANCE AsyncMutex WITH phase <- phases, waiters <- queue, stop <- stops, held <- owned
Sem == INSTANCE AsyncSemaphore WITH phase <- phases, waiters <- queue, stop <- stops
ASSUME PermitsAssumption == Sem!PermitsOK
Rw == INSTANCE AsyncRwLock WITH phase <- phases, waiters <- queue, stop <- stops, state <- inside
Wake == INSTANCE AsyncWakeups WITH phase <- phases, waiters <- queue, stop <- stops
Comb == INSTANCE Combinators WITH stop <- stopped, Branch <- {b1, b2, b3}
Handle == INSTANCE JoinHandle WITH stop <- stopped, Addr <- {a1}, MaxJoins <- 1
Sel == INSTANCE Select WITH
    stop <- stopped, held <- inHand, Chan <- {b1, b2}, MaxValues <- 3, MaxSelects <- 3
Chain == INSTANCE TaskChain WITH stop <- stopped, Caller <- {b1, b2}, MaxParks <- 2
Sig == INSTANCE Signal WITH
    pending <- awaiting, bound <- armed, early <- missed,
    Handler <- {b1, b2}, Emitter <- {b1, b2}, Async <- {b2}, Waiter <- {a1}, Scoped <- {a1}

sharedVars == <<phases, queue, stops, owned, count, total, inside, latched, pending, state, completed, countdown>>
callVars == <<caller, todo, published, stopped, runner, resumes, remaining>>
raceVars == <<join, finished, waiter, outcome>>
allVars == <<results, waiterAddr, failed>>
timeVars == <<timer, runnerDone, timeoutRecorded>>
handleVars == <<word, pc, addr, look, hook, cancelled, wake>>
selectVars == <<buffer, closed, from, pull, inHand, decided, live, outstanding, result, exception, selects, returned,
                unreturned>>
chainVars == <<by, alive, finishing, pins, hooks, up, firing, firer, bound, early, parks, cpc, target, taken, gone>>
signalVars == <<handlers, fresh, active, emit, view, shared, seen, took, ran, tasks, awaiting, dead, wait, armed,
                missed, asked, wakes>>
comboVars == <<callVars, raceVars, allVars, timeVars, handleVars, selectVars, chainVars, signalVars>>
mcVars == <<sys, vars, sharedVars, comboVars>>

NoRace == join = 0 /\ finished = 0 /\ waiter = 0 /\ outcome = 0
NoAll == results = 0 /\ waiterAddr = 0 /\ failed = 0
NoTime == timer = 0 /\ runnerDone = 0 /\ timeoutRecorded = 0
NoHandle == word = 0 /\ pc = 0 /\ addr = 0 /\ look = 0 /\ hook = 0 /\ cancelled = 0 /\ wake = 0
NoSelect ==
    /\ buffer = 0 /\ closed = 0 /\ from = 0 /\ pull = 0 /\ inHand = 0 /\ decided = 0
    /\ live = 0 /\ outstanding = 0 /\ result = 0 /\ exception = 0 /\ selects = 0 /\ returned = 0 /\ unreturned = 0
NoChain ==
    /\ by = 0 /\ alive = 0 /\ finishing = 0 /\ pins = 0 /\ hooks = 0 /\ up = 0 /\ firing = 0 /\ firer = 0
    /\ bound = 0 /\ early = 0 /\ parks = 0 /\ cpc = 0 /\ target = 0 /\ taken = 0 /\ gone = 0
NoCaller == caller = "none" /\ todo = 0 /\ published = 0 /\ resumes = 0 /\ remaining = 0

NoSignal ==
    /\ handlers = 0 /\ fresh = 0 /\ active = 0 /\ emit = 0 /\ view = 0 /\ shared = 0 /\ seen = 0 /\ took = 0
    /\ ran = 0 /\ tasks = 0 /\ awaiting = 0 /\ dead = 0 /\ wait = 0 /\ armed = 0 /\ missed = 0 /\ asked = 0
    /\ wakes = 0

ParkSystems == {"mutex", "fairmutex", "semaphore", "rwlock", "event", "notify", "once", "barrier"}

MCInit ==
    /\ Init /\ Fair!Init /\ Sem!Init /\ Rw!Init /\ Wake!EventInit /\ Wake!NotifyInit /\ Wake!OnceInit /\ Wake!BarrierInit
    /\ \/ sys = "any" /\ Comb!AnyInit /\ NoAll /\ NoTime /\ NoHandle /\ NoSelect /\ NoChain /\ NoSignal
       \/ /\ sys = "all" /\ Comb!AllInit /\ NoRace /\ NoTime /\ NoHandle /\ NoSelect /\ NoChain /\ NoSignal
          /\ published = 0
       \/ /\ sys = "timeout" /\ Comb!TimedInit /\ NoAll /\ NoHandle /\ NoSelect /\ NoChain /\ NoSignal
          /\ todo = 0 /\ remaining = 0
       \/ /\ sys = "select" /\ Sel!Init /\ NoRace /\ NoAll /\ NoTime /\ NoHandle /\ NoChain /\ NoSignal
          /\ runner = 0 /\ resumes = 0 /\ remaining = 0
       \/ /\ sys = "chain" /\ Chain!Init /\ NoCaller /\ NoRace /\ NoAll /\ NoTime /\ NoSelect /\ NoSignal
          /\ runner = 0 /\ word = 0 /\ addr = 0 /\ look = 0 /\ hook = 0 /\ wake = 0
       \/ /\ sys = "join" /\ Handle!Init /\ NoCaller /\ NoRace /\ NoAll /\ NoTime /\ NoSelect /\ NoChain /\ NoSignal
       \/ /\ sys \in ParkSystems \cup {"signal"} /\ NoCaller /\ NoRace /\ NoAll /\ NoTime /\ NoHandle /\ NoSelect
          /\ NoChain /\ stopped = 0 /\ runner = 0
          /\ IF sys = "signal" THEN Sig!Init ELSE NoSignal

NoMutex == UNCHANGED <<sys, vars, comboVars>>
OnlyMutex == UNCHANGED <<sys, sharedVars, comboVars>>
OnlyFair == NoMutex /\ UNCHANGED <<count, total, inside, latched, pending, state, completed, countdown>>
OnlySem == NoMutex /\ UNCHANGED <<owned, inside, latched, pending, state, completed, countdown>>
OnlyRw == NoMutex /\ UNCHANGED <<owned, count, total, latched, pending, state, completed, countdown>>
OnlyEvent == NoMutex /\ UNCHANGED <<owned, count, total, inside, pending, state, completed, countdown>>
OnlyNotify == NoMutex /\ UNCHANGED <<owned, count, total, inside, latched, state, completed, countdown>>
OnlyOnce == NoMutex /\ UNCHANGED <<owned, count, total, inside, latched, pending, countdown>>
OnlyBarrier == NoMutex /\ UNCHANGED <<owned, count, total, inside, latched, pending, state, completed>>
NoPark == UNCHANGED <<sys, vars, sharedVars>>
OnlyAny == NoPark /\ UNCHANGED <<allVars, timeVars, handleVars, selectVars, chainVars, signalVars>>
OnlyAll == NoPark /\ UNCHANGED <<raceVars, timeVars, handleVars, selectVars, chainVars, signalVars, published>>
OnlyTimed == NoPark /\ UNCHANGED <<allVars, handleVars, selectVars, chainVars, signalVars, todo, remaining>>
OnlyHandle ==
    /\ NoPark /\ UNCHANGED <<raceVars, allVars, timeVars, selectVars, chainVars, signalVars>>
    /\ UNCHANGED <<caller, todo, published, resumes, remaining>>
OnlySelect ==
    NoPark /\ UNCHANGED <<raceVars, allVars, timeVars, handleVars, chainVars, signalVars, runner, resumes, remaining>>
OnlyChain ==
    /\ NoPark /\ UNCHANGED <<raceVars, allVars, timeVars, selectVars, signalVars, word, addr, look, hook, wake>>
    /\ UNCHANGED <<caller, todo, published, runner, resumes, remaining>>
OnlySignal ==
    NoPark /\ UNCHANGED <<callVars, raceVars, allVars, timeVars, handleVars, selectVars, chainVars>>

MCNext ==
    \/ sys = "mutex" /\ Next /\ OnlyMutex
    \/ sys = "fairmutex" /\ Fair!Next /\ OnlyFair
    \/ sys = "semaphore" /\ Sem!Next /\ OnlySem
    \/ sys = "rwlock" /\ Rw!Next /\ OnlyRw
    \/ sys = "event" /\ Wake!EventNext /\ OnlyEvent
    \/ sys = "notify" /\ Wake!NotifyNext /\ OnlyNotify
    \/ sys = "once" /\ Wake!OnceNext /\ OnlyOnce
    \/ sys = "barrier" /\ Wake!BarrierNext /\ OnlyBarrier
    \/ sys = "any" /\ Comb!AnyNext /\ OnlyAny
    \/ sys = "all" /\ Comb!AllNext /\ OnlyAll
    \/ sys = "timeout" /\ Comb!TimedNext /\ OnlyTimed
    \/ sys = "join" /\ Handle!Next /\ OnlyHandle
    \/ sys = "select" /\ Sel!Next /\ OnlySelect
    \/ sys = "chain" /\ Chain!Next /\ OnlyChain
    \/ sys = "signal" /\ Sig!Next /\ OnlySignal

(***************************************************************************)
(* Threads take their steps and the pool runs what is scheduled: nobody    *)
(* need ever call set() or notify(), but a runner's fn ends, tasks keep    *)
(* arriving at the barrier, and a branch, a pull or a timer that can go on *)
(* does.  Permits and the read-write lock are given back, "mutex" need not *)
(* be unlocked.  Since `sys' never changes, fairness of a disjunction over *)
(* systems is fairness in each.                                            *)
(***************************************************************************)
TaskGoesOn(t) ==
    \/ sys = "mutex" /\ Progress(t) /\ OnlyMutex
    \/ sys = "fairmutex" /\ (Fair!Progress(t) \/ Fair!Unlock(t)) /\ OnlyFair
    \/ sys = "semaphore" /\ (Sem!Progress(t) \/ Sem!Release(t) \/ Sem!Consume(t)) /\ OnlySem
    \/ sys = "rwlock" /\ Rw!Progress(t) /\ OnlyRw
    \/ sys = "event" /\ Wake!EventProgress(t) /\ OnlyEvent
    \/ sys = "once" /\ Wake!OnceProgress(t) /\ OnlyOnce
    \/ sys = "barrier" /\ Wake!BarrierProgress(t) /\ OnlyBarrier
RestGoesOn ==
    \/ sys = "semaphore" /\ Sem!Post /\ OnlySem
    \/ sys = "any" /\ Comb!AnyProgress /\ OnlyAny
    \/ sys = "all" /\ Comb!AllProgress /\ OnlyAll
    \/ sys = "timeout" /\ Comb!TimedProgress /\ OnlyTimed
    \/ sys = "join" /\ Handle!Progress /\ OnlyHandle
    \/ sys = "select" /\ Sel!Progress /\ OnlySelect
    \/ sys = "chain" /\ Chain!Chain /\ OnlyChain
    \/ sys = "signal" /\ Sig!Progress /\ OnlySignal
CancelGoesOn(c) == sys = "chain" /\ Chain!Cancel(c) /\ OnlyChain

MCSpec ==
    /\ MCInit /\ [][MCNext]_mcVars
    /\ \A t \in Task : WF_mcVars(TaskGoesOn(t))
    /\ WF_mcVars(RestGoesOn)
    /\ \A c \in {b1, b2} : WF_mcVars(CancelGoesOn(c))
-----------------------------------------------------------------------------
\* Types of all of them, and wait lists that hold exactly the parked tasks.
TypesOK ==
    /\ sys = "fairmutex" => Fair!TypeOK
    /\ sys = "semaphore" => Sem!TypeOK
    /\ sys = "rwlock" => Rw!TypeOK
    /\ sys = "event" => Wake!EventTypeOK
    /\ sys = "notify" => Wake!NotifyTypeOK
    /\ sys = "once" => Wake!OnceTypeOK
    /\ sys = "barrier" => Wake!BarrierTypeOK
    /\ sys = "any" => Comb!AnyTypeOK
    /\ sys = "all" => Comb!AllTypeOK
    /\ sys = "timeout" => Comb!TimedTypeOK
    /\ sys = "join" => Handle!TypeOK
    /\ sys = "select" => Sel!TypeOK
    /\ sys = "chain" => Chain!TypeOK
    /\ sys = "signal" => Sig!TypeOK

(***************************************************************************)
(* Nobody is parked where nothing will wake it: beside a free mutex or a   *)
(* free permit, at the head of a read-write lock it could enter, in        *)
(* AsyncEvent::wait after set(), in callOnce without a live runner, at a   *)
(* barrier that has counted fewer arrivals than are parked, in a join the  *)
(* latch does not name, in a cancelled chain that no requestCancel is      *)
(* still about to wake, or in Signal::next() off the list and untaken.     *)
(***************************************************************************)
NobodyParkedIdly ==
    /\ NoIdleQueue
    /\ sys = "semaphore" => Sem!NoIdlePermit
    /\ sys = "rwlock" => Rw!HeadIsBlocked
    /\ sys = "event" => Wake!NobodyParkedOnceSet
    /\ sys = "once" => Wake!RunningHasRunner /\ Wake!ParkedBehindRunner
    /\ sys = "barrier" => Wake!ArrivalsAreParked
    /\ sys = "join" => Handle!ParkedIsRegistered
    /\ sys = "chain" => Chain!ParkedWillHear
    /\ sys = "signal" => Sig!NobodyParkedIdly

(***************************************************************************)
(* A cancelled or destroyed waiter takes nothing with it: `held' of the    *)
(* mutex is set exactly while a task owns it, free, held, travelling and   *)
(* revoked permits add up, `state' of the read-write lock counts the       *)
(* readers inside or says that a writer is, no notification and no value   *)
(* of a select is swallowed, and selects keep the order of each channel.   *)
(***************************************************************************)
NothingLost ==
    /\ NoLostGrant
    /\ sys = "semaphore" => Sem!SemInv /\ Sem!PermitsConserved
    /\ sys = "rwlock" => Rw!StateCountsOwners
    /\ sys = "notify" => Wake!NoneSwallowed
    /\ sys = "select" => Sel!NothingSwallowed /\ Sel!ChannelOrder

(***************************************************************************)
(* Whoever returns does so once and with a complete outcome: wait() after  *)
(* set(), callOnce after one completed run, a race or a timeout with its   *)
(* winner's result, whenAll with every result, a join with a result that   *)
(* is written, an empty select only with every channel over, an emission   *)
(* with every handler that was connected when it began.                    *)
(***************************************************************************)
OutcomeComplete ==
    /\ sys = "event" => Wake!NoEarlyReturn
    /\ sys = "once" => Wake!CompletesOnce
    /\ sys = "any" => Comb!RaceSettled
    /\ sys = "all" => Comb!AllJoined
    /\ sys = "timeout" => Comb!TimeoutSettled
    /\ sys = "join" => Handle!ResultIsStored
    /\ sys = "select" => Sel!EmptyMeansOver
    /\ sys = "signal" => Sig!EmissionIsWhole

(***************************************************************************)
(* requestCancel only touches what exists: while it walks a chain of tasks *)
(* their frames are there, a hook it took is still bound until it has run, *)
(* and nothing of a finished task stays in the registry.                   *)
(***************************************************************************)
ChainIsThere == sys = "chain" => Chain!WalkedChainIsThere /\ Chain!TakenHookIsThere /\ Chain!RegistryIsClean

(***************************************************************************)
(* What a step may never do: overtake the queue of a read-write lock,      *)
(* resume a destroyed caller from a late branch, write the outcome of      *)
(* withTimeout a second time, or let other than N tasks through a barrier. *)
(***************************************************************************)
StepsAreSafe ==
    [][ /\ sys = "rwlock" => Rw!NobodyOvertakes
        /\ sys = "any" => Comb!GoneStep
        /\ sys = "all" => Comb!GoneStep
        /\ sys = "timeout" => Comb!OutcomeStep
        /\ sys = "barrier" => Wake!TripIsFull ]_mcVars

(***************************************************************************)
(* Every queued task is served, cancelled or timed out, at a barrier       *)
(* unless cancellations keep taking arrivals away; a cancelled lock()      *)
(* returns although the owner never unlocks; and every wait whose event    *)
(* comes, every combinator, join, requestCancel and emission returns.      *)
(***************************************************************************)
Due(t) ==
    \/ sys = "mutex" /\ stop[t] /\ Inside(t)
    \/ sys \in {"fairmutex", "semaphore", "rwlock", "once", "barrier"} /\ phases[t] = "queued"
    \/ sys = "event" /\ latched /\ phases[t] # "idle"
Through(t) ==
    \/ sys = "mutex" /\ ~Inside(t)
    \/ sys \in {"fairmutex", "semaphore", "rwlock", "once", "barrier"} /\ phases[t] # "queued"
    \/ sys = "barrier" /\ \E u \in Task : stops[u]
    \/ sys = "event" /\ phases[t] = "idle"
AnyDue ==
    \/ sys \in {"any", "all", "timeout", "signal"}
    \/ sys = "join" /\ Handle!MustReturn(1)
    \/ sys = "select" /\ Sel!CanReturn
    \/ sys = "chain" /\ Chain!AnyCancelled
AllThrough ==
    \/ sys \in {"any", "all", "timeout"} /\ caller \in {"returned", "gone"}
    \/ sys = "join" /\ Handle!Over(1)
    \/ sys = "select" /\ (caller = "idle" \/ (caller = "gone" /\ outstanding = 0))
    \/ sys = "chain" /\ Chain!AllOver
    \/ sys = "signal" /\ Sig!Settled
EverybodyReturns == (\A t \in Task : Due(t) ~> Through(t)) /\ (AnyDue ~> AllThrough)
=============================================================================
