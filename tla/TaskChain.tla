----------------------------- MODULE TaskChain ------------------------------
(***************************************************************************)
(* Task::requestCancel against a running chain of tasks: the registry of   *)
(* cancel hooks of Yarn/includes/Coroutines.h, with the CancelBinding and  *)
(* the ScopeLink of Yarn/includes/Cancellation.h that register there.      *)
(*                                                                         *)
(* A detached root awaits task 1, a withCancellation whose ScopeLink is    *)
(* hooked on task 1; task 1 awaits task 2, which parks in a cancellable    *)
(* await whose CancelBinding is hooked on task 2 and registered with the   *)
(* scope of task 1.  Both hooks stand in the one list of the root.  The    *)
(* Task objects of 1 and 2 are held by other code, whose threads (Caller)  *)
(* call requestCancel on either at any moment, before the chain starts and *)
(* after it is gone; such a call keeps the frame of its own task, but      *)
(* nothing else, alive.                                                    *)
(*                                                                         *)
(* A callback that withdraws the parked await resumes the chain on the     *)
(* pool or, when the pool refuses the task, inline: the coroutine then     *)
(* runs on the canceller's stack, inside the callback, and may unwind the  *)
(* chain that owns the hooks this very thread is firing.                   *)
(***************************************************************************)
EXTENDS Naturals

CONSTANTS
    Caller,         \* threads that call requestCancel, once each
    MaxParks        \* how often task 2 parks (it may catch CancelledException)

VARIABLES
    pc,             \* where the chain stands
    by,             \* the thread it runs on: the pool, or a canceller (inline)
    alive,          \* the frame of the root, which owns the registry, exists
    cancelled, finishing, pins,     \* of each task's promise
    hooks,          \* the root's list of armed hooks
    up,             \* the hooks that exist (their awaiter or link does)
    firing, firer,  \* of each hook
    bound,          \* the binding's stop_callback is registered with the scope
    stop,           \* task 1's own stop source has been stopped
    early,          \* earlyCancel of the await of task 2
    parks,          \* awaits of task 2 so far
    cpc,            \* where each canceller stands
    target,         \* the task it cancels
    taken,          \* the hooks it has taken and not yet dealt with, in no order
    gone            \* its slots that a disarm on this very thread has marked

chainVars == <<pc, by, alive, parks>>
promiseVars == <<cancelled, finishing, pins>>
hookVars == <<hooks, up, firing, firer>>
awaitVars == <<bound, stop, early>>
callerVars == <<cpc, target, taken, gone>>
vars == <<chainVars, promiseVars, hookVars, awaitVars, callerVars>>

T == {1, 2}
Hook == {"link", "binding"}
Pool == "pool"

\* CancelHook::leaf, and inChainOf: h hangs at or below task x.
LeafOf(h) == IF h = "link" THEN 1 ELSE 2
Below(h, x) == LeafOf(h) >= x

\* isCancellationRequested, called in task x: its own flag, its parent's, and
\* the scope that withCancellation installed on task 1.
IsCancelled(x) == (\E y \in 1..x : cancelled[y]) \/ stop

Init ==
    /\ pc = "start" /\ by = Pool /\ alive = TRUE /\ parks = 0
    /\ cancelled = [x \in T |-> FALSE]
    /\ finishing = [x \in T |-> FALSE]
    /\ pins = [x \in T |-> 0]
    /\ hooks = {} /\ up = {}
    /\ firing = [h \in Hook |-> FALSE]
    /\ firer = [h \in Hook |-> Pool]
    /\ bound = FALSE /\ stop = FALSE /\ early = FALSE
    /\ cpc = [c \in Caller |-> "idle"]
    /\ target = [c \in Caller |-> 1]
    /\ taken = [c \in Caller |-> {}]
    /\ gone = [c \in Caller |-> {}]
-----------------------------------------------------------------------------
(***************************************************************************)
(* The chain, step by step:                                                *)
(*  start     task 1 runs, its link is not hooked yet                      *)
(*  linked    armCancelHook of the link: linked, flag not read yet         *)
(*  first     task 2 runs; first pass of park()                            *)
(*  binding   CancelBinding::arm, stop_callback not registered yet         *)
(*  hooking   registered with the scope, hook not linked yet               *)
(*  reading   armCancelHook of the binding: linked, flag not read yet      *)
(*  second    second pass of park()                                        *)
(*  parked    suspended in the primitive's queue                           *)
(*  woken     resumed; the binding is disarmed: scope first, then its hook *)
(*  unhook                                                                 *)
(*  resumed   the await is over, normally or with CancelledException       *)
(*  final2    task 2 at its final suspend                                  *)
(*  back      task 1 resumed; its link goes away                           *)
(*  leave     task 1 has left withCancellation                             *)
(*  final1    task 1 at its final suspend                                  *)
(*  gone      the root has finished and freed itself                       *)
(***************************************************************************)
Go(p) == pc' = p

\* armCancelHook up to the release of the registry's lock.  The hook is a new
\* object, possibly where an earlier one was.
Hooked(h) ==
    /\ hooks' = hooks \union {h}
    /\ up' = up \union {h}
    /\ firing' = [firing EXCEPT ![h] = FALSE]
    /\ UNCHANGED firer

\* ScopeLink::follow hooks the link of task 1.
Follow ==
    /\ pc = "start"
    /\ Go("linked") /\ Hooked("link")
    /\ UNCHANGED <<by, alive, parks, promiseVars, awaitVars, callerVars>>

\* ... and forwards a cancellation that came before.  withCancellation then
\* installs its scope and awaits task 2.
FollowLate ==
    /\ pc = "linked"
    /\ Go("first")
    /\ stop' = IsCancelled(1)
    /\ UNCHANGED <<by, alive, parks, promiseVars, hookVars, bound, early, callerVars>>

\* park(), first pass: the resource may be there, or the chain cancelled.
FirstPass ==
    /\ pc = "first"
    /\ parks' = parks + 1
    /\ early' = FALSE
    /\ \/ Go("resumed")
       \/ ~IsCancelled(2) /\ Go("binding")
    /\ UNCHANGED <<by, alive, promiseVars, hookVars, bound, stop, callerVars>>

\* CancelBinding::doArm registers with the scope; a stopped scope fires at once.
Bind ==
    /\ pc = "binding"
    /\ Go("hooking")
    /\ bound' = TRUE
    /\ early' = stop
    /\ UNCHANGED <<by, alive, parks, promiseVars, hookVars, stop, callerVars>>

BindHook ==
    /\ pc = "hooking"
    /\ Go("reading") /\ Hooked("binding")
    /\ UNCHANGED <<by, alive, parks, promiseVars, awaitVars, callerVars>>

BindLate ==
    /\ pc = "reading"
    /\ Go("second")
    /\ early' = (early \/ IsCancelled(2))
    /\ UNCHANGED <<by, alive, parks, promiseVars, hookVars, bound, stop, callerVars>>

\* park(), second pass: cancelled meanwhile, served now, or queued.  A chain that
\* ran inline gives its thread back to the callback below it.
SecondPass ==
    /\ pc = "second"
    /\ \/ Go("woken") /\ UNCHANGED by
       \/ ~early /\ Go("parked") /\ by' = Pool
    /\ UNCHANGED <<alive, parks, promiseVars, hookVars, awaitVars, callerVars>>

\* The primitive grants; the pool resumes the chain.
Grant ==
    /\ pc = "parked"
    /\ Go("woken") /\ by' = Pool
    /\ UNCHANGED <<alive, parks, promiseVars, hookVars, awaitVars, callerVars>>

\* CancelBinding::disarm, the stop_callback.
Unbind ==
    /\ pc = "woken"
    /\ Go("unhook")
    /\ bound' = FALSE
    /\ UNCHANGED <<by, alive, parks, promiseVars, hookVars, stop, early, callerVars>>

\* disarmCancelHook on the thread the chain runs on.  A hook that is still linked
\* is unlinked.  One that a canceller has taken is waited for, unless this thread
\* is that canceller, further down its own stack: its slot is marked instead.
Disarm(h) ==
    /\ \/ h \in hooks /\ UNCHANGED gone
       \/ h \notin hooks /\ ~firing[h] /\ UNCHANGED gone
       \/ /\ h \notin hooks /\ firing[h] /\ firer[h] = by
          /\ gone' = [gone EXCEPT ![by] = @ \union {h}]
    /\ hooks' = hooks \ {h}
    /\ up' = up \ {h}
    /\ UNCHANGED <<firing, firer>>

Unhook ==
    /\ pc = "unhook"
    /\ Go("resumed") /\ Disarm("binding")
    /\ UNCHANGED <<by, alive, parks, promiseVars, awaitVars, cpc, target, taken>>

\* Task 2 goes on to another await, or has run to its end.
Again ==
    /\ pc = "resumed" /\ parks < MaxParks
    /\ Go("first")
    /\ UNCHANGED <<by, alive, parks, promiseVars, hookVars, awaitVars, callerVars>>

\* FinalAwaiter: say so first, then wait for the cancellers that pinned the task.
Finish(x, from, to) ==
    /\ pc = from
    /\ Go(to)
    /\ finishing' = [finishing EXCEPT ![x] = TRUE]
    /\ UNCHANGED <<by, alive, parks, cancelled, pins, hookVars, awaitVars, callerVars>>

\* A final suspend that does not wait for them.
PinsIgnored(x) == x \in T

PinsGone(x) == pins[x] = 0

Transfer ==
    /\ pc = "final2" /\ PinsGone(2)
    /\ Go("back")
    /\ UNCHANGED <<by, alive, parks, promiseVars, hookVars, awaitVars, callerVars>>

\* ~ScopeLink in task 1.
Unlink ==
    /\ pc = "back"
    /\ Go("leave") /\ Disarm("link")
    /\ UNCHANGED <<by, alive, parks, promiseVars, awaitVars, cpc, target, taken>>

\* Task 1 transfers to the detached root, which finishes and destroys its frame.
RootEnds ==
    /\ pc = "final1" /\ PinsGone(1)
    /\ Go("gone") /\ by' = Pool /\ alive' = FALSE
    /\ UNCHANGED <<parks, promiseVars, hookVars, awaitVars, callerVars>>

Chain ==
    \/ Follow \/ FollowLate \/ FirstPass \/ Bind \/ BindHook \/ BindLate \/ SecondPass
    \/ Unbind \/ Unhook \/ Again \/ Transfer \/ Unlink \/ RootEnds
    \/ Finish(2, "resumed", "final2") \/ Finish(1, "leave", "final1")
-----------------------------------------------------------------------------
(***************************************************************************)
(* requestChainCancel(x) on a thread c.                                    *)
(***************************************************************************)
At(c, from, to) == cpc[c] = from /\ cpc' = [cpc EXCEPT ![c] = to]

Store(c) == \E x \in T :
    /\ At(c, "idle", "stored")
    /\ target' = [target EXCEPT ![c] = x]
    /\ cancelled' = [cancelled EXCEPT ![x] = TRUE]
    /\ UNCHANGED <<chainVars, finishing, pins, hookVars, awaitVars, taken, gone>>

Pin(c) ==
    /\ At(c, "stored", "pinned")
    /\ pins' = [pins EXCEPT ![target[c]] = @ + 1]
    /\ UNCHANGED <<chainVars, cancelled, finishing, hookVars, awaitVars, target, taken, gone>>

\* A task that has reached its final suspend is not walked from.
Look(c) ==
    /\ At(c, "pinned", IF finishing[target[c]] THEN "unpin" ELSE "walk")
    /\ UNCHANGED <<chainVars, promiseVars, hookVars, awaitVars, target, taken, gone>>

\* takeChainHooks: unlink the hooks at or below the task and mark them.
Take(c) ==
    LET mine == {h \in hooks : Below(h, target[c])}
    IN  /\ At(c, "walk", "unpin")
        /\ taken' = [taken EXCEPT ![c] = mine]
        /\ hooks' = hooks \ mine
        /\ firing' = [h \in Hook |-> firing[h] \/ h \in mine]
        /\ firer' = [h \in Hook |-> IF h \in mine THEN c ELSE firer[h]]
        /\ UNCHANGED <<chainVars, promiseVars, up, awaitVars, target, gone>>

Unpin(c) ==
    /\ At(c, "unpin", "run")
    /\ pins' = [pins EXCEPT ![target[c]] = @ - 1]
    /\ UNCHANGED <<chainVars, cancelled, finishing, hookVars, awaitVars, target, taken, gone>>

\* cancelThunk: withdraw the queued await and resume it, on the pool or inline on
\* c; or leave a note for the second pass.
Withdraw(c) ==
    IF pc = "parked"
    THEN Go("woken") /\ by' \in {Pool, c} /\ UNCHANGED early
    ELSE early' = TRUE /\ UNCHANGED <<pc, by>>

\* ScopeLink::forward: stop task 1's source, which fires the binding if it is
\* registered.
Forward(c) ==
    /\ stop' = TRUE
    /\ IF bound /\ ~stop THEN Withdraw(c) ELSE UNCHANGED <<pc, by, early>>

\* runTakenHooks, second phase: call a hook, unless an earlier callback on this
\* stack has unwound its owner ...
Call(c) == \E h \in taken[c] \ gone[c] :
    /\ At(c, "run", h)
    /\ taken' = [taken EXCEPT ![c] = @ \ {h}]
    /\ \/ h = "link" /\ Forward(c)
       \/ h = "binding" /\ Withdraw(c) /\ UNCHANGED stop
    /\ UNCHANGED <<alive, parks, promiseVars, hookVars, bound, target, gone>>

\* ... and when its callback returns, release it, unless the callback did.
Return(c) == \E h \in Hook :
    /\ At(c, h, "run") /\ by # c
    /\ firing' = [firing EXCEPT ![h] = @ /\ h \in gone[c]]
    /\ UNCHANGED <<chainVars, promiseVars, hooks, up, firer, awaitVars, target, taken, gone>>

Done(c) ==
    /\ At(c, "run", "done") /\ taken[c] \subseteq gone[c]
    /\ taken' = [taken EXCEPT ![c] = {}]
    /\ gone' = [gone EXCEPT ![c] = {}]
    /\ UNCHANGED <<chainVars, promiseVars, hookVars, awaitVars, target>>

Cancel(c) ==
    Pin(c) \/ Look(c) \/ Take(c) \/ Unpin(c) \/ Call(c) \/ Return(c) \/ Done(c)

Next == Chain \/ Grant \/ \E c \in Caller : Store(c) \/ Cancel(c)

Spec ==
    /\ Init /\ [][Next]_vars
    /\ WF_vars(Chain) /\ \A c \in Caller : WF_vars(Cancel(c))
-----------------------------------------------------------------------------
TypeOK ==
    /\ pc \in {"start", "linked", "first", "binding", "hooking", "reading", "second", "parked", "woken",
               "unhook", "resumed", "final2", "back", "leave", "final1", "gone"}
    /\ by \in Caller \union {Pool} /\ alive \in BOOLEAN /\ parks \in 0..MaxParks
    /\ cancelled \in [T -> BOOLEAN] /\ finishing \in [T -> BOOLEAN] /\ pins \in [T -> Nat]
    /\ hooks \subseteq Hook /\ up \subseteq Hook
    /\ firing \in [Hook -> BOOLEAN] /\ firer \in [Hook -> Caller \union {Pool}]
    /\ bound \in BOOLEAN /\ stop \in BOOLEAN /\ early \in BOOLEAN
    /\ cpc \in [Caller -> {"idle", "stored", "pinned", "walk", "unpin", "run", "done"} \union Hook]
    /\ target \in [Caller -> T] /\ taken \in [Caller -> SUBSET Hook] /\ gone \in [Caller -> SUBSET Hook]

(***************************************************************************)
(* No canceller walks a chain that is gone: while it climbs from its task  *)
(* to the registry, the root and every task between are still suspended    *)
(* below it (`pins' and `finishing').                                      *)
(***************************************************************************)
WalkedChainIsThere == \A c \in Caller :
    cpc[c] = "walk" =>
        /\ alive
        /\ target[c] = 2 => pc \notin {"back", "leave", "final1"}

\* The hooks canceller c will still touch: those it has yet to call and the one
\* whose callback it is in.
Holds(c) == {h \in taken[c] \union ({cpc[c]} \intersect Hook) : h \notin gone[c]}

(***************************************************************************)
(* A hook that a canceller still means to touch exists, is marked as being *)
(* fired by that canceller, and is the one it took, not a later one in the *)
(* same place.                                                             *)
(***************************************************************************)
TakenHookIsThere == \A c \in Caller : \A h \in Holds(c) :
    h \in up \ hooks /\ firing[h] /\ firer[h] = c

\* No hook outlives its registration: the list holds hooks that exist, and the
\* root goes away with an empty list.
RegistryIsClean ==
    /\ hooks \subseteq up
    /\ ~alive => up = {}

(***************************************************************************)
(* No cancellation is lost: an await that is parked although the chain is  *)
(* cancelled has a canceller that has yet to scan the registry or holds    *)
(* one of its hooks.                                                       *)
(***************************************************************************)
ParkedWillHear ==
    pc = "parked" =>
        /\ ~stop
        /\ IsCancelled(2) => \E c \in Caller :
               cpc[c] \in {"stored", "pinned", "walk"} \/ Holds(c) # {}

\* Some task has been cancelled; the chain is over and every call has returned.
AnyCancelled == \E x \in T : cancelled[x]
AllOver == pc = "gone" /\ \A c \in Caller : cpc[c] \in {"idle", "done"}
=============================================================================
