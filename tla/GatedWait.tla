----------------------------- MODULE GatedWait ------------------------------
(***************************************************************************)
(* How a coroutine parks in the Reactor (FdWaitAwaiter in IoAwaiters.h and *)
(* SleepAwaiter in Timers.h, which follow the same protocol).  The thread  *)
(* that suspends the coroutine publishes a proxy, arms the cancel binding, *)
(* registers the proxy with the Reactor and then looks whether a stop came *)
(* first; both sides exchange the proxy's gate and the second one cancels. *)
(* Once registered the wait may end, and its awaiter die, while that       *)
(* thread is still on its way out, so from then on it only uses the proxy, *)
(* which it has pinned.                                                    *)
(*                                                                         *)
(* A handle is the address of a proxy: a freed address may be given to the *)
(* next proxy.  Running a proxy is one step here; WaitProxy takes it apart.*)
(***************************************************************************)
EXTENDS ReactorService

CONSTANTS
    Wait,       \* one co_await each
    Scoped,     \* the waits inside a CancelScope
    Chained     \* the waits of a task that can be stopped through its handle

VARIABLES
    frame,      \* idle, parked, resumed, killed, or how the wait ended
    thread,     \* await_suspend: none, armed, reclaim, register, gate, redo, unpin, done
    handle,     \* the proxy of a wait
    stop,       \* which sources were asked to stop
    hook,       \* the callback of a source: off, armed, flagged, cancel, ran
    cancelled,  \* FdWaitAwaiter::cancelled
    proxy,      \* the proxy at each address: its target, references, state and gate
    woken       \* the Reactor itself completed the wait: it was ready, due or refused

awaiterVars == <<frame, thread, handle, stop, hook, cancelled>>
vars == <<awaiterVars, proxy, woken, serviceVars>>

Registered == 1
Stopped == 2
\* ProxyCoro::promise_type::state: 0 parked, 1 resumed, 2 awaiter destroyed first.
Killed == 2
Free == [target |-> "none", refs |-> 0, state |-> 0, gate |-> 0]
Ended == {"elapsed", "cancelled", "failed", "destroyed"}

\* What can cancel a wait.
Source(w) == (IF w \in Scoped THEN {"scope"} ELSE {}) \cup (IF w \in Chained THEN {"chain"} ELSE {})

Init ==
    /\ ServiceInit
    /\ frame = [w \in Wait |-> "idle"] /\ thread = [w \in Wait |-> "none"]
    /\ handle = [w \in Wait |-> "none"]
    /\ stop = [w \in Wait |-> {}] /\ hook = [w \in Wait |-> [s \in Source(w) |-> "off"]]
    /\ cancelled = [w \in Wait |-> FALSE]
    /\ proxy = [h \in Handle |-> Free]
    /\ woken = [w \in Wait |-> FALSE]

\* CancelBinding::disarm waits for a callback that is running.
Quiet(w) == \A s \in Source(w) : hook[w][s] \notin {"flagged", "cancel"}
HooksOff(w) == [hook EXCEPT ![w] = [s \in Source(w) |-> "off"]]
-----------------------------------------------------------------------------
(* await_suspend                                                           *)

\* An await in a stopped scope fails at once; any other publishes a proxy and arms.
Suspend(w) ==
    /\ frame[w] = "idle"
    /\ \/ /\ stop[w] # {}
          /\ frame' = [frame EXCEPT ![w] = "cancelled"]
          /\ UNCHANGED <<thread, handle, hook, proxy>>
       \/ /\ stop[w] = {}
          /\ frame' = [frame EXCEPT ![w] = "parked"]
          /\ \E h \in Handle :
                /\ proxy[h] = Free
                /\ proxy' = [proxy EXCEPT ![h] = [Free EXCEPT !.target = w, !.refs = 2]]
                /\ handle' = [handle EXCEPT ![w] = h]
          /\ hook' = [hook EXCEPT ![w] = [s \in Source(w) |-> "armed"]]
          /\ thread' = [thread EXCEPT ![w] = "armed"]
    /\ UNCHANGED <<stop, cancelled, woken, serviceVars>>

\* A count-down that never frees.
UnreferencedKeeps(h) == [proxy EXCEPT ![h].refs = @ - 1]

\* The last reference frees the proxy.
Unreferenced(h) == [proxy EXCEPT ![h] = IF @.refs <= 1 THEN Free ELSE [@ EXCEPT !.refs = @ - 1]]

\* An await_suspend that does not pin the proxy (Unpin drops what was never taken).
CheckUnpinned(w) ==
    /\ thread[w] = "armed"
    /\ thread' = [thread EXCEPT ![w] = IF cancelled[w] THEN "reclaim" ELSE "register"]
    /\ UNCHANGED <<frame, handle, stop, hook, cancelled, proxy, woken, serviceVars>>

\* Stopped while arming, or pin the proxy and go on.
Check(w) ==
    /\ thread[w] = "armed"
    /\ \/ /\ cancelled[w]
          /\ thread' = [thread EXCEPT ![w] = "reclaim"] /\ UNCHANGED proxy
       \/ /\ ~cancelled[w]
          /\ thread' = [thread EXCEPT ![w] = "register"]
          /\ proxy' = [proxy EXCEPT ![handle[w]].refs = @ + 1]
    /\ UNCHANGED <<frame, handle, stop, hook, cancelled, woken, serviceVars>>

Reclaim(w) ==
    /\ thread[w] = "reclaim" /\ Quiet(w)
    /\ thread' = [thread EXCEPT ![w] = "done"]
    /\ frame' = [frame EXCEPT ![w] = "cancelled"]
    /\ hook' = HooksOff(w)
    /\ proxy' = [proxy EXCEPT ![handle[w]] = Free]
    /\ UNCHANGED <<handle, stop, cancelled, woken, serviceVars>>

Woken(S) == [w \in Wait |-> woken[w] \/ \E h \in S : proxy[h].target = w]

\* registerWait
RegisterWait(w) ==
    /\ thread[w] = "register" /\ thread' = [thread EXCEPT ![w] = "gate"]
    /\ Register(handle[w])
    /\ woken' = Woken((pending \cup {handle[w]}) \ pending')
    /\ UNCHANGED <<frame, handle, stop, hook, cancelled, proxy>>

\* A thread that leaves without looking whether a stop came first.
PassBlindly(w) ==
    /\ thread[w] = "gate" /\ thread' = [thread EXCEPT ![w] = "unpin"]
    /\ proxy' = [proxy EXCEPT ![handle[w]].gate = Registered]
    /\ UNCHANGED <<frame, handle, stop, hook, cancelled, woken, serviceVars>>

\* pin.gate().exchange(kRegistered)
Pass(w) ==
    /\ thread[w] = "gate"
    /\ thread' = [thread EXCEPT ![w] = IF proxy[handle[w]].gate = Stopped THEN "redo" ELSE "unpin"]
    /\ proxy' = [proxy EXCEPT ![handle[w]].gate = Registered]
    /\ UNCHANGED <<frame, handle, stop, hook, cancelled, woken, serviceVars>>

\* A stop that landed before the registration found nothing to cancel.
Redo(w) ==
    /\ thread[w] = "redo" /\ thread' = [thread EXCEPT ![w] = "unpin"]
    /\ Cancel(handle[w])
    /\ UNCHANGED <<frame, handle, stop, hook, cancelled, proxy, woken>>

Unpin(w) ==
    /\ thread[w] = "unpin" /\ thread' = [thread EXCEPT ![w] = "done"]
    /\ proxy' = Unreferenced(handle[w])
    /\ UNCHANGED <<frame, handle, stop, hook, cancelled, woken, serviceVars>>
-----------------------------------------------------------------------------
(* A stop: the scope's callback and the chain's hook may both run onCancel *)

RequestStop(w, s) ==
    /\ s \notin stop[w] /\ frame[w] \notin Ended
    /\ stop' = [stop EXCEPT ![w] = @ \cup {s}]
    /\ UNCHANGED <<frame, thread, handle, hook, cancelled, proxy, woken, serviceVars>>

Flag(w, s) ==
    /\ s \in stop[w] /\ hook[w][s] = "armed"
    /\ hook' = [hook EXCEPT ![w][s] = "flagged"]
    /\ cancelled' = [cancelled EXCEPT ![w] = TRUE]
    /\ UNCHANGED <<frame, thread, handle, stop, proxy, woken, serviceVars>>

\* gate().exchange(kStopped): only who comes second cancels.
Halt(w, s) ==
    /\ hook[w][s] = "flagged"
    /\ hook' = [hook EXCEPT ![w][s] = IF proxy[handle[w]].gate = Registered THEN "cancel" ELSE "ran"]
    /\ proxy' = [proxy EXCEPT ![handle[w]].gate = Stopped]
    /\ UNCHANGED <<frame, thread, handle, stop, cancelled, woken, serviceVars>>

HookCancel(w, s) ==
    /\ hook[w][s] = "cancel" /\ hook' = [hook EXCEPT ![w][s] = "ran"]
    /\ Cancel(handle[w])
    /\ UNCHANGED <<frame, thread, handle, stop, cancelled, proxy, woken>>
-----------------------------------------------------------------------------
(* The wait ends                                                           *)

\* The pool resumes the proxy, and through it the coroutine unless that is gone.
RunProxy(h) ==
    /\ Resume(h)
    /\ proxy' = Unreferenced(h)
    /\ frame' = IF proxy[h].state = Killed THEN frame ELSE [frame EXCEPT ![proxy[h].target] = "resumed"]
    /\ UNCHANGED <<thread, handle, stop, hook, cancelled, woken>>

\* await_resume, and the destructor of an awaiter that was resumed
Return(w) ==
    /\ frame[w] = "resumed" /\ Quiet(w)
    /\ frame' = [frame EXCEPT ![w] = IF cancelled[w] THEN "cancelled"
                                     ELSE IF dead THEN "failed" ELSE "elapsed"]
    /\ hook' = HooksOff(w)
    /\ proxy' = Unreferenced(handle[w])
    /\ UNCHANGED <<thread, handle, stop, cancelled, woken, serviceVars>>

\* The frame is destroyed while it is registered: kill the proxy ...
Destroy(w) ==
    /\ frame[w] = "parked" /\ thread[w] \in {"gate", "redo", "unpin", "done"} /\ Quiet(w)
    /\ frame' = [frame EXCEPT ![w] = "killed"]
    /\ hook' = HooksOff(w)
    /\ proxy' = [proxy EXCEPT ![handle[w]].state = Killed]
    /\ UNCHANGED <<thread, handle, stop, cancelled, woken, serviceVars>>

\* ... then cancel, which sends the killed proxy to the pool, and drop it.
Withdraw(w) ==
    /\ frame[w] = "killed" /\ frame' = [frame EXCEPT ![w] = "destroyed"]
    /\ Cancel(handle[w])
    /\ proxy' = Unreferenced(handle[w])
    /\ UNCHANGED <<thread, handle, stop, hook, cancelled, woken>>
-----------------------------------------------------------------------------
\* The Reactor completes waits, or dies and drops whom it holds in the pool.
Serve ==
    /\ Complete \/ (~dead /\ Die)
    /\ woken' = Woken(pending \ pending')
    /\ UNCHANGED <<awaiterVars, proxy>>

\* The threads of the runtime, which do not stop half way.
Runtime ==
    \/ \E w \in Wait :
          \/ Check(w) \/ Reclaim(w) \/ RegisterWait(w) \/ Pass(w) \/ Redo(w) \/ Unpin(w)
          \/ Return(w) \/ Withdraw(w)
          \/ \E s \in Source(w) : Flag(w, s) \/ Halt(w, s) \/ HookCancel(w, s)
    \/ \E h \in Handle : RunProxy(h)

Next ==
    \/ Runtime \/ Serve
    \/ \E w \in Wait : Suspend(w) \/ Destroy(w) \/ \E s \in Source(w) : RequestStop(w, s)

\* Nothing need ever become ready, but a dead loop wakes everybody.
Spec == Init /\ [][Next]_vars /\ WF_vars(Runtime) /\ WF_vars(dead /\ Serve)
-----------------------------------------------------------------------------
\* Types of the awaiters and their proxies.
TypeOK ==
    /\ frame \in [Wait -> Ended \cup {"idle", "parked", "resumed", "killed"}]
    /\ thread \in [Wait -> {"none", "armed", "reclaim", "register", "gate", "redo", "unpin", "done"}]
    /\ handle \in [Wait -> Handle \cup {"none"}] /\ \A w \in Wait : stop[w] \subseteq Source(w)
    /\ \A w \in Wait : hook[w] \in [Source(w) -> {"off", "armed", "flagged", "cancel", "ran"}]
    /\ cancelled \in [Wait -> BOOLEAN] /\ dead \in BOOLEAN
    /\ \A h \in Handle : proxy[h] = Free \/ proxy[h] \in [target : Wait, refs : 1..3, state : {0, Killed}, gate : 0..2]

One(b) == IF b THEN 1 ELSE 0

(***************************************************************************)
(* The proxy is freed exactly when its last user is done: its awaiter, the *)
(* thread that pinned it, and whoever is to resume it, which is the        *)
(* Reactor or the pool but never both and never twice.                     *)
(***************************************************************************)
ProxiesAreAccounted ==
    \A h \in Handle :
        LET users == {w \in Wait : handle[w] = h}
        IN  /\ flight[h] + One(h \in pending) <= 1
            /\ proxy[h].refs = One(\E w \in users : frame[w] \in {"parked", "resumed", "killed"})
                             + One(\E w \in users : thread[w] \in {"register", "gate", "redo", "unpin"})
                             + One(\E w \in users : thread[w] \in {"armed", "reclaim", "register"})
                             + One(h \in pending) + flight[h]

(***************************************************************************)
(* "A later waiter cannot have reused it and be woken early" (the comment  *)
(* in FdWaitAwaiter::await_suspend): a wait that ends in neither error nor *)
(* cancellation was completed by the Reactor, not by a cancel that was     *)
(* meant for an earlier proxy at its address.                              *)
(***************************************************************************)
NoForeignWake == \A w \in Wait : frame[w] = "elapsed" => woken[w]
=============================================================================
