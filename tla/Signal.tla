------------------------------- MODULE Signal -------------------------------
(***************************************************************************)
(* Telegraph::Signal (Wire/includes/TelegraphSignal.h): handlers that      *)
(* threads connect and disconnect while emissions run, and coroutines that *)
(* await the next emission, are cancelled, destroyed or outlive the        *)
(* Signal.                                                                 *)
(*                                                                         *)
(* The handler list is edited in place or copied.  An emission holds       *)
(* either the current list (shared, and then an edit in place changes what *)
(* it reads) or one that was replaced since.  Every section under Core::mu *)
(* is one step.                                                            *)
(***************************************************************************)
EXTENDS Naturals, Sequences, FiniteSets, SequencesExt

CONSTANTS
    Handler,        \* each is connected once at most
    Emitter,        \* each emits once
    Async,          \* those that call emitAsync
    Waiter,         \* coroutines that await next() once
    Scoped          \* those inside a cancellation scope

VARIABLES
    handlers,       \* Core::handlers, in registration order
    fresh,          \* handlers not yet connected
    active,         \* Core::active
    pending, dead,  \* Core::pending, Core::dead
    emit,           \* each emission: idle, wake, run or done
    view, shared,   \* the list of its snapshot, and whether that is Core::handlers
    seen,           \* what the snapshot held when it was taken
    took,           \* waiters it took out of pending
    ran,            \* handlers that ran, in that order
    tasks,          \* handler tasks on the pool: <<emission, handler>>
    wait,           \* each next(): start, arm, publish, parked, value, cancelled or destroyed
    bound, early, asked,    \* CancelBinding armed; earlyCancel; cancellation requested
    wakes           \* how often its proxy was resumed

listVars == <<handlers, fresh, active>>
emitVars == <<emit, view, shared, seen, took, ran, tasks>>
waitVars == <<pending, dead, wait, bound, early, asked, wakes>>
signalVars == <<listVars, emitVars, waitVars>>

Init ==
    /\ handlers = <<>> /\ fresh = Handler /\ active = 0
    /\ emit = [e \in Emitter |-> "idle"] /\ view = [e \in Emitter |-> <<>>]
    /\ shared = {} /\ seen = [e \in Emitter |-> <<>>] /\ took = [e \in Emitter |-> {}]
    /\ ran = [e \in Emitter |-> <<>>] /\ tasks = {}
    /\ pending = {} /\ dead = FALSE /\ wait = [w \in Waiter |-> "start"]
    /\ bound = {} /\ early = {} /\ asked = {} /\ wakes = [w \in Waiter |-> 0]
-----------------------------------------------------------------------------
(* connect and disconnect                                                  *)

InPlace(new) ==
    /\ handlers' = new /\ view' = [e \in Emitter |-> IF e \in shared THEN new ELSE view[e]]
    /\ UNCHANGED shared

Copied(new) == handlers' = new /\ shared' = {} /\ UNCHANGED view

\* An edit that does not ask for running emissions.
EditAlwaysInPlace(new) == InPlace(new)

\* In place only while no emission holds a snapshot; a list that becomes empty is dropped.
Edit(new) ==
    IF active = 0 /\ handlers # <<>> /\ new # <<>> THEN InPlace(new) ELSE Copied(new)

Connect(h) ==
    /\ ~dead /\ h \in fresh /\ fresh' = fresh \ {h} /\ Edit(Append(handlers, h))
    /\ UNCHANGED <<active, emit, seen, took, ran, tasks, waitVars>>

\* A ScopedConnection may do so after the Signal is gone, and finds nothing.
Disconnect(h) ==
    /\ h \in Range(handlers)
    /\ Edit(SelectSeq(handlers, LAMBDA x : x # h))
    /\ UNCHANGED <<fresh, active, emit, seen, took, ran, tasks, waitVars>>
-----------------------------------------------------------------------------
(* emit and emitAsync                                                      *)

Snapshot(e) ==
    /\ ~dead /\ emit[e] = "idle" /\ emit' = [emit EXCEPT ![e] = "wake"]
    /\ view' = [view EXCEPT ![e] = handlers] /\ seen' = [seen EXCEPT ![e] = handlers]
    /\ IF handlers = <<>> THEN UNCHANGED <<shared, active>>
       ELSE shared' = shared \cup {e} /\ active' = active + 1
    /\ took' = [took EXCEPT ![e] = pending] /\ pending' = {}
    /\ UNCHANGED <<handlers, fresh, ran, tasks, dead, wait, bound, early, asked, wakes>>

\* resumeOnPool of a proxy: whoever still waits behind it goes on.
Resume(w, l) ==
    /\ wakes' = [wakes EXCEPT ![w] = @ + 1]
    /\ wait' = [wait EXCEPT ![w] = IF @ = "parked" THEN l ELSE @]

\* The value is copied for the waiter; if that throws it is told the Signal is gone.
Wake(e, w) ==
    /\ emit[e] = "wake" /\ w \in took[e] /\ took' = [took EXCEPT ![e] = @ \ {w}]
    /\ \E l \in {"value", "cancelled"} : Resume(w, l)
    /\ UNCHANGED <<listVars, emit, view, shared, seen, ran, tasks, pending, dead, bound, early, asked>>

AllWoken(e) ==
    /\ emit[e] = "wake" /\ took[e] = {} /\ emit' = [emit EXCEPT ![e] = "run"]
    /\ UNCHANGED <<listVars, view, shared, seen, took, ran, tasks, waitVars>>

\* How far the loop over the snapshot has come.
Reached(e) == Len(ran[e]) + Cardinality({t \in tasks : t[1] = e})

\* The next handler runs, whether or not it throws; emitAsync makes it a task of the
\* pool, or runs it at once when the pool refuses.
Handle(e) ==
    /\ emit[e] = "run" /\ Reached(e) < Len(view[e])
    /\ LET h == view[e][Reached(e) + 1]
       IN  \/ ran' = [ran EXCEPT ![e] = Append(@, h)] /\ UNCHANGED tasks
           \/ e \in Async /\ tasks' = tasks \cup {<<e, h>>} /\ UNCHANGED ran
    /\ UNCHANGED <<listVars, emit, view, shared, seen, took, waitVars>>

\* ~Snapshot
Finish(e) ==
    /\ emit[e] = "run" /\ Reached(e) >= Len(view[e]) /\ emit' = [emit EXCEPT ![e] = "done"]
    /\ active' = IF seen[e] = <<>> THEN active ELSE active - 1
    /\ shared' = shared \ {e}
    /\ UNCHANGED <<handlers, fresh, view, seen, took, ran, tasks, waitVars>>

RunTask(t) ==
    /\ t \in tasks /\ tasks' = tasks \ {t}
    /\ ran' = [ran EXCEPT ![t[1]] = Append(@, t[2])]
    /\ emit[t[1]] = "done"      \* the order of tasks and loop does not matter
    /\ UNCHANGED <<listVars, emit, view, shared, seen, took, waitVars>>
-----------------------------------------------------------------------------
(* next()                                                                  *)

Set(w, l) == wait' = [wait EXCEPT ![w] = l]

Park(w) == Set(w, "parked") /\ pending' = pending \cup {w}

\* await_suspend: a pass under the lock, and another one after the hook is armed
Suspend(w) ==
    /\ wait[w] \in {"start", "publish"}
    /\ \/ (w \in early \/ dead) /\ Set(w, "cancelled") /\ UNCHANGED pending
       \/ w \notin early /\ ~dead /\ (w \notin Scoped \/ w \in bound) /\ Park(w)
       \/ /\ w \notin early /\ ~dead /\ w \in Scoped \ bound /\ UNCHANGED pending
          /\ Set(w, IF w \in asked THEN "cancelled" ELSE "arm")
    /\ UNCHANGED <<listVars, emitVars, dead, bound, early, asked, wakes>>

\* CancelBinding::arm runs the thunk at once when the cancellation came first.
Arm(w) ==
    /\ wait[w] = "arm" /\ Set(w, "publish") /\ bound' = bound \cup {w}
    /\ early' = IF w \in asked THEN early \cup {w} ELSE early
    /\ UNCHANGED <<listVars, emitVars, pending, dead, asked, wakes>>

Cancel(w) ==
    /\ w \in Scoped \ asked /\ wait[w] # "destroyed" /\ asked' = asked \cup {w}
    /\ UNCHANGED <<listVars, emitVars, pending, dead, wait, bound, early, wakes>>

\* cancelThunk: withdraw it, or leave a note for the pass to come
Thunk(w) ==
    /\ w \in asked \cap bound /\ wait[w] \in {"publish", "parked"} /\ w \notin early
    /\ IF w \in pending THEN pending' = pending \ {w} /\ Resume(w, "cancelled") /\ UNCHANGED early
       ELSE early' = early \cup {w} /\ UNCHANGED <<pending, wait, wakes>>
    /\ UNCHANGED <<listVars, emitVars, dead, bound, asked>>

\* The frame is destroyed where it is parked; a resume on its way finds the proxy retired.
Destroy(w) ==
    /\ wait[w] = "parked" /\ Set(w, "destroyed")
    /\ pending' = pending \ {w} /\ bound' = bound \ {w}
    /\ UNCHANGED <<listVars, emitVars, dead, early, asked, wakes>>

\* ~Signal, when no emission runs: every parked waiter is taken and resumed.
Die ==
    /\ ~dead /\ \A e \in Emitter : emit[e] \in {"idle", "done"}
    /\ dead' = TRUE /\ pending' = {} /\ handlers' = <<>>
    /\ wait' = [w \in Waiter |-> IF w \in pending THEN "cancelled" ELSE wait[w]]
    /\ wakes' = [w \in Waiter |-> IF w \in pending THEN wakes[w] + 1 ELSE wakes[w]]
    /\ UNCHANGED <<fresh, active, emitVars, bound, early, asked>>
-----------------------------------------------------------------------------
Progress ==
    \/ \E w \in Waiter : Suspend(w) \/ Arm(w) \/ Thunk(w)
    \/ \E e \in Emitter : AllWoken(e) \/ Handle(e) \/ Finish(e) \/ \E w \in Waiter : Wake(e, w)
    \/ \E t \in tasks : RunTask(t)

Next ==
    \/ Progress \/ Die
    \/ \E h \in Handler : Connect(h) \/ Disconnect(h)
    \/ \E e \in Emitter : Snapshot(e)
    \/ \E w \in Waiter : Cancel(w) \/ Destroy(w)

Spec == Init /\ [][Next]_signalVars /\ WF_signalVars(Progress)
-----------------------------------------------------------------------------
\* Types of the lists, the emissions and the waiters.
TypeOK ==
    /\ handlers \in Seq(Handler) /\ fresh \subseteq Handler /\ active \in 0..Cardinality(Emitter)
    /\ emit \in [Emitter -> {"idle", "wake", "run", "done"}] /\ shared \subseteq Emitter
    /\ \A e \in Emitter : view[e] \in Seq(Handler) /\ ran[e] \in Seq(Handler) /\ took[e] \subseteq Waiter
    /\ tasks \subseteq Emitter \X Handler /\ pending \subseteq Waiter /\ dead \in BOOLEAN
    /\ wait \in [Waiter -> {"start", "arm", "publish", "parked", "value", "cancelled", "destroyed"}]
    /\ bound \subseteq Waiter /\ early \subseteq Waiter /\ asked \subseteq Waiter

(***************************************************************************)
(* An emission calls the handlers that were connected when it took its     *)
(* snapshot, each once, whatever is connected or disconnected meanwhile    *)
(* and whether or not one throws; emit in the order of registration.       *)
(***************************************************************************)
EmissionIsWhole ==
    \A e \in Emitter :
        /\ e \notin Async => IsPrefix(ran[e], seen[e])
        /\ Range(ran[e]) \cup {t[2] : t \in {u \in tasks : u[1] = e}} \subseteq Range(seen[e])
        /\ emit[e] = "done" => Reached(e) = Len(seen[e])

\* Whoever is parked is on the list of a living Signal or was taken by an emission that
\* has yet to wake it; its proxy is resumed once.
NobodyParkedIdly ==
    \A w \in Waiter :
        /\ wait[w] = "parked" => (w \in pending /\ ~dead) \/ \E e \in Emitter : w \in took[e]
        /\ w \in pending => wait[w] = "parked"
        /\ wakes[w] <= 1

\* What must end a next(): an emission has taken it, it was cancelled, or the Signal died.
MustEnd(w) == wait[w] \in {"start", "arm", "publish", "parked"} /\ (dead \/ w \in asked \/ \E e \in Emitter : w \in took[e])
\* Emissions are few here, so that all is settled again and again.
Settled == tasks = {} /\ (\A e \in Emitter : emit[e] \in {"idle", "done"}) /\ \A w \in Waiter : ~MustEnd(w)
=============================================================================
