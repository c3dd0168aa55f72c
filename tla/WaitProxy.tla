----------------------------- MODULE WaitProxy ------------------------------
(***************************************************************************)
(* The proxy coroutine that stands in for a parked coroutine in every wait *)
(* list (Yarn/includes/Cancellation.h), step by step: the thread that      *)
(* resumes it, the thread that destroys the frame of the awaiter, and the  *)
(* grant (ownership of an AsyncMutex) that a wake hands over.              *)
(***************************************************************************)
EXTENDS Naturals, Sequences, FiniteSets
LOCAL INSTANCE SequencesExt

CONSTANTS
    Waiter,
    Racy        \* whether a frame may be destroyed while the pool is running its proxy

VARIABLES
    frame,      \* running, parked, resumed, holding or dead
    queue,      \* the wait list
    held,       \* the mutex is locked
    cancelled,  \* the awaiter was withdrawn by a cancellation
    alive,      \* the proxy coroutine is allocated
    refs,       \* its references
    state,      \* 0 parked, 1 resumed, 2 awaiter destroyed first
    rpc,        \* the resumer: none, flight (a pool task holds the handle), unref, transfer
    next,       \* the resumer transfers to the awaiting coroutine, not to noop
    apc         \* abandon(): none, check, kill, drop or dropRevoke, revoke

proxyVars == <<alive, refs, state>>
vars == <<frame, queue, held, cancelled, alive, refs, state, rpc, next, apc>>

All(x) == [w \in Waiter |-> x]

Init ==
    /\ frame = All("running") /\ queue = <<>> /\ held = FALSE
    /\ cancelled = All(FALSE)
    /\ alive = All(FALSE) /\ refs = All(0) /\ state = All(0)
    /\ rpc = All("none") /\ next = All(FALSE) /\ apc = All("none")

Set(f, w, x) == [f EXCEPT ![w] = x]
Queued(w) == \E k \in DOMAIN queue : queue[k] = w
Without(w) == RemoveAt(queue, CHOOSE k \in DOMAIN queue : queue[k] = w)

\* AsyncMutex::release_one: free the mutex or send its first waiter a wake.
ReleaseOne ==
    \/ /\ queue = <<>>
       /\ held' = FALSE
       /\ UNCHANGED <<queue, rpc>>
    \/ /\ queue # <<>>
       /\ queue' = Tail(queue)
       /\ rpc' = Set(rpc, Head(queue), "flight")
       /\ UNCHANGED held
-----------------------------------------------------------------------------
(* The coroutine                                                           *)

\* lock(): at once, or park behind a fresh proxy.
Park(w) ==
    /\ frame[w] = "running"
    /\ ~alive[w] /\ rpc[w] = "none"
    /\ cancelled' = Set(cancelled, w, FALSE)
    /\ \/ /\ ~held
          /\ held' = TRUE
          /\ frame' = Set(frame, w, "holding")
          /\ UNCHANGED <<queue, proxyVars>>
       \/ /\ held
          /\ frame' = Set(frame, w, "parked")
          /\ queue' = Append(queue, w)
          /\ alive' = Set(alive, w, TRUE) /\ refs' = Set(refs, w, 2) /\ state' = Set(state, w, 0)
          /\ UNCHANGED held
    /\ UNCHANGED <<rpc, next, apc>>

Unlock(w) ==
    /\ frame[w] = "holding"
    /\ frame' = Set(frame, w, "running")
    /\ ReleaseOne
    /\ UNCHANGED <<cancelled, proxyVars, next, apc>>

\* cancelThunk; once abandon() has disarmed the binding it no longer fires.
Cancel(w) ==
    /\ Queued(w) /\ apc[w] = "none"
    /\ cancelled' = Set(cancelled, w, TRUE)
    /\ queue' = Without(w)
    /\ rpc' = Set(rpc, w, "flight")
    /\ UNCHANGED <<frame, held, proxyVars, next, apc>>
-----------------------------------------------------------------------------
(* The pool resumes the proxy (ProxyCoro::promise_type::Final)             *)

Exchange(w) ==
    /\ rpc[w] = "flight"
    /\ Racy \/ apc[w] \notin {"check", "kill"}
    /\ next' = Set(next, w, state[w] # 2)
    /\ state' = Set(state, w, 1)
    /\ rpc' = Set(rpc, w, "unref")
    /\ UNCHANGED <<frame, queue, held, cancelled, alive, refs, apc>>

\* Drop one reference; the last one frees the proxy.
Unreference(w) ==
    /\ refs' = Set(refs, w, refs[w] - 1)
    /\ alive' = Set(alive, w, refs[w] # 1)

Unref(w) ==
    /\ rpc[w] = "unref"
    /\ Unreference(w)
    /\ rpc' = Set(rpc, w, "transfer")
    /\ UNCHANGED <<frame, queue, held, cancelled, state, next, apc>>

\* What resuming a destroyed frame does is undefined; it is left as it is.
Transfer(w) ==
    /\ rpc[w] = "transfer"
    /\ rpc' = Set(rpc, w, "none")
    /\ frame' = IF next[w] /\ frame[w] = "parked" THEN Set(frame, w, "resumed") ELSE frame
    /\ UNCHANGED <<queue, held, cancelled, proxyVars, next, apc>>
-----------------------------------------------------------------------------
(* The awaiter goes away (ParkBase::abandon, WaitProxy::retire): because   *)
(* the resumed coroutine is past its co_await, or because the owner of the *)
(* suspended frame destroys it.                                            *)

Abandon(w) ==
    /\ apc[w] = "none"
    /\ \/ frame[w] = "resumed"
       \/ frame[w] = "parked" /\ (Racy \/ rpc[w] \in {"none", "flight"})
    /\ apc' = Set(apc, w, "check")
    /\ UNCHANGED <<frame, queue, held, cancelled, proxyVars, rpc, next>>

\* The frame once abandon() has returned.
Gone(w) ==
    /\ apc' = Set(apc, w, "none")
    /\ frame' = Set(frame, w, IF frame[w] = "parked" THEN "dead"
                              ELSE IF cancelled[w] THEN "running" ELSE "holding")

\* A node still queued is unlinked and its proxy reclaimed.
Check(w) ==
    /\ apc[w] = "check"
    /\ \/ /\ Queued(w)
          /\ queue' = Without(w)
          /\ alive' = Set(alive, w, FALSE) /\ refs' = Set(refs, w, 0)
          /\ Gone(w)
       \/ /\ ~Queued(w)
          /\ apc' = Set(apc, w, "kill")
          /\ UNCHANGED <<frame, queue, alive, refs>>
    /\ UNCHANGED <<held, cancelled, state, rpc, next>>

Kill(w) ==
    /\ apc[w] = "kill"
    /\ state' = Set(state, w, IF state[w] = 0 THEN 2 ELSE state[w])
    /\ apc' = Set(apc, w, IF state[w] = 0 /\ ~cancelled[w] THEN "dropRevoke" ELSE "drop")
    /\ UNCHANGED <<frame, queue, held, cancelled, alive, refs, rpc, next>>

Drop(w) ==
    /\ apc[w] \in {"drop", "dropRevoke"}
    /\ Unreference(w)
    /\ \/ apc[w] = "drop" /\ Gone(w)
       \/ apc[w] = "dropRevoke" /\ apc' = Set(apc, w, "revoke") /\ UNCHANGED frame
    /\ UNCHANGED <<queue, held, cancelled, state, rpc, next>>

\* The dropped wake carried ownership: give it back.
Revoke(w) ==
    /\ apc[w] = "revoke"
    /\ Gone(w)
    /\ ReleaseOne
    /\ UNCHANGED <<cancelled, proxyVars, next>>

\* Another coroutine comes to the mutex.
Respawn(w) ==
    /\ frame[w] = "dead" /\ rpc[w] = "none" /\ ~alive[w]
    /\ frame' = Set(frame, w, "running")
    /\ UNCHANGED <<queue, held, cancelled, proxyVars, rpc, next, apc>>
-----------------------------------------------------------------------------
Resume(w) == Exchange(w) \/ Unref(w) \/ Transfer(w)
Retire(w) == Abandon(w) \/ Check(w) \/ Kill(w) \/ Drop(w) \/ Revoke(w)

Next ==
    \E w \in Waiter : Park(w) \/ Unlock(w) \/ Cancel(w) \/ Respawn(w) \/ Resume(w) \/ Retire(w)

Spec == Init /\ [][Next]_vars
-----------------------------------------------------------------------------
\* Types and ranges of the variables.
TypeOK ==
    /\ frame \in [Waiter -> {"running", "parked", "resumed", "holding", "dead"}]
    /\ queue \in Seq(Waiter) /\ held \in BOOLEAN
    /\ cancelled \in [Waiter -> BOOLEAN]
    /\ alive \in [Waiter -> BOOLEAN] /\ refs \in [Waiter -> 0..2] /\ state \in [Waiter -> 0..2]
    /\ rpc \in [Waiter -> {"none", "flight", "unref", "transfer"}]
    /\ next \in [Waiter -> BOOLEAN]
    /\ apc \in [Waiter -> {"none", "check", "kill", "drop", "dropRevoke", "revoke"}]

\* Who still refers to the proxy: its queue or resumer, and its awaiter.
ResumerRefers(w) == Queued(w) \/ rpc[w] \in {"flight", "unref"}
AwaiterRefers(w) == \/ frame[w] \in {"parked", "resumed"} /\ apc[w] # "revoke"
                    \/ apc[w] \in {"check", "kill", "drop", "dropRevoke"}

(***************************************************************************)
(* The proxy is freed exactly when the last of its two users is done with  *)
(* it: neither the pool task that runs it nor the awaiter's retire touches *)
(* a freed proxy, and none is leaked, in every order of wake, cancel and   *)
(* destruction.                                                            *)
(***************************************************************************)
ProxyLivesAsLongAsUsed ==
    \A w \in Waiter :
        /\ alive[w] = (ResumerRefers(w) \/ AwaiterRefers(w))
        /\ alive[w] => refs[w] = (IF ResumerRefers(w) THEN 1 ELSE 0)
                               + (IF AwaiterRefers(w) THEN 1 ELSE 0)

\* The frame's destruction is complete or under way past the point of no return.
Destroyed(w) == frame[w] = "dead" \/ (frame[w] = "parked" /\ apc[w] \in {"drop", "dropRevoke", "revoke"})

(***************************************************************************)
(* "Exactly one of 'resumed' and 'destroyed' wins that state, so a frame   *)
(* destroyed at the very moment it is being woken is never resumed         *)
(* afterwards": no resumer is about to transfer to a destroyed frame.      *)
(***************************************************************************)
NeverResumedAfterDestroyed ==
    \A w \in Waiter : rpc[w] = "transfer" /\ next[w] => ~Destroyed(w)

\* The waiters that own the mutex, or have a claim on it in flight.
Claims == {w \in Waiter :
              \/ frame[w] = "holding"
              \/ frame[w] \in {"parked", "resumed"} /\ ~Queued(w) /\ ~cancelled[w]}

(***************************************************************************)
(* An await that had been handed the mutex when its frame died gives it    *)
(* back: while the mutex is held, exactly one coroutine owns it, is being  *)
(* woken with it or is giving it back; while it is free, nobody is.        *)
(***************************************************************************)
GrantHasOneOwner == Cardinality(Claims) = (IF held THEN 1 ELSE 0)
=============================================================================
