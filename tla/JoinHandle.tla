----------------------------- MODULE JoinHandle -----------------------------
(***************************************************************************)
(* JoinHandle (Yarn/includes/JoinHandle.h): one atomic word between the    *)
(* runner of a spawned task and its joiner.  The word is empty, holds the  *)
(* address of the joiner's proxy, or says that the result is ready.  A     *)
(* join that was cancelled may be followed by another one; the proxy of    *)
(* the new join may be given the address of the old.                       *)
(*                                                                         *)
(* Once a joiner is in the word the pool may resume its frame while the    *)
(* thread that suspended it is still in await_suspend: `look' is what that *)
(* thread has left to do.                                                  *)
(***************************************************************************)
EXTENDS Naturals

CONSTANTS Addr, MaxJoins

Joins == 1..MaxJoins

VARIABLES
    word,           \* JoinState::state: "empty", "ready" or an address
    runner,         \* running, stored (value written) or done (published)
    pc,             \* idle, encoded, armed, parked, result, cancelled or gone
    addr,           \* JoinAwaiter::encoded
    look,           \* none, check (poll the watch) or unpark
    hook,           \* the cancel hook: none, armed, fired (latch set) or done
    stop,           \* is the scope of the join cancelled?
    cancelled,      \* JoinAwaiter::cancelled
    wake            \* a resumption of the frame is scheduled

vars == <<word, runner, pc, addr, look, hook, stop, cancelled, wake>>

Init ==
    /\ word = "empty" /\ runner = "running"
    /\ pc = [g \in Joins |-> "idle"] /\ addr = [g \in Joins |-> "none"]
    /\ look = [g \in Joins |-> "none"] /\ hook = [g \in Joins |-> "none"]
    /\ stop = [g \in Joins |-> FALSE] /\ cancelled = [g \in Joins |-> FALSE]
    /\ wake = [g \in Joins |-> FALSE]

\* joinRunner
Store ==
    /\ runner = "running" /\ runner' = "stored"
    /\ UNCHANGED <<word, pc, addr, look, hook, stop, cancelled, wake>>

Registered(g) == pc[g] = "parked" /\ word = addr[g]

\* publishJoinReady
PublishJoinReady ==
    /\ runner = "stored" /\ runner' = "done" /\ word' = "ready"
    /\ wake' = [g \in Joins |-> wake[g] \/ Registered(g)]
    /\ UNCHANGED <<pc, addr, look, hook, stop, cancelled>>

\* await_ready, then await_suspend up to the publication of the proxy
Join(g) ==
    /\ pc[g] = "idle" /\ (g > 1 => pc[g - 1] = "cancelled")
    /\ \/ word = "ready" /\ pc' = [pc EXCEPT ![g] = "result"] /\ UNCHANGED addr
       \/ word # "ready" /\ stop[g] /\ pc' = [pc EXCEPT ![g] = "cancelled"] /\ UNCHANGED addr
       \/ /\ word # "ready" /\ ~stop[g]
          /\ pc' = [pc EXCEPT ![g] = "encoded"]
          /\ \E a \in Addr : addr' = [addr EXCEPT ![g] = a]
    /\ UNCHANGED <<word, runner, look, hook, stop, cancelled, wake>>

\* armWatched; on a chain that is cancelled already the callback runs inline, and
\* finds nobody in the word.
Arm(g) ==
    /\ pc[g] = "encoded" /\ pc' = [pc EXCEPT ![g] = "armed"]
    /\ hook' = [hook EXCEPT ![g] = IF stop[g] THEN "done" ELSE "armed"]
    /\ UNCHANGED <<word, runner, addr, look, stop, cancelled, wake>>

\* The compare-and-swap into the word; it fails when the result is ready, and then
\* disarm waits for a callback that is running.
Park(g) ==
    /\ pc[g] = "armed"
    /\ \/ /\ word = "empty" /\ word' = addr[g]
          /\ pc' = [pc EXCEPT ![g] = "parked"] /\ look' = [look EXCEPT ![g] = "check"]
       \/ /\ word = "ready" /\ hook[g] # "fired"
          /\ pc' = [pc EXCEPT ![g] = "result"] /\ UNCHANGED <<word, look>>
    /\ UNCHANGED <<runner, addr, hook, stop, cancelled, wake>>

\* The watch tells whether the callback ran before the joiner was in the word.
Check(g) ==
    /\ look[g] = "check"
    /\ look' = [look EXCEPT ![g] = IF hook[g] \in {"fired", "done"} THEN "unpark" ELSE "none"]
    /\ UNCHANGED <<word, runner, pc, addr, hook, stop, cancelled, wake>>

\* If so the joiner takes itself out of the word, and resumes.
Unpark(g) ==
    /\ look[g] = "unpark" /\ look' = [look EXCEPT ![g] = "none"]
    /\ word' = IF word = addr[g] THEN "empty" ELSE word
    /\ cancelled' = [cancelled EXCEPT ![g] = @ \/ Registered(g)]
    /\ wake' = [wake EXCEPT ![g] = @ \/ Registered(g)]
    /\ UNCHANGED <<runner, pc, addr, hook, stop>>

RequestStop(g) ==
    /\ ~stop[g] /\ stop' = [stop EXCEPT ![g] = TRUE]
    /\ UNCHANGED <<word, runner, pc, addr, look, hook, cancelled, wake>>

\* The cancelling thread sets the watch and then runs onCancel.
Fire(g) ==
    /\ hook[g] = "armed" /\ stop[g] /\ pc[g] \in {"armed", "parked"}
    /\ hook' = [hook EXCEPT ![g] = "fired"]
    /\ UNCHANGED <<word, runner, pc, addr, look, stop, cancelled, wake>>

OnCancel(g) ==
    /\ hook[g] = "fired" /\ hook' = [hook EXCEPT ![g] = "done"]
    /\ word' = IF word = addr[g] THEN "empty" ELSE word
    /\ cancelled' = [cancelled EXCEPT ![g] = @ \/ word = addr[g]]
    /\ wake' = [wake EXCEPT ![g] = @ \/ word = addr[g]]
    /\ UNCHANGED <<runner, pc, addr, look, stop>>

\* The pool resumes the joiner, whose awaiter goes away: disarm waits for the callback.
Resume(g) ==
    /\ pc[g] = "parked" /\ wake[g] /\ hook[g] # "fired"
    /\ wake' = [wake EXCEPT ![g] = FALSE]
    /\ pc' = [pc EXCEPT ![g] = IF cancelled[g] THEN "cancelled" ELSE "result"]
    /\ UNCHANGED <<word, runner, addr, look, hook, stop, cancelled>>

\* ~JoinAwaiter of a parked joiner; a resumption in flight is swallowed.
Destroy(g) ==
    /\ pc[g] = "parked" /\ hook[g] # "fired" /\ pc' = [pc EXCEPT ![g] = "gone"]
    /\ word' = IF word = addr[g] THEN "empty" ELSE word
    /\ wake' = [wake EXCEPT ![g] = FALSE]
    /\ UNCHANGED <<runner, addr, look, hook, stop, cancelled>>

JoinerStep(g) ==
    Arm(g) \/ Park(g) \/ Check(g) \/ Unpark(g) \/ Fire(g) \/ OnCancel(g) \/ Resume(g)

Next ==
    \/ Store \/ PublishJoinReady
    \/ \E g \in Joins : Join(g) \/ RequestStop(g) \/ Destroy(g) \/ JoinerStep(g)

\* Everything but the end of the task itself.
Progress == PublishJoinReady \/ \E g \in Joins : JoinerStep(g)

Spec == Init /\ [][Next]_vars
-----------------------------------------------------------------------------
\* The states of the runner and the joiners; the word says ready once the runner is done.
TypeOK ==
    /\ word \in {"empty", "ready"} \cup Addr /\ runner \in {"running", "stored", "done"}
    /\ runner = "done" => word = "ready"
    /\ pc \in [Joins -> {"idle", "encoded", "armed", "parked", "result", "cancelled", "gone"}]
    /\ hook \in [Joins -> {"none", "armed", "fired", "done"}]

\* A join that returns a result finds it written.
ResultIsStored == \A g \in Joins : pc[g] = "result" => runner # "running"

\* A parked joiner that no wake is on its way to is still in the word, where the
\* runner finds it: no join is forgotten.
ParkedIsRegistered == \A g \in Joins : pc[g] = "parked" /\ ~wake[g] => word = addr[g]

\* A join returns once the task is over or its scope is stopped, even when the
\* task never ends.
MustReturn(g) == pc[g] \in {"encoded", "armed", "parked"} /\ (runner = "done" \/ stop[g])
Over(g) == pc[g] \in {"result", "cancelled", "gone"}
=============================================================================
