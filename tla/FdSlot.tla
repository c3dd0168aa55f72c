------------------------------- MODULE FdSlot -------------------------------
(***************************************************************************)
(* The descriptor of a serial port or a GPIO line                          *)
(* (Embedded/includes/FdSlot.h): close() publishes -1, wakes the parked    *)
(* waiters and parks the descriptor in pending, and whoever drops the      *)
(* in-flight count to zero closes it.  A thread that suspends an operation *)
(* holds a count of its own, so that its late cancel cannot hit a number   *)
(* that was closed and belongs to somebody else by then.                   *)
(***************************************************************************)
EXTENDS Naturals

CONSTANTS
    Op,         \* coroutines with one operation at a time
    Closer,     \* threads that call close()
    MaxUses     \* how many operations begin, of all coroutines

VARIABLES
    has,        \* FdSlot::fd is not -1
    pending,    \* FdSlot::pending is not -1
    inflight,
    open,       \* the descriptor is not closed; afterwards its number is reused
    op,         \* idle, load, use, register, parked, leave, release or failed
    got,        \* Guard::value is not -1
    susp,       \* the thread in Wait::await_suspend
    closer,
    stranger,   \* an unrelated waiter on the number: none, parked, woken
    crossed,    \* a Guard of u was taken while somebody was about to release
    uses

slotVars == <<has, pending, inflight, open>>
vars == <<slotVars, op, got, susp, closer, stranger, crossed, uses>>

Init ==
    /\ has = TRUE /\ pending = FALSE /\ inflight = 0 /\ open = TRUE
    /\ op = [u \in Op |-> "idle"] /\ got = [u \in Op |-> FALSE]
    /\ susp = [u \in Op |-> "none"] /\ closer = [c \in Closer |-> "idle"]
    /\ stranger = "none" /\ crossed = [u \in Op |-> FALSE] /\ uses = 0

Releasing ==
    \/ \E u \in Op : op[u] = "release" \/ susp[u] = "release"
    \/ \E c \in Closer : closer[c] = "release"

\* Reactor::cancelFd
Woken == [u \in Op |-> IF op[u] = "parked" THEN "leave" ELSE op[u]]
StrangerWoken == IF stranger = "parked" THEN "woken" ELSE stranger
-----------------------------------------------------------------------------
(* One operation                                                           *)

\* Guard: count first, load second.
Enter(u) ==
    /\ op[u] = "idle" /\ op' = [op EXCEPT ![u] = "load"] /\ inflight' = inflight + 1
    /\ uses < MaxUses /\ uses' = uses + 1
    /\ crossed' = [crossed EXCEPT ![u] = Releasing \/ (@ /\ susp[u] # "none")]
    /\ UNCHANGED <<has, pending, open, got, susp, closer, stranger>>

Load(u) ==
    /\ op[u] = "load" /\ got' = [got EXCEPT ![u] = has]
    /\ op' = [op EXCEPT ![u] = IF has THEN "use" ELSE "leave"]
    /\ UNCHANGED <<slotVars, susp, closer, stranger, crossed, uses>>

\* What `Guard hold(s)' counts for.
HoldCount == 1

\* Wait::await_suspend: hold the descriptor for the whole call, ...
Hold(u) ==
    /\ op[u] = "use" /\ susp[u] = "none" /\ op' = [op EXCEPT ![u] = "register"]
    /\ inflight' = inflight + HoldCount
    /\ UNCHANGED <<has, pending, open, got, susp, closer, stranger, crossed, uses>>

\* ... register, ...
RegisterWait(u) ==
    /\ op[u] = "register" /\ op' = [op EXCEPT ![u] = "parked"]
    /\ susp' = [susp EXCEPT ![u] = "recheck"]
    /\ UNCHANGED <<slotVars, got, closer, stranger, crossed, uses>>

\* ... look at the slot again, ...
Recheck(u) ==
    /\ susp[u] = "recheck"
    /\ susp' = [susp EXCEPT ![u] = IF has THEN "leave" ELSE "cancel"]
    /\ UNCHANGED <<slotVars, op, got, closer, stranger, crossed, uses>>

\* ... cancel if close() came first ...
LateCancel(u) ==
    /\ susp[u] = "cancel" /\ susp' = [susp EXCEPT ![u] = "leave"]
    /\ op' = Woken /\ stranger' = StrangerWoken
    /\ UNCHANGED <<slotVars, got, closer, crossed, uses>>

\* ... and drop the hold.
DropHold(u) ==
    /\ susp[u] = "leave" /\ inflight' = inflight - HoldCount
    /\ susp' = [susp EXCEPT ![u] = IF inflight = HoldCount THEN "release" ELSE "none"]
    /\ UNCHANGED <<has, pending, open, op, got, closer, stranger, crossed, uses>>

Ready(u) ==
    /\ op[u] = "parked" /\ op' = [op EXCEPT ![u] = "leave"]
    /\ UNCHANGED <<slotVars, got, susp, closer, stranger, crossed, uses>>

\* The operation is over; on a closed slot it failed.
Over(u) ==
    /\ op' = [op EXCEPT ![u] = IF got[u] THEN "idle" ELSE "failed"]
    /\ got' = [got EXCEPT ![u] = FALSE]

\* ~Guard
Leave(u) ==
    /\ op[u] \in {"use", "leave"} /\ inflight' = inflight - 1
    /\ IF inflight = 1 THEN op' = [op EXCEPT ![u] = "release"] /\ UNCHANGED got ELSE Over(u)
    /\ UNCHANGED <<has, pending, open, susp, closer, stranger, crossed, uses>>

\* release: close the parked descriptor, once.
Release == pending' = FALSE /\ open' = (open /\ ~pending)

ReleaseOp(u) ==
    /\ op[u] = "release" /\ Release /\ Over(u)
    /\ UNCHANGED <<has, inflight, susp, closer, stranger, crossed, uses>>

ReleaseHold(u) ==
    /\ susp[u] = "release" /\ Release /\ susp' = [susp EXCEPT ![u] = "none"]
    /\ UNCHANGED <<has, inflight, op, got, closer, stranger, crossed, uses>>
-----------------------------------------------------------------------------
(* close()                                                                 *)

At(c, from, to) == closer[c] = from /\ closer' = [closer EXCEPT ![c] = to]

Exchange(c) ==
    /\ At(c, "idle", IF has THEN "wake" ELSE "done") /\ has' = FALSE
    /\ UNCHANGED <<pending, inflight, open, op, got, susp, stranger, crossed, uses>>

WakeParked(c) ==
    /\ At(c, "wake", "park") /\ op' = Woken /\ stranger' = StrangerWoken
    /\ UNCHANGED <<slotVars, got, susp, crossed, uses>>

ParkFd(c) ==
    /\ At(c, "park", "check") /\ pending' = TRUE
    /\ UNCHANGED <<has, inflight, open, op, got, susp, stranger, crossed, uses>>

Check(c) ==
    /\ At(c, "check", IF inflight = 0 THEN "release" ELSE "done")
    /\ UNCHANGED <<slotVars, op, got, susp, stranger, crossed, uses>>

ReleaseClose(c) ==
    /\ At(c, "release", "done") /\ Release
    /\ UNCHANGED <<has, inflight, op, got, susp, stranger, crossed, uses>>

\* Somebody else opens a file, gets the number and waits for it.
Reuse ==
    /\ ~open /\ stranger = "none" /\ stranger' = "parked"
    /\ UNCHANGED <<slotVars, op, got, susp, closer, crossed, uses>>
-----------------------------------------------------------------------------
\* The threads go on with what they began; nobody has to begin.
Progress ==
    \/ \E u \in Op :
          \/ Load(u) \/ RegisterWait(u) \/ Leave(u) \/ ReleaseOp(u)
          \/ Recheck(u) \/ LateCancel(u) \/ DropHold(u) \/ ReleaseHold(u)
    \/ \E c \in Closer : WakeParked(c) \/ ParkFd(c) \/ Check(c) \/ ReleaseClose(c)

Next ==
    \/ Progress \/ Reuse
    \/ \E u \in Op : Enter(u) \/ Hold(u) \/ Ready(u)
    \/ \E c \in Closer : Exchange(c)

Spec == Init /\ [][Next]_vars /\ WF_vars(Progress)
-----------------------------------------------------------------------------
\* Types of the slot, its operations and its closers.
TypeOK ==
    /\ has \in BOOLEAN /\ pending \in BOOLEAN /\ inflight \in Nat /\ open \in BOOLEAN
    /\ op \in [Op -> {"idle", "load", "use", "register", "parked", "leave", "release", "failed"}]
    /\ susp \in [Op -> {"none", "recheck", "cancel", "leave", "release"}]
    /\ closer \in [Closer -> {"idle", "wake", "park", "check", "release", "done"}]
    /\ got \in [Op -> BOOLEAN] /\ stranger \in {"none", "parked", "woken"}

(***************************************************************************)
(* The descriptor of a Guard is not closed while the Guard lives, unless   *)
(* the Guard was taken between another thread's last count-down and its    *)
(* release.                                                                *)
(***************************************************************************)
GuardedStaysOpen ==
    \A u \in Op : got[u] /\ op[u] \in {"use", "register", "parked", "leave"} => open \/ crossed[u]

(***************************************************************************)
(* "The ::close() waits until the late cancel below is done" (Wait): no    *)
(* cancel of this slot wakes the next owner of the number, with the same   *)
(* exception.                                                              *)
(***************************************************************************)
ForeignCancelCrossed == stranger' = "woken" => stranger = "woken" \/ \E u \in Op : crossed[u]
=============================================================================
