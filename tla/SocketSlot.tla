----------------------------- MODULE SocketSlot -----------------------------
(***************************************************************************)
(* The owner of a socket's descriptor (Soccer/includes/NetUtil.h), used by *)
(* the operations of a TcpStream or TcpListener while other threads close, *)
(* interrupt or refill it.  Every operation is counted in before it loads  *)
(* the descriptor, and a closer hands the descriptor to whoever counts     *)
(* down to zero.  An operation that waits for readiness registers first    *)
(* and looks at the slot again afterwards, on a thread that may by then be *)
(* behind the operation itself.  Files are numbered in the order in which  *)
(* the slot gets them; a number is never reused here.                      *)
(***************************************************************************)
EXTENDS Naturals, Sequences, SequencesExt

CONSTANTS
    Op,             \* coroutines with one operation at a time
    Closer,         \* threads that may call close()
    MaxFiles,       \* how many files the slot gets to own
    MaxDeferred,    \* kMaxDeferred
    MaxUses         \* how many operations begin, of all coroutines

None == 0
File == 1..MaxFiles

VARIABLES
    fdValue, busy, interrupted, deferred,   \* SocketSlot::State
    open,       \* files that are not closed yet
    last,       \* the last file that was put in the slot
    op,         \* idle, load, use, kick, parked, end, flush or failed
    value,      \* Use::value
    susp,       \* the thread in SlotWait::await_suspend: its place and waitFd
    closer,     \* close(): its place and the descriptor it took
    crossed,    \* the Use began while somebody who had seen no Use was about to flush
    evicted,    \* closed because too many were deferred
    uses

slotVars == <<fdValue, busy, interrupted, deferred>>
ghosts == <<crossed, evicted, uses>>
vars == <<slotVars, open, last, op, value, susp, closer, ghosts>>

Idle == [at |-> "idle", fd |-> None]

Init ==
    /\ fdValue = 1 /\ busy = 0 /\ interrupted = FALSE /\ deferred = <<>>
    /\ open = {1} /\ last = 1
    /\ op = [u \in Op |-> "idle"] /\ value = [u \in Op |-> None]
    /\ susp = [u \in Op |-> Idle] /\ closer = [c \in Closer |-> Idle]
    /\ crossed = [u \in Op |-> FALSE] /\ evicted = {} /\ uses = 0

Flushing == (\E u \in Op : op[u] = "flush") \/ (\E c \in Closer : closer[c].at = "flush")
Parked(fd) == {u \in Op : op[u] = "parked" /\ value[u] = fd}

\* Reactor::cancelFd, with u at "end" next when it is one of the callers
Woken(fd) == [u \in Op |-> IF u \in Parked(fd) THEN "end" ELSE op[u]]
-----------------------------------------------------------------------------
(* One operation                                                           *)

\* A begin that does not count itself in.
BeginUncounted(u) ==
    /\ op[u] = "idle" /\ op' = [op EXCEPT ![u] = "load"]
    /\ uses < MaxUses /\ uses' = uses + 1
    /\ UNCHANGED <<slotVars, open, last, value, susp, closer, crossed, evicted>>

\* begin: count first ...
Begin(u) ==
    /\ op[u] = "idle" /\ op' = [op EXCEPT ![u] = "load"]
    /\ uses < MaxUses /\ uses' = uses + 1
    /\ busy' = busy + 1
    /\ crossed' = [crossed EXCEPT ![u] = Flushing]
    /\ UNCHANGED <<fdValue, interrupted, deferred, open, last, value, susp, closer, evicted>>

\* ... load second; an empty slot fails the operation.
Load(u) ==
    /\ op[u] = "load" /\ value' = [value EXCEPT ![u] = fdValue]
    /\ op' = [op EXCEPT ![u] = IF fdValue = None THEN "end" ELSE "use"]
    /\ UNCHANGED <<slotVars, open, last, susp, closer, ghosts>>

\* TcpListener::interruptAccept sets the flag, then wakes who is parked.
Interrupt(u) ==
    /\ op[u] = "use" /\ op' = [op EXCEPT ![u] = "kick"] /\ interrupted' = TRUE
    /\ UNCHANGED <<fdValue, busy, deferred, open, last, value, susp, closer, ghosts>>

Kick(u) ==
    /\ op[u] = "kick" /\ op' = [Woken(value[u]) EXCEPT ![u] = "end"]
    /\ UNCHANGED <<slotVars, open, last, value, susp, closer, ghosts>>

\* EAGAIN: SlotWait registers with the Reactor ...
Park(u) ==
    /\ op[u] = "use" /\ susp[u] = Idle
    /\ op' = [op EXCEPT ![u] = "parked"]
    /\ susp' = [susp EXCEPT ![u] = [at |-> "recheck", fd |-> value[u]]]
    /\ UNCHANGED <<slotVars, open, last, value, closer, ghosts>>

\* ... and looks at the slot again ...
Recheck(u) ==
    /\ susp[u].at = "recheck"
    /\ susp' = [susp EXCEPT ![u] = IF fdValue # susp[u].fd \/ interrupted THEN [@ EXCEPT !.at = "cancel"]
                                   ELSE Idle]
    /\ UNCHANGED <<slotVars, open, last, op, value, closer, ghosts>>

\* ... and wakes the waiters itself if it was emptied or interrupted.
LateCancel(u) ==
    /\ susp[u].at = "cancel" /\ susp' = [susp EXCEPT ![u] = Idle]
    /\ op' = Woken(susp[u].fd)
    /\ UNCHANGED <<slotVars, open, last, value, closer, ghosts>>

Ready(u) ==
    /\ op[u] = "parked" /\ op' = [op EXCEPT ![u] = "end"]
    /\ UNCHANGED <<slotVars, open, last, value, susp, closer, ghosts>>

\* The operation is over; on an empty slot it failed.
Over(u) ==
    /\ op' = [op EXCEPT ![u] = IF value[u] = None THEN "failed" ELSE "idle"]
    /\ value' = [value EXCEPT ![u] = None] /\ crossed' = [crossed EXCEPT ![u] = FALSE]

\* The system call (or shutdownIf) is done, or the wait is: ~Use counts down; at zero
\* it is to flush.
End(u) ==
    /\ op[u] \in {"use", "end"} /\ busy' = busy - 1
    /\ IF busy = 1 THEN op' = [op EXCEPT ![u] = "flush"] /\ UNCHANGED <<value, crossed>> ELSE Over(u)
    /\ UNCHANGED <<fdValue, interrupted, deferred, open, last, susp, closer, evicted, uses>>

CloseDeferred == open' = open \ Range(deferred) /\ deferred' = <<>>

FlushOp(u) ==
    /\ op[u] = "flush" /\ Over(u)
    /\ CloseDeferred
    /\ UNCHANGED <<fdValue, busy, interrupted, last, susp, closer, evicted, uses>>
-----------------------------------------------------------------------------
(* close(), and a move assignment that refills the slot                    *)

Take(c) ==
    /\ closer[c] = Idle /\ fdValue # None
    /\ fdValue' = None /\ closer' = [closer EXCEPT ![c] = [at |-> "wake", fd |-> fdValue]]
    /\ UNCHANGED <<busy, interrupted, deferred, open, last, op, value, susp, ghosts>>

WakeParked(c) ==
    /\ closer[c].at = "wake" /\ closer' = [closer EXCEPT ![c].at = "retire"]
    /\ op' = Woken(closer[c].fd)
    /\ UNCHANGED <<slotVars, open, last, value, susp, ghosts>>

\* A retire that closes at once.
RetireAtOnce(c) ==
    /\ closer[c].at = "retire" /\ closer' = [closer EXCEPT ![c].at = "check"]
    /\ open' = open \ {closer[c].fd}
    /\ UNCHANGED <<slotVars, last, op, value, susp, ghosts>>

\* retire: defer it; beyond a handful the oldest is closed at once.
Retire(c) ==
    /\ closer[c].at = "retire" /\ closer' = [closer EXCEPT ![c].at = "check"]
    /\ LET full == Len(deferred) = MaxDeferred
       IN  /\ deferred' = Append(IF full THEN Tail(deferred) ELSE deferred, closer[c].fd)
           /\ evicted' = IF full THEN evicted \cup {Head(deferred)} ELSE evicted
           /\ open' = IF full THEN open \ {Head(deferred)} ELSE open
    /\ UNCHANGED <<fdValue, busy, interrupted, last, op, value, susp, crossed, uses>>

Check(c) ==
    /\ closer[c].at = "check"
    /\ closer' = [closer EXCEPT ![c] = IF busy = 0 THEN [@ EXCEPT !.at = "flush"] ELSE Idle]
    /\ UNCHANGED <<slotVars, open, last, op, value, susp, ghosts>>

FlushCloser(c) ==
    /\ closer[c].at = "flush" /\ closer' = [closer EXCEPT ![c] = Idle]
    /\ CloseDeferred
    /\ UNCHANGED <<fdValue, busy, interrupted, last, op, value, susp, ghosts>>

\* adopt: the descriptor and the interrupted flag of another slot
Adopt ==
    /\ fdValue = None /\ last < MaxFiles
    /\ last' = last + 1 /\ fdValue' = last + 1 /\ open' = open \cup {last + 1}
    /\ interrupted' \in BOOLEAN
    /\ UNCHANGED <<busy, deferred, op, value, susp, closer, ghosts>>
-----------------------------------------------------------------------------
\* The threads go on with what they began; nobody has to begin, and a file need never
\* become ready.
Progress ==
    \/ \E u \in Op : Load(u) \/ Kick(u) \/ End(u) \/ FlushOp(u) \/ Recheck(u) \/ LateCancel(u)
    \/ \E c \in Closer : WakeParked(c) \/ Retire(c) \/ Check(c) \/ FlushCloser(c)

Next ==
    \/ Progress \/ Adopt
    \/ \E u \in Op : Begin(u) \/ Interrupt(u) \/ Park(u) \/ Ready(u)
    \/ \E c \in Closer : Take(c)

Spec == Init /\ [][Next]_vars /\ WF_vars(Progress)
-----------------------------------------------------------------------------
\* Types of the slot, its operations and its closers.
TypeOK ==
    /\ fdValue \in File \cup {None} /\ busy \in Nat /\ interrupted \in BOOLEAN
    /\ deferred \in Seq(File) /\ Len(deferred) <= MaxDeferred /\ open \subseteq File
    /\ op \in [Op -> {"idle", "load", "use", "kick", "parked", "end", "flush", "failed"}]
    /\ value \in [Op -> File \cup {None}]
    /\ susp \in [Op -> [at : {"idle", "recheck", "cancel"}, fd : File \cup {None}]]
    /\ closer \in [Closer -> [at : {"idle", "wake", "retire", "check", "flush"}, fd : File \cup {None}]]

Holding(u) == op[u] \in {"use", "kick", "parked", "end"} /\ value[u] # None

(***************************************************************************)
(* The descriptor of a Use stays open until the Use ends.  Two exceptions: *)
(* the slot was full (retire says so), or the Use began between the last   *)
(* count-down of another thread and its flush.                             *)
(***************************************************************************)
HeldStaysOpen == \A u \in Op : Holding(u) => value[u] \in open \cup evicted \/ crossed[u]

\* "A descriptor is never closed underneath a syscall that loaded it" (SocketSlot).
NeverClosedUnderUse == \A u \in Op : Holding(u) => value[u] \in open \cup evicted
=============================================================================
