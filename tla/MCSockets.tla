------------------------------ MODULE MCSockets -----------------------------
(***************************************************************************)
(* Who may use, close or shut down a descriptor, for TLC, each part on its *)
(* own (`sys' never changes): a SocketSlot of Soccer that two operations   *)
(* use and that is closed, refilled and closed again; an FdSlot of         *)
(* Embedded that two operations use and a thread closes; the deadlines of  *)
(* two connections that may get the same descriptor number; a TlsStream    *)
(* with a reader, two writers and its owner; a TlsListener with an accept, *)
(* an acceptPending and a connect; and two SignalSets in a fan-out table   *)
(* of two slots ("signals") or of one ("full").  The first three rest in   *)
(* their initial states when they are not running, the variables of the    *)
(* others stay 0.                                                          *)
(***************************************************************************)
EXTENDS IoDeadline, Sequences

CONSTANTS Op, Closer, MaxFiles, MaxDeferred, MaxUses, Systems, u1, u2, u3, ow, Nobody

VARIABLES
    sys,
    fdValue, busy, interrupted, deferred, files, last, op, value, susp, closer, crossed, evicted, uses,
    has, pending, inflight, opened, call, got, hold, ender, stranger, crossing, calls,
    ctx, waiters, retired, hsPending, hsError, hsHolder, wrHolder, file, deadline, at, total, closing,
    listener, ctxLock, step, owned, armed, cutOff, stale,
    set, number, fanSlot, slots, owner, refs, ours, inFlight, hand, pipe, closed, next, strayed

Slot == INSTANCE SocketSlot WITH open <- files
Small == INSTANCE FdSlot WITH
    open <- opened, op <- call, susp <- hold, closer <- ender, crossed <- crossing, uses <- calls
Tls == INSTANCE TlsStream WITH Reader <- {u1}, Writer <- {u2, u3}, Owner <- ow, Size <- 2
Hs == INSTANCE TlsHandshake WITH
    mu <- ctxLock, at <- step, owner <- owned, shut <- cutOff, Acceptor <- {u1}, Completer <- {u2}, Dialer <- {u3}
Sigs == INSTANCE SignalSet WITH
    num <- number, Sets <- {u1, u2}, Reader <- {u1}, Slots <- {1, 2}, Delivery <- {u3}, PipeCap <- 1
Full == INSTANCE SignalSet WITH
    num <- number, Sets <- {u1, u2}, Reader <- {u1}, Slots <- {1}, Delivery <- {u3}, PipeCap <- 1

slotVars == <<fdValue, busy, interrupted, deferred, files, last, op, value, susp, closer, crossed, evicted, uses>>
smallVars == <<has, pending, inflight, opened, call, got, hold, ender, stranger, crossing, calls>>
tlsVars == <<ctx, waiters, retired, hsPending, hsError, hsHolder, wrHolder, file, deadline, at, total, closing>>
hsVars == <<listener, ctxLock, step, owned, armed, cutOff, stale>>
sigVars == <<set, number, fanSlot, slots, owner, refs, ours, inFlight, hand, pipe, closed, next, strayed>>
allVars == <<sys, vars, slotVars, smallVars, tlsVars, hsVars, sigVars>>

NoTls ==
    /\ ctx = 0 /\ waiters = 0 /\ retired = 0 /\ hsPending = 0 /\ hsError = 0 /\ hsHolder = 0 /\ wrHolder = 0
    /\ file = 0 /\ deadline = 0 /\ at = 0 /\ total = 0 /\ closing = 0
NoHs == listener = 0 /\ ctxLock = 0 /\ step = 0 /\ owned = 0 /\ armed = 0 /\ cutOff = 0 /\ stale = 0
NoSigs ==
    /\ set = 0 /\ number = 0 /\ fanSlot = 0 /\ slots = 0 /\ owner = 0 /\ refs = 0 /\ ours = 0 /\ inFlight = 0
    /\ hand = 0 /\ pipe = 0 /\ closed = 0 /\ next = 0 /\ strayed = 0

MCInit ==
    /\ sys \in Systems /\ Init /\ Slot!Init /\ Small!Init
    /\ IF sys = "tls" THEN Tls!Init ELSE NoTls
    /\ IF sys = "handshake" THEN Hs!Init ELSE NoHs
    /\ IF sys = "signals" THEN Sigs!Init ELSE IF sys = "full" THEN Full!Init ELSE NoSigs

OnlySlot == UNCHANGED <<sys, vars, smallVars, tlsVars, hsVars, sigVars>>
OnlySmall == UNCHANGED <<sys, vars, slotVars, tlsVars, hsVars, sigVars>>
OnlyDeadline == UNCHANGED <<sys, slotVars, smallVars, tlsVars, hsVars, sigVars>>
OnlyTls == UNCHANGED <<sys, vars, slotVars, smallVars, hsVars, sigVars>>
OnlyHs == UNCHANGED <<sys, vars, slotVars, smallVars, tlsVars, sigVars>>
OnlySigs == UNCHANGED <<sys, vars, slotVars, smallVars, tlsVars, hsVars>>

MCNext ==
    \/ sys = "socket" /\ Slot!Next /\ OnlySlot
    \/ sys = "fd" /\ Small!Next /\ OnlySmall
    \/ sys = "deadline" /\ Next /\ OnlyDeadline
    \/ sys = "tls" /\ Tls!Next /\ OnlyTls
    \/ sys = "handshake" /\ Hs!Next /\ OnlyHs
    \/ sys = "signals" /\ Sigs!Next /\ OnlySigs
    \/ sys = "full" /\ Full!Next /\ OnlySigs

(***************************************************************************)
(* Threads go on with what they began, deadlines pass, and a teardown that *)
(* finds no handler under way again and again is done with waiting; nobody *)
(* has to begin.  Since `sys' never changes, fairness of a disjunction     *)
(* over systems is fairness in each.                                       *)
(***************************************************************************)
Fair1 ==
    \/ sys = "socket" /\ Slot!Progress /\ OnlySlot
    \/ sys = "fd" /\ Small!Progress /\ OnlySmall
    \/ sys = "deadline" /\ Sweeper /\ OnlyDeadline
    \/ sys = "tls" /\ Tls!Progress /\ OnlyTls
    \/ sys = "handshake" /\ Hs!Progress(u1) /\ OnlyHs
    \/ sys = "signals" /\ Sigs!Waiting(u1) /\ OnlySigs
Fair2 ==
    \/ sys = "deadline" /\ Spawn /\ OnlyDeadline
    \/ sys = "tls" /\ Tls!Expire /\ OnlyTls
    \/ sys = "handshake" /\ Hs!Progress(u2) /\ OnlyHs
    \/ sys = "signals" /\ Sigs!Waiting(u2) /\ OnlySigs
Fair3 ==
    \/ sys = "handshake" /\ Hs!Progress(u3) /\ OnlyHs
    \/ sys = "signals" /\ Sigs!Handling(u3) /\ OnlySigs
Closes == sys = "handshake" /\ Hs!CloseSocket /\ OnlyHs
Expires(i) == sys = "handshake" /\ Hs!Expire(i) /\ OnlyHs
SetGoes(i) == sys = "signals" /\ Sigs!Teardown(i) /\ OnlySigs

MCSpec ==
    /\ MCInit /\ [][MCNext]_allVars
    /\ WF_allVars(Fair1) /\ WF_allVars(Fair2) /\ WF_allVars(Fair3) /\ WF_allVars(Closes)
    /\ \A i \in {u2, u3} : WF_allVars(Expires(i))
    /\ \A i \in {u1, u2} : SF_allVars(SetGoes(i))
-----------------------------------------------------------------------------
\* Types of the slots, the deadlines, the streams and the signal sets.
TypesOK ==
    /\ TypeOK /\ Slot!TypeOK /\ Small!TypeOK
    /\ sys = "tls" => Tls!TypeOK
    /\ sys = "handshake" => Hs!TypeOK
    /\ sys = "signals" => Sigs!TypeOK
    /\ sys = "full" => Full!TypeOK

(***************************************************************************)
(* A descriptor stays open while an operation that loaded it goes on, a    *)
(* caller of a TlsStream waits on it, or its close() still uses it.        *)
(***************************************************************************)
HeldStaysOpen ==
    /\ Slot!HeldStaysOpen /\ Small!GuardedStaysOpen
    /\ sys = "tls" => Tls!HeldStaysOpen

(***************************************************************************)
(* Nobody acts on what belongs to another: a deadline shuts down only its  *)
(* own connection and is armed on no socket its call has given away, no    *)
(* writer starts inside another's buffer, no accept uses the contexts of a *)
(* closed listener, no signal handler writes to a recycled number, and a   *)
(* late cancel never wakes the next owner of a number.                     *)
(***************************************************************************)
OnItsOwn ==
    /\ ShutsItsOwn
    /\ sys = "tls" => Tls!WritesAreWhole
    /\ sys = "handshake" => Hs!NoFreedContext /\ Hs!DeadlineHasOwner
    /\ sys \in {"signals", "full"} => Sigs!NoStrayByte
ActsOnItsOwn == [][OnItsOwn' /\ Small!ForeignCancelCrossed]_allVars

(***************************************************************************)
(* What nobody uses any more is given back: the descriptor of a closed     *)
(* TlsStream, the socket of an accept or a connect that is over, and the   *)
(* disposition of a signal with the last set that had it.                  *)
(***************************************************************************)
NothingLeaks ==
    /\ sys = "tls" => Tls!NothingLeaks
    /\ sys = "handshake" => Hs!SocketsAccounted
    /\ sys \in {"signals", "full"} => Sigs!DispositionIsShared

(***************************************************************************)
(* A closed slot or stream lets go of its waiters and its descriptor;      *)
(* interrupts and deadlines act; a handshake does not hang on a silent     *)
(* peer; a signal, and the end of its set, reaches next().  The operations *)
(* of a slot are interchangeable, and so are the writers of a stream: one  *)
(* stands for both, and the other names for what is to be closed.          *)
(***************************************************************************)
File(i) == IF i = u2 THEN 1 ELSE 2
Due(i) ==
    \/ sys = "socket" /\ i = u1 /\ op[i] = "parked" /\ interrupted /\ last = 1
    \/ sys = "socket" /\ i # u1 /\ last >= File(i) /\ fdValue = Slot!None
    \/ sys = "fd" /\ i = u1 /\ ~has
    \/ sys = "deadline" /\ i \in Conn /\ guard[i] = "armed" /\ i \in due /\ Current(i) \notin stranded /\ conn[i] = "open"
    \/ sys = "tls" /\ i # u3 /\ hsHolder = i /\ deadline # "none"
    \/ sys = "tls" /\ i = u3 /\ ~ctx
    \/ sys = "handshake" /\ Hs!MustEnd(i)
    \/ sys = "signals" /\ i # u3 /\ Sigs!MustEnd(i)
Through(i) ==
    \/ sys = "socket" /\ i = u1 /\ (op[i] # "parked" \/ last # 1)
    \/ sys = "socket" /\ i # u1 /\ (File(i) \notin files \/ fdValue # Slot!None)
    \/ sys = "fd" /\ i = u1 /\ ~opened
    \/ sys = "deadline" /\ i \in Conn /\ (Expired(i) \/ Current(i) \in stranded \/ guard[i] = "none" \/ conn[i] # "open")
    \/ sys = "tls" /\ i # u3 /\ hsHolder # i
    \/ sys = "tls" /\ i = u3 /\ Tls!AllReleased
    \/ sys = "handshake" /\ Hs!Ended(i)
    \/ sys = "signals" /\ i # u3 /\ Sigs!Ended(i)
ClosingEnds == \A i \in {u1, u2, u3} : Due(i) ~> Through(i)

\* "A descriptor is never closed underneath a syscall that loaded it" (NetUtil.h).
NeverClosedUnderUse == Slot!NeverClosedUnderUse
=============================================================================
