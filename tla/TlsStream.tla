------------------------------ MODULE TlsStream -----------------------------
(***************************************************************************)
(* A TLS connection (Soccer/src/TlsStream.cpp) that readers and writers    *)
(* use while its owner closes it and the first of them drives the deferred *)
(* handshake of a server-side stream.  Every libtls call is made under     *)
(* callMu and returns at once, so a call with what it decides is one step; *)
(* the waits are outside it, between counting oneself among the waiters    *)
(* and leaving.  A handshake that fails closes the stream itself, so the   *)
(* owner and the handshaker may both be in close().                        *)
(***************************************************************************)
EXTENDS Naturals, FiniteSets

CONSTANTS
    Reader, Writer,     \* coroutines with one call each
    Owner,              \* whoever calls close()
    Nobody,
    Size                \* how many tls_write calls a buffer takes

Caller == Reader \cup Writer
Actor == Caller \cup {Owner}

VARIABLES
    ctx,        \* Impl::ctx and Impl::fd, which close() takes together
    waiters, retired,   \* Impl::waiters, and whether retiredFd is set
    hsPending, hsError, \* the deferred handshake
    hsHolder, wrHolder, \* who holds hsMu and writeMu
    file,       \* the socket: open, shut or closed
    deadline,   \* none, armed or expired, of the handshake
    at,         \* where each call is
    total,      \* what a writer has written
    closing     \* where each close() is: no, take, shut, cancel, retire or done

tlsVars == <<ctx, waiters, retired, hsPending, hsError, hsHolder, wrHolder, file, deadline, at, total, closing>>
hsVars == <<hsPending, hsError, hsHolder>>

Init ==
    /\ ctx = TRUE /\ waiters = 0 /\ retired = FALSE
    /\ hsPending \in BOOLEAN /\ hsError = FALSE /\ hsHolder = Nobody /\ wrHolder = Nobody
    /\ file = "open" /\ deadline = "none"
    /\ at = [o \in Caller |-> "start"] /\ total = [o \in Caller |-> 0]
    /\ closing = [a \in Actor |-> "no"]

To(o, l) == at' = [at EXCEPT ![o] = l]

\* Impl::leave: the last waiter closes a descriptor that close() had to leave open.
Leave ==
    /\ waiters' = waiters - 1
    /\ retired' = (retired /\ waiters > 1)
    /\ file' = IF retired /\ waiters = 1 THEN "closed" ELSE file
-----------------------------------------------------------------------------
(* handshake(), which read() and write() begin with                        *)

Begin(o) ==
    /\ at[o] = "start"
    /\ To(o, IF hsPending THEN "hsLock" ELSE IF o \in Reader THEN "call" ELSE "lock")
    /\ UNCHANGED <<ctx, waiters, retired, hsVars, wrHolder, file, deadline, total, closing>>

\* driveHandshake up to the ticket that keeps the descriptor open to its end
Enter(o) ==
    /\ at[o] = "hsLock" /\ hsHolder = Nobody
    /\ IF ~hsPending
       THEN To(o, IF o \in Reader THEN "call" ELSE "lock") /\ UNCHANGED <<hsHolder, waiters, deadline>>
       ELSE IF hsError \/ ~ctx THEN To(o, "failed") /\ UNCHANGED <<hsHolder, waiters, deadline>>
       ELSE /\ To(o, "hs") /\ hsHolder' = o /\ waiters' = waiters + 1
            /\ deadline' \in {"none", "armed"}
    /\ UNCHANGED <<ctx, retired, hsPending, hsError, wrHolder, file, total, closing>>

\* Its frame is gone: the deadline first, then the ticket, then hsMu.
Exit(o, l) == To(o, l) /\ deadline' = "none" /\ Leave /\ hsHolder' = Nobody

ExitEarly(o) ==
    /\ at[o] = "hs" /\ ~ctx /\ Exit(o, "failed")
    /\ UNCHANGED <<ctx, hsPending, hsError, wrHolder, total, closing>>

HandshakeDone(o) ==
    /\ at[o] = "hs" /\ ctx
    /\ hsPending' = FALSE /\ Exit(o, IF o \in Reader THEN "call" ELSE "lock")
    /\ UNCHANGED <<ctx, hsError, wrHolder, total, closing>>

HandshakeWaits(o) ==
    /\ at[o] = "hs" /\ ctx /\ file = "open" /\ To(o, "hsWait")
    /\ UNCHANGED <<ctx, waiters, retired, hsVars, wrHolder, file, deadline, total, closing>>

\* The error is kept for the callers to come, the deadline disarmed, the stream closed.
HandshakeFails(o) ==
    /\ at[o] = "hs" /\ ctx
    /\ hsError' = TRUE /\ deadline' = "none" /\ To(o, "hsClose")
    /\ closing' = [closing EXCEPT ![o] = "take"]
    /\ UNCHANGED <<ctx, waiters, retired, hsPending, hsHolder, wrHolder, file, total>>

HandshakeClosed(o) ==
    /\ at[o] = "hsClose" /\ closing[o] = "done" /\ Exit(o, "failed")
    /\ UNCHANGED <<ctx, hsPending, hsError, wrHolder, total, closing>>

Expire ==
    /\ deadline = "armed" /\ deadline' = "expired"
    /\ file' = IF file = "open" THEN "shut" ELSE file
    /\ UNCHANGED <<ctx, waiters, retired, hsVars, wrHolder, at, total, closing>>
-----------------------------------------------------------------------------
(* read() and write()                                                      *)

LockWrite(o) ==
    /\ at[o] = "lock" /\ wrHolder = Nobody /\ wrHolder' = o /\ To(o, "call")
    /\ UNCHANGED <<ctx, waiters, retired, hsVars, file, deadline, total, closing>>

\* Return or throw, with the lock of a writer released.
Finish(o, l) == To(o, l) /\ wrHolder' = IF wrHolder = o THEN Nobody ELSE wrHolder

Call(o) ==
    /\ at[o] = "call"
    /\ \/ /\ ctx /\ o \in Reader /\ Finish(o, "ok")      \* bytes, or 0 at the end of the stream
          /\ UNCHANGED <<total, waiters>>
       \/ /\ ctx /\ o \in Writer /\ file = "open" /\ total' = [total EXCEPT ![o] = @ + 1]
          /\ IF total[o] + 1 = Size THEN Finish(o, "ok") ELSE UNCHANGED <<at, wrHolder>>
          /\ UNCHANGED waiters
       \/ /\ ctx /\ file = "open" /\ To(o, "wait") /\ waiters' = waiters + 1
          /\ UNCHANGED <<total, wrHolder>>
       \/ Finish(o, "failed") /\ UNCHANGED <<total, waiters>>
    /\ UNCHANGED <<ctx, retired, hsVars, file, deadline, closing>>

\* waitReadable or waitWritable registers with the Reactor after callMu is released.
Register(o) ==
    /\ at[o] \in {"wait", "hsWait"} /\ To(o, IF at[o] = "wait" THEN "parked" ELSE "hsParked")
    /\ UNCHANGED <<ctx, waiters, retired, hsVars, wrHolder, file, deadline, total, closing>>

\* A resumed wait: read() and write() give their ticket back, the handshake keeps it.
Resume(o) ==
    \/ at[o] \in {"parked", "woken"} /\ To(o, "call") /\ Leave
    \/ at[o] \in {"hsParked", "hsWoken"} /\ To(o, "hs") /\ UNCHANGED <<waiters, retired, file>>

\* cancelFd took it, or the socket was shut, which makes it readable and writable.
Wake(o) ==
    /\ file # "open" \/ at[o] \in {"woken", "hsWoken"}
    /\ Resume(o)
    /\ UNCHANGED <<ctx, hsVars, wrHolder, deadline, total, closing>>

WakeByPeer(o) ==
    /\ file = "open" /\ Resume(o)
    /\ UNCHANGED <<ctx, hsVars, wrHolder, deadline, total, closing>>

\* The coroutine is destroyed where it is parked.
Destroy(o) ==
    /\ \/ at[o] = "parked" /\ Finish(o, "failed") /\ Leave /\ UNCHANGED <<hsHolder, deadline>>
       \/ at[o] = "hsParked" /\ Exit(o, "failed") /\ UNCHANGED wrHolder
    /\ UNCHANGED <<ctx, hsPending, hsError, total, closing>>
-----------------------------------------------------------------------------
(* close()                                                                 *)

Take(a) ==
    /\ closing[a] = "take" \/ (a = Owner /\ closing[a] = "no")
    /\ ctx' = FALSE /\ closing' = [closing EXCEPT ![a] = IF ctx THEN "shut" ELSE "done"]
    /\ UNCHANGED <<waiters, retired, hsVars, wrHolder, file, deadline, at, total>>

\* A close() that relies on cancelFd alone.
ShutNothing(a) ==
    /\ closing[a] = "shut" /\ closing' = [closing EXCEPT ![a] = "cancel"]
    /\ UNCHANGED <<ctx, waiters, retired, hsVars, wrHolder, file, deadline, at, total>>

\* close_notify on the descriptor, tls_free, shutdown
Shut(a) ==
    /\ closing[a] = "shut" /\ closing' = [closing EXCEPT ![a] = "cancel"]
    /\ file' = IF file = "open" THEN "shut" ELSE file
    /\ UNCHANGED <<ctx, waiters, retired, hsVars, wrHolder, deadline, at, total>>

\* Reactor::cancelFd takes who is registered; the tickets come back as they resume.
Cancel(a) ==
    /\ closing[a] = "cancel" /\ closing' = [closing EXCEPT ![a] = "retire"]
    /\ at' = [o \in Caller |-> CASE at[o] = "parked" -> "woken" [] at[o] = "hsParked" -> "hsWoken" [] OTHER -> at[o]]
    /\ UNCHANGED <<ctx, waiters, retired, hsVars, wrHolder, file, deadline, total>>

\* A close() that does not ask for waiters.
RetireAtOnce(a) ==
    /\ closing[a] = "retire" /\ closing' = [closing EXCEPT ![a] = "done"] /\ file' = "closed"
    /\ UNCHANGED <<ctx, waiters, retired, hsVars, wrHolder, deadline, at, total>>

Retire(a) ==
    /\ closing[a] = "retire" /\ closing' = [closing EXCEPT ![a] = "done"]
    /\ IF waiters = 0 THEN file' = "closed" /\ UNCHANGED retired ELSE retired' = TRUE /\ UNCHANGED file
    /\ UNCHANGED <<ctx, waiters, hsVars, wrHolder, deadline, at, total>>
-----------------------------------------------------------------------------
Progress ==
    \/ \E o \in Caller :
          \/ Begin(o) \/ Enter(o) \/ ExitEarly(o) \/ HandshakeClosed(o) \/ Register(o)
          \/ LockWrite(o) \/ Wake(o) \/ HandshakeDone(o) \/ HandshakeWaits(o)
          \/ HandshakeFails(o) \/ Call(o)
    \/ \E a \in Actor : Shut(a) \/ Cancel(a) \/ Retire(a) \/ (a # Owner /\ Take(a))

Next == Progress \/ Expire \/ Take(Owner) \/ \E o \in Caller : WakeByPeer(o) \/ Destroy(o)

\* The pool runs the coroutines, the sweeper runs; the peer owes nothing.
Spec == Init /\ [][Next]_tlsVars /\ WF_tlsVars(Progress) /\ WF_tlsVars(Expire)
-----------------------------------------------------------------------------
\* Types of the stream and its callers.
TypeOK ==
    /\ ctx \in BOOLEAN /\ waiters \in 0..Cardinality(Caller) /\ retired \in BOOLEAN
    /\ hsPending \in BOOLEAN /\ hsError \in BOOLEAN
    /\ hsHolder \in Caller \cup {Nobody} /\ wrHolder \in Writer \cup {Nobody}
    /\ file \in {"open", "shut", "closed"} /\ deadline \in {"none", "armed", "expired"}
    /\ at \in [Caller -> {"start", "hsLock", "hs", "hsWait", "hsParked", "hsWoken", "hsClose",
                      "lock", "call", "wait", "parked", "woken", "ok", "failed"}]
    /\ total \in [Caller -> 0..Size] /\ closing \in [Actor -> {"no", "take", "shut", "cancel", "retire", "done"}]

(***************************************************************************)
(* The number is not released under anyone who may still use it: a caller  *)
(* that decided to wait, registered or not; a handshake with its deadline; *)
(* a close() before it retires the descriptor.                             *)
(***************************************************************************)
HeldStaysOpen ==
    /\ \A o \in Caller : at[o] \in {"hs", "hsWait", "hsParked", "hsWoken", "hsClose",
                                 "wait", "parked", "woken"} => file # "closed"
    /\ \A a \in Actor : closing[a] \in {"shut", "cancel", "retire"} => file # "closed"
    /\ deadline # "none" => file # "closed"

\* Once close() is over and nobody waits, the descriptor is closed: it is not leaked.
NothingLeaks ==
    (~ctx /\ waiters = 0 /\ \A a \in Actor : closing[a] \in {"no", "done"}) => file = "closed"

Calling == {o \in Caller : at[o] \in {"call", "wait", "parked", "woken"}}

\* A buffer goes out whole: no writer starts inside another's, and none before the handshake.
WritesAreWhole ==
    /\ \A v, w \in Writer : v \in Calling /\ w \in Calling => v = w
    /\ Calling # {} => ~hsPending

\* A closed stream lets go of every caller and of its descriptor.
AllReleased == file = "closed" /\ \A o \in Caller : at[o] \in {"ok", "failed"}
=============================================================================
