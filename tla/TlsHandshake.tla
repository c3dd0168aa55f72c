---------------------------- MODULE TlsHandshake ----------------------------
(***************************************************************************)
(* How a TLS connection comes about: TlsListener (Soccer/src/              *)
(* TlsListener.cpp), which a certificate reload may close while accept     *)
(* calls are parked in it, and TlsStream::connect.  A call owns its socket *)
(* and its context in a half-built connection until it hands both to a     *)
(* TlsStream, either with the handshake still to run (accept) or after     *)
(* driving it under an IoDeadline, which knows the socket by number.       *)
(***************************************************************************)
EXTENDS Naturals

CONSTANTS
    Acceptor,       \* calls of accept()
    Completer,      \* acceptPending() followed by completeHandshake()
    Dialer,         \* calls of connect()
    Nobody          \* no caller

Caller == Acceptor \cup Completer \cup Dialer

VARIABLES
    listener,   \* none, bound, freed (its contexts) or closed
    mu,         \* who holds the lock of the listener's contexts
    at,         \* start, parked, adopt, look, use, hs, wait, handed, over
    owner,      \* of the caller's socket: none, call, stream or closed
    armed, shut,   \* deadlines armed; sockets shut down
    stale       \* a freed server context was used

hsVars == <<listener, mu, at, owner, armed, shut, stale>>

Init ==
    /\ listener = "none" /\ mu = Nobody /\ at = [c \in Caller |-> "start"] /\ owner = [c \in Caller |-> "none"]
    /\ armed = {} /\ shut = {} /\ stale = FALSE

To(c, l) == at' = [at EXCEPT ![c] = l]
Own(c, w) == owner' = [owner EXCEPT ![c] = w]

\* bind: the listening socket, the config, the context; a failure releases what there is.
Bind ==
    /\ listener = "none" /\ listener' \in {"bound", "closed"}
    /\ UNCHANGED <<mu, at, owner, armed, shut, stale>>

\* close: the contexts under mu, then the listening socket, which ends the parked accepts.
FreeContexts ==
    /\ listener = "bound" /\ mu = Nobody /\ listener' = "freed"
    /\ UNCHANGED <<mu, at, owner, armed, shut, stale>>

CloseSocket ==
    /\ listener = "freed" /\ listener' = "closed"
    /\ UNCHANGED <<mu, at, owner, armed, shut, stale>>
-----------------------------------------------------------------------------
(* acceptPendingOn                                                         *)

Accept(c) ==
    /\ c \notin Dialer /\ listener # "none" /\ at[c] = "start" /\ mu = Nobody
    /\ To(c, IF listener = "bound" THEN "parked" ELSE "over")
    /\ UNCHANGED <<listener, mu, owner, armed, shut, stale>>

\* TcpListener::accept returns a connection, or throws on a closed listener.
Accepted(c) ==
    /\ at[c] = "parked"
    /\ \/ listener \in {"bound", "freed"} /\ To(c, "adopt") /\ Own(c, "call")
       \/ listener = "closed" /\ To(c, "over") /\ UNCHANGED owner
    /\ UNCHANGED <<listener, mu, armed, shut, stale>>

\* lock_guard lk(im->mu), which the call keeps until it leaves acceptPendingOn.
Lock(c) ==
    /\ at[c] = "adopt" /\ mu = Nobody /\ mu' = c /\ To(c, "look")
    /\ UNCHANGED <<listener, owner, armed, shut, stale>>

\* Without the second look.
LookBlind(c) ==
    /\ at[c] = "look" /\ To(c, "use")
    /\ UNCHANGED <<listener, mu, owner, armed, shut, stale>>

\* The second look: the contexts may have gone while the call was parked.
Look(c) ==
    /\ at[c] = "look"
    /\ \/ listener = "bound" /\ To(c, "use") /\ UNCHANGED <<mu, owner>>
       \/ listener # "bound" /\ To(c, "over") /\ Own(c, "closed") /\ mu' = Nobody
    /\ UNCHANGED <<listener, armed, shut, stale>>

\* tls_accept_socket reads the server's context; accept() hands the stream over at once.
Use(c) ==
    /\ at[c] = "use" /\ mu' = Nobody /\ stale' = (stale \/ listener # "bound")
    /\ \/ To(c, "over") /\ Own(c, "closed") /\ UNCHANGED armed
       \/ c \in Acceptor /\ To(c, "handed") /\ Own(c, "stream") /\ UNCHANGED armed
       \/ c \in Completer /\ To(c, "hs") /\ armed' = armed \cup {c} /\ UNCHANGED owner
    /\ UNCHANGED <<listener, shut>>

\* connect: the TCP connection, the contexts, the deadline of the handshake
Dial(c) ==
    /\ c \in Dialer /\ at[c] = "start"
    /\ \/ To(c, "over") /\ UNCHANGED armed /\ owner' \in {owner, [owner EXCEPT ![c] = "closed"]}
       \/ To(c, "hs") /\ Own(c, "call") /\ armed' = armed \cup {c}
    /\ UNCHANGED <<listener, mu, shut, stale>>
-----------------------------------------------------------------------------
(* completeHandshake, and the same loop in connect                         *)

WantPoll(c) ==
    /\ at[c] = "hs" /\ c \notin shut /\ To(c, "wait")
    /\ UNCHANGED <<listener, mu, owner, armed, shut, stale>>

Fails(c) ==
    /\ at[c] = "hs" /\ To(c, "over") /\ Own(c, "closed") /\ armed' = armed \ {c}
    /\ UNCHANGED <<listener, mu, shut, stale>>

\* The deadline is disarmed before the socket changes hands.
HandOver(c) ==
    /\ at[c] = "hs" /\ To(c, "handed") /\ Own(c, "stream") /\ armed' = armed \ {c}
    /\ UNCHANGED <<listener, mu, shut, stale>>

Wake(c) ==
    /\ at[c] = "wait" /\ c \in shut /\ To(c, "hs")
    /\ UNCHANGED <<listener, mu, owner, armed, shut, stale>>

WakeByPeer(c) ==
    /\ at[c] = "wait" /\ c \notin shut /\ To(c, "hs")
    /\ UNCHANGED <<listener, mu, owner, armed, shut, stale>>

\* The sweeper shuts down the number, whoever has it.
Expire(c) ==
    /\ c \in armed /\ armed' = armed \ {c} /\ shut' = shut \cup {c}
    /\ UNCHANGED <<listener, mu, at, owner, stale>>
-----------------------------------------------------------------------------
Progress(c) ==
    \/ listener = "closed" /\ Accepted(c)
    \/ Lock(c) \/ Look(c) \/ Use(c) \/ WantPoll(c) \/ Fails(c) \/ HandOver(c) \/ Wake(c)

Next ==
    \/ Bind \/ FreeContexts \/ CloseSocket
    \/ \E c \in Caller :
          Accept(c) \/ Accepted(c) \/ Dial(c) \/ WakeByPeer(c) \/ Expire(c) \/ Progress(c)

Spec ==
    /\ Init /\ [][Next]_hsVars /\ WF_hsVars(CloseSocket)
    /\ \A c \in Caller : WF_hsVars(Progress(c)) /\ WF_hsVars(Expire(c))
-----------------------------------------------------------------------------
\* Types of the callers and their sockets.
TypeOK ==
    /\ listener \in {"none", "bound", "freed", "closed"} /\ mu \in Caller \cup {Nobody}
    /\ at \in [Caller -> {"start", "parked", "adopt", "look", "use", "hs", "wait", "handed", "over"}]
    /\ owner \in [Caller -> {"none", "call", "stream", "closed"}]
    /\ armed \subseteq Caller /\ shut \subseteq Caller /\ stale \in BOOLEAN

\* No accept uses the contexts that a concurrent close() of the listener freed: the
\* second look and tls_accept_socket are under the lock that close() takes.
NoFreedContext == ~stale

\* A deadline is armed on no socket that its call does not own any more.
DeadlineHasOwner == \A c \in armed : owner[c] = "call"

\* Every accepted or dialled socket is handed over or closed when its call is over.
SocketsAccounted ==
    \A c \in Caller : at[c] = "over" => owner[c] \in {"none", "closed"}

\* A silent peer and a closed listener keep no call forever.
MustEnd(c) == at[c] \in {"adopt", "look", "use", "hs", "wait"} \/ (at[c] = "parked" /\ listener = "freed")
Ended(c) == at[c] \in {"handed", "over"}
=============================================================================
