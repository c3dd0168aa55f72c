----------------------------- MODULE Http2Flush -----------------------------
(***************************************************************************)
(* flushSession of Soccer/src/Http2.cpp, which both ends of an HTTP/2      *)
(* connection share: coroutines queue frames in the nghttp2 session under  *)
(* sessionMu and then flush.  One of them at a time is the writer; it      *)
(* pulls a chunk under the lock, writes it with no lock held, and looks    *)
(* again.  A caller that finds a writer leaves its frames to it.           *)
(*                                                                         *)
(* The session is external: its output is a set of frames, and a pull      *)
(* takes some of those the session may emit now.                           *)
(***************************************************************************)
EXTENDS Naturals, FiniteSets

VARIABLES
    pc,         \* where each coroutine of the connection stands
    mu,         \* sessionMu is held over several steps (only by the reader's feed)
    writing,    \* State::writing
    queued,     \* frames submitted to the session and not yet pulled
    shut        \* the socket has been shut down

flushVars == <<pc, mu, writing, queued, shut>>

FlushInit == mu = FALSE /\ writing = FALSE /\ queued = {} /\ shut = FALSE

Goto(a, p) == pc' = [pc EXCEPT ![a] = p]

\* pc after the coroutines in S that are parked have been handed to the pool.
Wake(S) == [a \in DOMAIN pc |-> IF a \in S /\ pc[a] = "parked" THEN "awake" ELSE pc[a]]

\* The two places where flushSession takes the lock: on entry, and after a chunk.
AtLock(a) == pc[a] \in {"flush", "again"} /\ ~mu

\* On entry: a writer is active and will flush.
LeftToWriter(a, next) ==
    /\ AtLock(a) /\ pc[a] = "flush" /\ writing
    /\ Goto(a, next)
    /\ UNCHANGED <<mu, writing, queued, shut>>

\* Nothing (more) to send, `out' being what the session would emit now.
NothingToSend(a, out, woken, next) ==
    /\ AtLock(a) /\ (pc[a] = "flush" => ~writing)
    /\ out = {}
    /\ writing' = FALSE
    /\ pc' = [Wake(woken) EXCEPT ![a] = next]
    /\ UNCHANGED <<mu, queued, shut>>

\* A chunk pulled by a caller that did not look for a writer.
PullChunkBlind(a, rest, woken) ==
    /\ AtLock(a)
    /\ writing' = TRUE
    /\ queued' = rest
    /\ pc' = [Wake(woken) EXCEPT ![a] = "write"]
    /\ UNCHANGED <<mu, shut>>

\* A chunk is pulled, which leaves `rest' in the session, and written without the
\* lock.  Closing streams from inside the pull resumes the coroutines in `woken' that
\* are parked.
PullChunk(a, rest, woken) ==
    /\ AtLock(a) /\ (pc[a] = "flush" => ~writing)
    /\ writing' = TRUE
    /\ queued' = rest
    /\ pc' = [Wake(woken) EXCEPT ![a] = "write"]
    /\ UNCHANGED <<mu, shut>>

\* The chunk is on the wire.
Written(a) ==
    /\ pc[a] = "write" /\ ~shut
    /\ Goto(a, "again")
    /\ UNCHANGED <<mu, writing, queued, shut>>

\* The write fails; the catch clause gives the role up before it rethrows.
WriteFails(a, next) ==
    /\ pc[a] = "write" /\ ~mu
    /\ writing' = FALSE
    /\ Goto(a, next)
    /\ UNCHANGED <<mu, queued, shut>>

\* Coroutines that hold the writer's role, and those that are about to ask for it.
Writers == {a \in DOMAIN pc : pc[a] \in {"write", "again"}}
Entering == {a \in DOMAIN pc : pc[a] = "flush"}

\* There is never more than one writer, and the flag says whether there is one:
\* chunks reach the wire in the order in which the session emitted them.
OneWriter == Cardinality(Writers) = IF writing THEN 1 ELSE 0
=============================================================================
