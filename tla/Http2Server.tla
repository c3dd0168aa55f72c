---------------------------- MODULE Http2Server -----------------------------
(***************************************************************************)
(* One server connection of Soccer/src/Http2.cpp: the driver that reads,   *)
(* feeds the session and dispatches, a handler for every complete request, *)
(* and the one IoDeadline that watches the peer.                           *)
(*                                                                         *)
(* A client opens streams, sends bodies in chunks, ends, resets and floods *)
(* as it likes, reads the responses or does not, and sooner or later stops *)
(* sending (MaxFeeds).  Requests and responses have no content here beyond *)
(* the size of a body.  Of the windows that count resets and control       *)
(* frames only the outcome is kept.                                        *)
(***************************************************************************)
EXTENDS Http2Flush, FiniteSetsExt

CONSTANTS
    Stream,         \* the streams the client opens
    Nobody,
    MaxStreams,     \* maxConcurrentStreams
    MaxBody,        \* maxBodyBytes
    MaxConnBody,    \* maxConnectionBodyBytes
    MaxFeeds        \* how often the client sends something (bound)

VARIABLES
    closed, abusive,
    fatal,          \* the session has given up on the client's bytes
    sess,           \* each stream in the session: none, open, closed
    entry,          \* streams with an entry in `streams'
    handlerStarted, responseSubmitted, handlerActive, rejected,
    body,           \* bodyBytes of each entry
    inFlight,       \* bodyBytesInFlight
    orphans,        \* orphanHandlers
    active,         \* activeHandlers
    stop,           \* streams whose cancel source has been stopped
    deadline,       \* what the IoDeadline is armed for
    writeArmed,
    feeds

entryVars == <<entry, handlerStarted, responseSubmitted, handlerActive, rejected, body, inFlight, orphans, stop>>
watchVars == <<deadline, writeArmed>>
vars == <<flushVars, closed, abusive, fatal, sess, entryVars, active, watchVars, feeds>>

H(s) == <<"handler", s>>
Driver == <<"driver", Nobody>>
Handlers == {H(s) : s \in Stream}
Actor == Handlers \union {Driver}
Rst(s) == <<"rst", s>>
Resp(s) == <<"response", s>>
Trailer(s) == <<"trailer", s>>
Frame(what) == <<what, Nobody>>

Init ==
    /\ mu = FALSE /\ writing = FALSE /\ shut = FALSE
    /\ queued = {Frame("settings")}
    /\ pc = [a \in Actor |-> IF a = Driver THEN "flush" ELSE "none"]
    /\ closed = FALSE /\ abusive = FALSE /\ fatal = FALSE
    /\ sess = [s \in Stream |-> "none"]
    /\ entry = {} /\ handlerStarted = {} /\ responseSubmitted = {} /\ handlerActive = {} /\ rejected = {}
    /\ body = [s \in Stream |-> 0] /\ inFlight = 0
    /\ orphans = 0 /\ active = 0 /\ stop = {}
    /\ deadline = "none" /\ writeArmed = FALSE
    /\ feeds = 0
-----------------------------------------------------------------------------
(***************************************************************************)
(* The deadline.                                                           *)
(***************************************************************************)
\* What updateDeadlineLocked arms outside a write: the client owes the rest of a
\* request, or nothing is going on, or it is the handlers' turn.
Due ==
    IF closed THEN "none"
    ELSE IF entry \ (handlerStarted \union rejected) # {} THEN "request"
    ELSE IF active = 0 THEN "idle" ELSE "none"

UpdateDeadline == deadline' = (IF writeArmed /\ ~closed THEN deadline ELSE Due) /\ UNCHANGED writeArmed
BeginWrite == IF closed THEN UNCHANGED watchVars ELSE deadline' = "write" /\ writeArmed' = TRUE

\* A sweeper that cannot be started leaves the connection without a deadline.
EndWrite == writeArmed' = FALSE /\ deadline' \in {Due, "none"}

\* The deadline passes and shuts the socket down (IoDeadline).
Expire ==
    /\ deadline # "none" /\ ~shut
    /\ shut' = TRUE
    /\ UNCHANGED <<pc, mu, writing, queued, closed, abusive, fatal, sess, entryVars, active, watchVars, feeds>>
-----------------------------------------------------------------------------
\* serverOnStreamClose.
OnStreamClose(s) ==
    /\ sess' = [sess EXCEPT ![s] = "closed"]
    /\ entry' = entry \ {s}
    /\ stop' = stop \union ({s} \intersect entry)
    /\ inFlight' = inFlight - body[s] /\ body' = [body EXCEPT ![s] = 0]
    /\ orphans' = IF s \in handlerActive THEN orphans + 1 ELSE orphans
    /\ handlerActive' = handlerActive \ {s}
    /\ handlerStarted' = handlerStarted \ {s} /\ responseSubmitted' = responseSubmitted \ {s}
    /\ rejected' = rejected \ {s}

(***************************************************************************)
(* flushSession with the write deadline around each chunk.  The session    *)
(* emits a response only as far as the client's window allows.             *)
(***************************************************************************)
AfterFlush(a) ==
    IF a # Driver THEN "count" ELSE IF fatal \/ abusive \/ closed THEN "ending" ELSE "arm"

FlushReturns(a) ==
    /\ \/ LeftToWriter(a, AfterFlush(a))
       \/ NothingToSend(a, {f \in queued : f[1] # "response"}, {}, AfterFlush(a))
    /\ UNCHANGED <<closed, abusive, fatal, sess, entryVars, active, watchVars, feeds>>

\* RST_STREAM and the end of the response close the stream, from inside the pull.  A
\* response may end in trailers, submitted at the end of its body (serverBodyRead), or
\* have its stream reset when that fails.
FlushPulls(a) ==
    \E f \in queued :
        /\ BeginWrite
        /\ \/ /\ PullChunk(a, queued \ {f}, {})
              /\ IF f[2] # Nobody /\ sess[f[2]] = "open"
                 THEN OnStreamClose(f[2]) ELSE UNCHANGED <<sess, entryVars>>
           \/ /\ f[1] = "response" /\ sess[f[2]] = "open"
              /\ \E g \in {Trailer(f[2]), Rst(f[2])} : PullChunk(a, (queued \ {f}) \union {g}, {})
              /\ UNCHANGED <<sess, entryVars>>
        /\ UNCHANGED <<closed, abusive, fatal, active, feeds>>

FlushWrites(a) ==
    /\ Written(a) /\ EndWrite
    /\ UNCHANGED <<closed, abusive, fatal, sess, entryVars, active, feeds>>

FlushFails(a) ==
    /\ WriteFails(a, IF a = Driver THEN "ending" ELSE "count") /\ EndWrite
    /\ UNCHANGED <<closed, abusive, fatal, sess, entryVars, active, feeds>>
-----------------------------------------------------------------------------
(***************************************************************************)
(* serverDriver.                                                           *)
(***************************************************************************)
Arm ==
    /\ pc[Driver] = "arm"
    /\ \/ UpdateDeadline /\ Goto(Driver, "read")
       \/ /\ Due # "none" /\ ~writeArmed /\ deadline' = "none"     \* arm throws
          /\ Goto(Driver, "ending") /\ UNCHANGED writeArmed
    /\ UNCHANGED <<mu, writing, queued, shut, closed, abusive, fatal, sess, entryVars, active, feeds>>

ReadData ==
    /\ pc[Driver] = "read" /\ ~shut /\ ~mu /\ feeds < MaxFeeds
    /\ feeds' = feeds + 1
    /\ mu' = TRUE /\ Goto(Driver, "feed")
    /\ UNCHANGED <<writing, queued, shut, closed, abusive, fatal, sess, entryVars, active, watchVars>>

\* End of file, an error, or the socket shut down.
ReadEnds ==
    /\ pc[Driver] = "read"
    /\ Goto(Driver, "ending")
    /\ UNCHANGED <<mu, writing, queued, shut, closed, abusive, fatal, sess, entryVars, active, watchVars, feeds>>

KeepFeed == UNCHANGED <<pc, mu, writing, shut, closed, fatal, active, watchVars, feeds>>
Feeding == pc[Driver] = "feed" /\ KeepFeed

\* serverOnBeginHeaders: an entry, or REFUSED_STREAM over the cap.
OnBeginHeaders(s) ==
    /\ Feeding /\ sess[s] = "none"
    /\ sess' = [sess EXCEPT ![s] = "open"]
    /\ IF Cardinality(entry) + orphans >= MaxStreams
       THEN queued' = queued \union {Rst(s)} /\ UNCHANGED entry
       ELSE entry' = entry \union {s} /\ UNCHANGED queued
    /\ UNCHANGED <<abusive, handlerStarted, responseSubmitted, handlerActive, rejected, body, inFlight, orphans, stop>>

\* serverOnHeader over a cap, and serverOnDataChunk over the body's cap.
Reject(s) ==
    /\ rejected' = rejected \union {s}
    /\ body' = [body EXCEPT ![s] = 0] /\ inFlight' = inFlight - body[s]

OnHeader(s) ==
    /\ Feeding /\ sess[s] = "open" /\ s \in entry \ (rejected \union handlerStarted)
    /\ Reject(s) /\ queued' = queued \union {Rst(s)}
    /\ UNCHANGED <<abusive, sess, entry, handlerStarted, responseSubmitted, handlerActive, orphans, stop>>

OnDataChunk(s, len) ==
    /\ Feeding /\ sess[s] = "open" /\ s \in entry \ (rejected \union handlerStarted)
    /\ IF inFlight + len > MaxConnBody
       THEN Reject(s) /\ abusive' = TRUE /\ queued' = queued \union {Frame("goaway")}
       ELSE IF body[s] + len > MaxBody
       THEN Reject(s) /\ queued' = queued \union {Rst(s)} /\ UNCHANGED abusive
       ELSE /\ body' = [body EXCEPT ![s] = @ + len] /\ inFlight' = inFlight + len
            /\ UNCHANGED <<abusive, queued, rejected>>
    /\ UNCHANGED <<sess, entry, handlerStarted, responseSubmitted, handlerActive, orphans, stop>>

\* serverOnFrameRecv: END_STREAM; a flood of resets or of control frames.
OnEndStream(s) ==
    /\ Feeding /\ sess[s] = "open" /\ s \in entry \ handlerStarted
    /\ handlerStarted' = handlerStarted \union {s}
    /\ UNCHANGED <<queued, abusive, sess, entry, responseSubmitted, handlerActive, rejected, body, inFlight, orphans, stop>>

OnFlood ==
    /\ Feeding /\ ~abusive
    /\ abusive' = TRUE /\ queued' = queued \union {Frame("goaway")}
    /\ UNCHANGED <<sess, entryVars>>

\* The client resets a stream.
OnReset(s) ==
    /\ Feeding /\ sess[s] = "open"
    /\ OnStreamClose(s) /\ queued' = queued \ {Rst(s), Resp(s), Trailer(s)}
    /\ UNCHANGED abusive

FeedEnds ==
    /\ pc[Driver] = "feed"
    /\ mu' = FALSE
    /\ \/ fatal' = TRUE /\ queued' = queued \union {Frame("goaway")} /\ Goto(Driver, "flush")
       \/ UNCHANGED <<fatal, queued>> /\ Goto(Driver, IF abusive THEN "flush" ELSE "dispatch")
    /\ UNCHANGED <<writing, shut, closed, abusive, sess, entryVars, active, watchVars, feeds>>

\* Complete requests are handed to their handlers, each once and none that was
\* rejected.
Ready == (entry \intersect handlerStarted) \ (responseSubmitted \union rejected)

Dispatch ==
    /\ pc[Driver] = "dispatch"
    /\ responseSubmitted' = responseSubmitted \union Ready \union (entry \intersect rejected)
    /\ handlerActive' = handlerActive \union Ready
    /\ active' = active + Cardinality(Ready)
    /\ pc' = [a \in Actor |-> IF a = Driver THEN "flush" ELSE IF a[2] \in Ready THEN "run" ELSE pc[a]]
    /\ UNCHANGED <<mu, writing, queued, shut, closed, abusive, fatal, sess, entry, handlerStarted, rejected,
                   body, inFlight, orphans, stop, watchVars, feeds>>

\* A request that trickles in for longer than requestTimeout ends the connection.
\* What the same pass marked for dispatch is then not dispatched.
Trickles ==
    /\ pc[Driver] = "dispatch" /\ entry \ (handlerStarted \union rejected) # {}
    /\ responseSubmitted' = responseSubmitted \union Ready \union (entry \intersect rejected)
    /\ handlerActive' = handlerActive \union Ready
    /\ Goto(Driver, "ending")
    /\ UNCHANGED <<mu, writing, queued, shut, closed, abusive, fatal, sess, entry, handlerStarted, rejected,
                   body, inFlight, orphans, stop, active, watchVars, feeds>>

\* The end: no new deadline, every handler told, the socket shut down and closed.
Ending ==
    /\ \/ pc[Driver] = "ending" /\ Goto(Driver, "disarm") /\ closed' = TRUE
          /\ UNCHANGED <<deadline, stop, shut>>
       \/ pc[Driver] = "disarm" /\ Goto(Driver, "end") /\ deadline' = "none"
          /\ stop' = stop \union entry /\ shut' = TRUE /\ UNCHANGED closed
    /\ UNCHANGED <<mu, writing, queued, abusive, fatal, sess, entry, handlerStarted, responseSubmitted,
                   handlerActive, rejected, body, inFlight, orphans, active, writeArmed, feeds>>
-----------------------------------------------------------------------------
(***************************************************************************)
(* runOneHandler.                                                          *)
(***************************************************************************)
KeepH == UNCHANGED <<mu, writing, shut, closed, abusive, fatal, sess, entry, handlerStarted, responseSubmitted,
                     rejected, body, inFlight, stop, feeds>>

\* A handler does not start for a client that is gone, works, and does not answer
\* on a connection that is closed.
Run(s) ==
    /\ \/ pc[H(s)] = "run" /\ Goto(H(s), IF closed \/ s \in stop \/ s \notin entry THEN "finish" ELSE "work")
       \/ pc[H(s)] = "work" /\ Goto(H(s), IF closed THEN "finish" ELSE "answer")
    /\ KeepH /\ UNCHANGED <<queued, handlerActive, orphans, active, watchVars>>

\* The response (or, if the session refuses it, a reset) is submitted on the
\* stream's entry, found and used under sessionMu.
Answer(s) ==
    /\ pc[H(s)] = "answer" /\ ~mu
    /\ IF s \notin entry THEN Goto(H(s), "finish") /\ UNCHANGED <<queued, handlerActive>>
       ELSE /\ handlerActive' = handlerActive \ {s}
            /\ \E f \in {Resp(s), Rst(s)} : queued' = queued \union {f}
            /\ Goto(H(s), "flush")
    /\ KeepH /\ UNCHANGED <<orphans, active, watchVars>>

\* ~Finished: the share of the cap, the count, and the deadline after the last one.
Finish(s) ==
    \/ /\ pc[H(s)] = "finish" /\ Goto(H(s), "count")
       /\ handlerActive' = handlerActive \ {s}
       /\ orphans' = IF s \notin entry /\ orphans # 0 THEN orphans - 1 ELSE orphans
       /\ KeepH /\ UNCHANGED <<queued, active, watchVars>>
    \/ /\ pc[H(s)] = "count" /\ Goto(H(s), IF active = 1 THEN "update" ELSE "end")
       /\ active' = active - 1
       /\ KeepH /\ UNCHANGED <<queued, handlerActive, orphans, watchVars>>
    \/ /\ pc[H(s)] = "update" /\ Goto(H(s), "end")
       /\ UpdateDeadline
       /\ KeepH /\ UNCHANGED <<queued, handlerActive, orphans, active>>
-----------------------------------------------------------------------------
Flush(a) == FlushReturns(a) \/ FlushPulls(a) \/ (shut /\ FlushFails(a))
Handle(s) == Run(s) \/ Answer(s) \/ Finish(s) \/ Flush(H(s))
Drive == Arm \/ (shut /\ ReadEnds) \/ FeedEnds \/ Dispatch \/ Ending \/ Flush(Driver)

Client ==
    \/ \E s \in Stream :
           \/ OnBeginHeaders(s) \/ OnHeader(s) \/ OnEndStream(s) \/ OnReset(s)
           \/ \E len \in 1..MaxConnBody : OnDataChunk(s, len)
    \/ OnFlood \/ ReadData \/ ReadEnds \/ Trickles
    \/ \E a \in Actor : FlushWrites(a) \/ FlushFails(a)

Next == Client \/ Drive \/ Expire \/ \E s \in Stream : Handle(s)

\* A handler that asks for sessionMu gets it in the end, however often the reader has
\* it (SF); the client owes nothing.
Spec ==
    /\ Init /\ [][Next]_vars
    /\ WF_vars(Drive) /\ WF_vars(Expire) /\ \A s \in Stream : SF_vars(Handle(s))
-----------------------------------------------------------------------------
TypeOK ==
    /\ DOMAIN pc = Actor
    /\ entry \subseteq Stream /\ stop \subseteq Stream /\ handlerActive \subseteq entry
    /\ deadline \in {"none", "request", "idle", "write"}
    /\ active \in 0..Cardinality(Stream)

\* The books balance: the budget is what the live entries hold, and every handler
\* that has not answered counts against the cap on streams, through its entry or,
\* once the client has reset the stream, as an orphan.
Unanswered == {s \in Stream : pc[H(s)] \in {"run", "work", "answer", "finish"}}

BooksBalance ==
    /\ inFlight = MapThenSumSet(LAMBDA s : body[s], Stream) /\ inFlight <= MaxConnBody
    /\ \A s \in Stream : body[s] <= MaxBody
    /\ Cardinality(entry) + orphans <= MaxStreams
    /\ pc[Driver] \notin {"ending", "disarm", "end"} =>
           /\ orphans = Cardinality(Unanswered \ entry)
           /\ handlerActive = Unanswered \intersect entry

\* Only a request that is complete and within its caps reaches a handler.
OnlyWholeRequests == \A s \in entry : pc[H(s)] # "none" => s \in handlerStarted \ rejected

\* A client is never waited for without a deadline, unless a handler is at work;
\* and when the descriptor is closed no deadline is left that could shut down
\* whoever gets its number next.
ClientIsWatched ==
    /\ pc[Driver] = "read" => deadline # "none" \/ active > 0 \/ \E s \in Stream : pc[H(s)] = "update"
    /\ (\E a \in Actor : pc[a] = "write") /\ ~closed => deadline = "write"
    /\ pc[Driver] = "end" => deadline = "none"

\* A client that stops sending, or stops reading, does not keep the connection.
AllEnded == pc[Driver] = "end" /\ \A s \in Stream : pc[H(s)] \in {"none", "end"}
=============================================================================
