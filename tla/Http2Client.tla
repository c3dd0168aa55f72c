---------------------------- MODULE Http2Client -----------------------------
(***************************************************************************)
(* One client connection of Soccer/src/Http2.cpp: requests that submit     *)
(* streams and wait for them, the deadline of each, the driver that reads  *)
(* and feeds the session, and a thread that calls close().                 *)
(*                                                                         *)
(* A stream's object has two users: the session, which pulls the request   *)
(* body from it until it closes the stream, and the awaiter.  The second   *)
(* of the two to leave frees it.                                           *)
(*                                                                         *)
(* The mutex mapMu is held for single steps only; sessionMu also while the *)
(* session runs the callbacks of one feed, which other threads may observe *)
(* one by one.  Header and body contents are left out: a response is       *)
(* final headers, a body within or over its cap, and the end of stream; a  *)
(* request is its headers and perhaps a body, which may have to wait for   *)
(* the peer's window and be overtaken by the response.                     *)
(***************************************************************************)
EXTENDS Http2Flush

CONSTANTS
    Req,            \* requests, one stream each
    Timed,          \* those that are given a deadline
    Uploads,        \* those with a body
    Nobody,
    Closes,         \* somebody calls close()
    PeerLimit       \* the peer's MAX_CONCURRENT_STREAMS

VARIABLES
    closed,         \* State::closed
    sess,           \* each stream in the session
    object,         \* streams whose object is in the map
    done, consumed, \* of each object
    seen,           \* what it knows of the response: nothing, final headers, all, or a failure
    answered,       \* streams on which the peer has sent a whole response
    fatal,          \* the session has given up on the peer's bytes
    slow,           \* deadlines that were in their first half when the write began
    result          \* how each request returned

streamVars == <<sess, object, done, consumed, seen, answered>>
vars == <<flushVars, closed, streamVars, fatal, slow, result>>

R(r) == <<"request", r>>
D(r) == <<"timer", r>>
Driver == <<"driver", Nobody>>
Closer == <<"closer", Nobody>>
Requests == {R(r) : r \in Req}
Timers == {D(r) : r \in Req}
Actor == Requests \union Timers \union {Driver, Closer}

Rst(r) == <<"rst", r>>
Hdr(r) == <<"request", r>>
Dat(r) == <<"body", r>>
Goaway == <<"goaway", Nobody>>

Init ==
    /\ FlushInit
    /\ pc = [a \in Actor |-> IF a \in Requests THEN "new" ELSE
                             IF a \in Timers THEN "off" ELSE
                             IF a = Driver THEN "read" ELSE
                             IF Closes THEN "idle" ELSE "end"]
    /\ closed = FALSE
    /\ sess = [r \in Req |-> "none"]
    /\ object = {} /\ done = {} /\ consumed = {}
    /\ seen = [r \in Req |-> "nothing"]
    /\ answered = {}
    /\ fatal = FALSE /\ slow = {}
    /\ result = [r \in Req |-> "none"]

\* bodyRejected, headersRejected, timedOut, connectionLost and errorCode all make
\* await_resume throw, and none is ever taken back.
Spoil(S) == seen' = [r \in Req |-> IF r \in S THEN "failure" ELSE seen[r]]
-----------------------------------------------------------------------------
(***************************************************************************)
(* The session (external).  A submitted stream is queued, blocked while    *)
(* its body waits for the peer's window, sending once the body may go out, *)
(* open when all of the request has, and closed; one that is reset while   *)
(* it is queued is cancelled and never goes out.                           *)
(***************************************************************************)
Open == {r \in Req : sess[r] \in {"blocked", "sending", "open"}}
HasRoom == Cardinality(Open) < PeerLimit

\* What a pull may emit now; requests wait behind the peer's limit.
Emits ==
    queued \union {Dat(r) : r \in {x \in Req : sess[x] = "sending"}}
           \union (IF HasRoom THEN {Hdr(r) : r \in {x \in Req : sess[x] = "queued"}} ELSE {})

\* Cancelled requests that a pull finds and drops.
Drops == IF HasRoom THEN {r \in Req : sess[r] = "cancelled"} ELSE {}

\* nghttp2_submit_rst_stream.
SubmitRst(r) ==
    /\ sess' = IF sess[r] = "queued" THEN [sess EXCEPT ![r] = "cancelled"] ELSE sess
    /\ queued' = IF r \in Open THEN queued \union {Rst(r)} ELSE queued

(***************************************************************************)
(* Ends of streams.                                                        *)
(***************************************************************************)
\* onStreamClose for the streams `over', for those of them in `lost' with an error
\* code, while the others become `next'.
Streams(next, over, lost) ==
    /\ sess' = [r \in Req |-> IF r \in over THEN "closed" ELSE next[r]]
    /\ done' = done \union (over \intersect object)
    /\ Spoil((lost \intersect object) \ done)
    /\ object' = object \ (over \intersect consumed)
    /\ UNCHANGED <<consumed, answered>>

OnStreamClose(S, error) == Streams(sess, S, IF error THEN S ELSE {})

\* The awaiters that an end of the streams S wakes.
Awaiters(S) == {R(r) : r \in S}

\* failOutstandingStreams: whatever is not done is lost, and its awaiter resumed
\* (pc' is for the caller to give).
FailOutstanding ==
    /\ done' = done \union object
    /\ Spoil(object \ done)
    /\ UNCHANGED <<sess, object, consumed, answered>>

Lost == Awaiters(object \ done)
-----------------------------------------------------------------------------
(***************************************************************************)
(* flushSession, for all four kinds of coroutine.                          *)
(***************************************************************************)
AfterFlush(a) ==
    CASE a \in Requests -> "await"
      [] a \in Timers -> "end"
      [] a = Driver -> IF fatal \/ closed THEN "ending" ELSE "read"
      [] a = Closer -> "shut"

AfterFailure(a) ==
    CASE a \in Requests \union Timers -> "abort"
      [] a = Driver -> "ending"
      [] a = Closer -> "shut"

FlushReturns(a) ==
    \/ LeftToWriter(a, AfterFlush(a)) /\ UNCHANGED <<closed, streamVars, fatal, slow, result>>
    \/ /\ NothingToSend(a, Emits, Awaiters(Drops), AfterFlush(a))
       /\ OnStreamClose(Drops, TRUE)
       /\ UNCHANGED <<closed, fatal, slow, result>>

\* A chunk of one frame.  RST_STREAM closes its stream, from inside the pull, and so
\* does the end of a body (requestBodyRead) that the response has overtaken.
FlushPulls(a) ==
    \E f \in Emits, out \in {"blocked", "open"} :
        LET lost == Drops \union {r \in Req : f = Rst(r)}
            over == lost \union {r \in answered : f = Dat(r)}
        IN
        /\ out = "blocked" => f \in {Hdr(r) : r \in Uploads}
        /\ PullChunk(a, queued \ ({f} \union {Rst(r) : r \in over}), Awaiters(over))
        /\ Streams([r \in Req |-> IF f \in {Hdr(r), Dat(r)} THEN out ELSE sess[r]], over, lost)
        /\ slow' = {r \in Req : pc[D(r)] = "sleep"}
        /\ UNCHANGED <<closed, fatal, result>>

FlushWrites(a) == Written(a) /\ slow' = {} /\ UNCHANGED <<closed, streamVars, fatal, result>>
FlushFails(a) == WriteFails(a, AfterFailure(a)) /\ slow' = {} /\ UNCHANGED <<closed, streamVars, fatal, result>>
-----------------------------------------------------------------------------
(***************************************************************************)
(* Http2Connection::request.                                               *)
(***************************************************************************)
\* The coroutine of r ends; StopOnExit ends a timer that still sleeps.
Over(r, p) == [p EXCEPT ![R(r)] = "end", ![D(r)] = IF @ \in {"sleep", "late"} THEN "end" ELSE @]

Ended(r, how) ==
    /\ result' = [result EXCEPT ![r] = how]
    /\ pc' = Over(r, pc)

\* The look at `closed' on entry.
Refuse(r) ==
    /\ pc[R(r)] = "new" /\ closed
    /\ Ended(r, "threw")
    /\ UNCHANGED <<mu, writing, queued, shut, closed, streamVars, fatal, slow>>

\* Submission and registration under both locks, with a second look at `closed';
\* then the deadline, if there is one, is spawned.
Submit(r) ==
    /\ pc[R(r)] = "new" /\ ~mu
    /\ object' = object \union {r}
    /\ \/ /\ closed
          /\ sess' = [sess EXCEPT ![r] = "cancelled"]
          /\ done' = done \union {r} /\ consumed' = consumed \union {r}
          /\ Ended(r, "threw")
       \/ /\ ~closed
          /\ sess' = [sess EXCEPT ![r] = "queued"]
          /\ pc' = [pc EXCEPT ![R(r)] = "flush", ![D(r)] = IF r \in Timed THEN "sleep" ELSE @]
          /\ UNCHANGED <<done, consumed, result>>
    /\ UNCHANGED <<mu, writing, queued, shut, closed, seen, answered, fatal, slow>>

\* StreamAwaiter, await_ready and await_suspend.
Await(r) ==
    /\ pc[R(r)] = "await"
    /\ Goto(R(r), IF r \notin object \/ r \in done THEN "awake" ELSE "parked")
    /\ UNCHANGED <<mu, writing, queued, shut, closed, streamVars, fatal, slow, result>>

\* ... and await_resume: the response is taken out and judged.
Judge(r) ==
    IF r \notin object THEN "vanished" ELSE IF seen[r] = "all" THEN "response" ELSE "threw"

Resume(r) ==
    /\ pc[R(r)] = "awake"
    /\ Ended(r, Judge(r))
    /\ consumed' = consumed \union ({r} \intersect object)
    /\ object' = IF sess[r] = "closed" THEN object \ {r} ELSE object
    /\ UNCHANGED <<mu, writing, queued, shut, closed, sess, done, seen, answered, fatal, slow>>

\* abortConnection, after a failed flush (of a request, which then rethrows, or of
\* its deadline), or by a deadline that finds a write stuck.
Abort(a) ==
    /\ pc[a] = "abort"
    /\ closed' = TRUE /\ shut' = TRUE
    /\ FailOutstanding
    /\ IF a \in Requests
       THEN pc' = Over(a[2], Wake(Lost)) /\ result' = [result EXCEPT ![a[2]] = "threw"]
       ELSE pc' = [Wake(Lost) EXCEPT ![a] = "end"] /\ UNCHANGED result
    /\ UNCHANGED <<mu, writing, queued, fatal, slow>>
-----------------------------------------------------------------------------
(***************************************************************************)
(* requestDeadline: half of the limit passes, then the other half.         *)
(***************************************************************************)
Keep == UNCHANGED <<mu, writing, shut, closed, fatal, slow, result>>

Tick(r) ==
    /\ \/ pc[D(r)] = "sleep" /\ Goto(D(r), "late")
       \/ pc[D(r)] = "late" /\ Goto(D(r), IF r \in object \ done THEN "reset" ELSE "end")
    /\ Keep /\ UNCHANGED <<queued, streamVars>>

ResetStream(r) ==
    /\ pc[D(r)] = "reset" /\ ~mu
    /\ SubmitRst(r)
    /\ Goto(D(r), "fail")
    /\ Keep /\ UNCHANGED <<object, done, consumed, seen, answered>>

\* A deadline that leaves its RST_STREAM for somebody else to flush.
AfterLookLeaves(r) == IF \A a \in Actor : pc[a] # "write" THEN {"end"} ELSE {"abort"}

\* A write that has been going on for half the limit is given up.  One that began
\* in the second half may look that old too when this coroutine is late.
AfterLook(r) ==
    IF \A a \in Actor : pc[a] # "write" THEN {"flush"}
    ELSE IF r \in slow THEN {"abort"} ELSE {"abort", "flush"}

\* failStream(id, timedOut), and the look at the write in progress.
FailStream(r) ==
    /\ pc[D(r)] = "fail"
    /\ done' = done \union ({r} \intersect object)
    /\ Spoil({r} \intersect (object \ done))
    /\ \E next \in AfterLook(r) : pc' = [Wake(Awaiters({r})) EXCEPT ![D(r)] = next]
    /\ Keep /\ UNCHANGED <<queued, sess, object, consumed, answered>>
-----------------------------------------------------------------------------
(***************************************************************************)
(* driver: what the peer sends arrives in feeds, during which the session  *)
(* holds its lock and runs one callback after the other.                   *)
(***************************************************************************)
KeepFeed == UNCHANGED <<writing, shut, closed, fatal, slow, result>>

ReadData ==
    /\ pc[Driver] = "read" /\ ~shut /\ ~mu
    /\ mu' = TRUE /\ Goto(Driver, "feed")
    /\ KeepFeed /\ UNCHANGED <<queued, streamVars>>

\* End of file or an error, always possible, certain once the socket is shut down.
ReadEnds ==
    /\ pc[Driver] = "read"
    /\ Goto(Driver, "ending")
    /\ KeepFeed /\ UNCHANGED <<mu, queued, streamVars>>

Feeding(r) == pc[Driver] = "feed" /\ r \in Open /\ KeepFeed /\ UNCHANGED mu

\* WINDOW_UPDATE: the body of the request may go out.
OnWindowUpdate(r) ==
    /\ Feeding(r) /\ sess[r] = "blocked" /\ sess' = [sess EXCEPT ![r] = "sending"]
    /\ UNCHANGED <<pc, queued, object, done, consumed, seen, answered>>

\* onHeader: the final headers, or more than the caps allow.  An object that is
\* done is left alone.
OnHeader(r) ==
    /\ Feeding(r) /\ r \in object \ done /\ seen[r] = "nothing"
    /\ \/ seen' = [seen EXCEPT ![r] = "headers"] /\ UNCHANGED <<queued, sess>>
       \/ Spoil({r}) /\ SubmitRst(r)
    /\ UNCHANGED <<pc, object, done, consumed, answered>>

\* onDataChunk with more body than the cap allows.
OnDataChunk(r) ==
    /\ Feeding(r) /\ r \in object \ done /\ seen[r] = "headers"
    /\ Spoil({r}) /\ SubmitRst(r)
    /\ UNCHANGED <<pc, object, done, consumed, answered>>

\* onFrameRecv: END_STREAM.  A stream that was rejected may still get it.
OnFrameRecv(r) ==
    /\ Feeding(r) /\ r \in object /\ seen[r] \in {"headers", "failure"} /\ r \notin answered
    /\ seen' = [seen EXCEPT ![r] = IF @ = "headers" THEN "all" ELSE @]
    /\ answered' = answered \union {r}
    /\ UNCHANGED <<pc, queued, sess, object, done, consumed>>

\* Both ends are through with the stream.
Finished(r) == r \in answered /\ sess[r] = "open"

\* The stream closes: it is finished, or the peer resets it, with or without an
\* error code.
PeerCloses(r) ==
    /\ Feeding(r)
    /\ \/ OnStreamClose({r}, FALSE)
       \/ ~Finished(r) /\ OnStreamClose({r}, TRUE)
    /\ queued' = queued \ {Rst(r)}
    /\ pc' = Wake(Awaiters({r}))

FeedEnds ==
    /\ pc[Driver] = "feed" /\ \A r \in Req : ~Finished(r)
    /\ mu' = FALSE /\ Goto(Driver, "flush")
    /\ \/ UNCHANGED <<fatal, queued>>
       \/ fatal' = TRUE /\ queued' = queued \union {Goaway}
    /\ UNCHANGED <<writing, shut, closed, slow, result, streamVars>>

\* Once the peer has sent GOAWAY, a session that wants neither to read nor to
\* write any more ends the loop.
WantsNothing ==
    /\ pc[Driver] = "read" /\ Open = {} /\ Emits = {} /\ ~mu
    /\ Goto(Driver, "ending")
    /\ KeepFeed /\ UNCHANGED <<mu, queued, streamVars>>

DriverEnds ==
    \/ /\ pc[Driver] = "ending" /\ closed' = TRUE
       /\ Goto(Driver, "sweep") /\ fatal' = FALSE
       /\ UNCHANGED <<mu, writing, queued, shut, streamVars, slow, result>>
    \/ /\ pc[Driver] = "sweep" /\ FailOutstanding
       /\ pc' = [Wake(Lost) EXCEPT ![Driver] = "end"]
       /\ UNCHANGED <<mu, writing, queued, shut, closed, fatal, slow, result>>
-----------------------------------------------------------------------------
(***************************************************************************)
(* Http2Connection::close and closeConnectionAsync.                        *)
(***************************************************************************)
Close ==
    /\ pc[Closer] = "idle"
    /\ closed' = TRUE /\ Goto(Closer, IF closed THEN "end" ELSE "goaway")
    /\ UNCHANGED <<mu, writing, queued, shut, streamVars, fatal, slow, result>>

SubmitGoaway ==
    /\ pc[Closer] = "goaway" /\ ~mu
    /\ queued' = queued \union {Goaway} /\ Goto(Closer, "sweep")
    /\ UNCHANGED <<mu, writing, shut, closed, streamVars, fatal, slow, result>>

CloseSweeps ==
    /\ pc[Closer] = "sweep"
    /\ FailOutstanding
    /\ pc' = [Wake(Lost) EXCEPT ![Closer] = "flush"]
    /\ UNCHANGED <<mu, writing, queued, shut, closed, fatal, slow, result>>

ShutDown ==
    /\ pc[Closer] = "shut"
    /\ shut' = TRUE /\ Goto(Closer, "end")
    /\ UNCHANGED <<mu, writing, queued, closed, streamVars, fatal, slow, result>>
-----------------------------------------------------------------------------
\* What goes on by itself, whatever the peer does.
Flush(a) == FlushReturns(a) \/ FlushPulls(a) \/ (shut /\ FlushFails(a)) \/ Abort(a)
Request(r) == Submit(r) \/ Await(r) \/ Resume(r) \/ Flush(R(r))
Deadline(r) == Tick(r) \/ ResetStream(r) \/ FailStream(r) \/ Flush(D(r))
Drive == (shut /\ ReadEnds) \/ FeedEnds \/ DriverEnds \/ Flush(Driver) \/ \E r \in Req : Finished(r) /\ PeerCloses(r)
Closing == SubmitGoaway \/ CloseSweeps \/ ShutDown \/ Flush(Closer)

Next ==
    \/ \E r \in Req :
           \/ Refuse(r) \/ Request(r) \/ Deadline(r)
           \/ OnWindowUpdate(r) \/ OnHeader(r) \/ OnDataChunk(r) \/ OnFrameRecv(r) \/ PeerCloses(r)
    \/ \E a \in Actor : FlushWrites(a) \/ FlushFails(a)
    \/ ReadData \/ ReadEnds \/ WantsNothing \/ Drive
    \/ Close \/ Closing

\* A thread that asks for sessionMu gets it in the end, however often the reader has it
\* (SF); the peer owes nothing.
Spec ==
    /\ Init /\ [][Next]_vars
    /\ \A r \in Req : SF_vars(Request(r)) /\ SF_vars(Deadline(r))
    /\ WF_vars(Drive) /\ WF_vars(Closing)
-----------------------------------------------------------------------------
TypeOK ==
    /\ DOMAIN pc = Actor
    /\ sess \in [Req -> {"none", "queued", "cancelled", "blocked", "sending", "open", "closed"}]
    /\ object \subseteq Req /\ done \subseteq Req /\ consumed \subseteq Req
    /\ seen \in [Req -> {"nothing", "headers", "all", "failure"}]
    /\ result \in [Req -> {"none", "response", "threw"}]

\* The object of a stream is in the map for as long as the session or the awaiter
\* may use it, and leaves the map with the second of the two.
ObjectOutlivesUsers ==
    \A r \in Req :
        /\ sess[r] \notin {"none", "closed"} => r \in object
        /\ pc[R(r)] \in {"flush", "write", "again", "await", "parked", "awake"} => r \in object
        /\ ~(r \in object /\ sess[r] = "closed" /\ r \in consumed)

\* A frame the session would send is never left without somebody who will look:
\* a writer, a coroutine on its way into flushSession, or one that gives the
\* connection up.
NothingStranded ==
    Emits # {} /\ ~closed =>
        \/ writing \/ Entering # {} \/ pc[Driver] \in {"feed", "ending"}
        \/ \E r \in Req : pc[D(r)] = "fail"
        \/ \E a \in Actor : pc[a] = "abort"

\* Whoever is parked waits for a stream that is not over, and once the connection
\* is closed somebody is still to fail that stream.
ParkedIsAwaited ==
    \A r \in Req : pc[R(r)] = "parked" =>
        /\ r \in object \ done
        /\ closed => pc[Driver] # "end" \/ \E a \in Actor : pc[a] = "sweep"

\* A request that returns a response has all of it: the peer ended the stream, and
\* no cap cut it short.
ResponseIsComplete ==
    \A r \in Req : result[r] = "response" => r \in answered

\* A request that waits for its response returns once its deadline has passed, even
\* if the peer never sends or reads a byte.
Waiting == \E r \in Timed : pc[R(r)] \in {"await", "parked", "awake"}
AllReturned == \A r \in Timed : pc[R(r)] = "end"

\* What Http2.h says of the deadline: when it passes, the call throws.
DeadlineEndsCall == (\E r \in Timed : pc[R(r)] # "new") ~> AllReturned
=============================================================================
