---------------------------- MODULE MCProtocols -----------------------------
(***************************************************************************)
(* The protocols of Soccer for TLC, each on its own (`sys' never changes): *)
(*  h2two      an HTTP/2 client connection with two requests, of which the *)
(*             peer allows one at a time                                   *)
(*  h2timed    one with a deadline, on a connection that is closed         *)
(*  h2server   an HTTP/2 server connection that allows one stream          *)
(*  h2bodies   one that allows two, whose bodies share a budget            *)
(*  h2pool     two callers of the pool of HTTP/2 connections               *)
(*  h1pooled   two requests over HttpConnectionPool, one repeatable        *)
(*  h1hosts    two to one or two hosts, with connections that grow stale   *)
(*  h1plain    a request of HttpClient without the pool                    *)
(*  h1server   HttpServer with two clients and one slot                    *)
(*  tcpserver  tcpServe with a cap of its own                              *)
(*  ws         a WebSocket with a receiver, a sender and a closer          *)
(*  wslong     one with no sender, whose peer sends longer messages        *)
(* The variables of a system that is not running stay 0.                   *)
(***************************************************************************)
EXTENDS Naturals

CONSTANTS x1, x2, x3, Nobody

VARIABLES sys,
    pc, mu, writing, queued, shut, closed, fatal, sess,             \* both ends of HTTP/2
    object, done, consumed, seen, answered, slow, result,           \* Http2Client
    abusive, entry, handlerStarted, responseSubmitted,              \* Http2Server
    handlerActive, rejected, body, inFlight, orphans, active, stop,
    deadline, writeArmed, feeds,
    entries, live, fresh, user,                                     \* Http2Pool
    call, host, conn, reused, interim, saw, stamp, fired, armed,    \* Http1Client
    sent, returned, wire, peer, cut, count, idle, clock,
    loop, stopping, knock, spare, others, taken,                    \* Http1Server
    conns, slot, watch, expired, says,
    op, open, broken, holder, queue, torn, task, asm, empties,      \* WebSocket
    pings, pre, inbox, eaten, arrived, other, down, reading, sending

TwoRequests == INSTANCE Http2Client WITH Req <- {x1, x2}, Timed <- {}, Uploads <- {x1}, Closes <- FALSE, PeerLimit <- 1
OneTimed == INSTANCE Http2Client WITH Req <- {x1}, Timed <- {x1}, Uploads <- {}, Closes <- TRUE, PeerLimit <- 1
Server2 == INSTANCE Http2Server WITH
    Stream <- {x1, x2}, MaxStreams <- 1, MaxBody <- 1, MaxConnBody <- 2, MaxFeeds <- 2
Bodies2 == INSTANCE Http2Server WITH
    Stream <- {x1, x2}, MaxStreams <- 2, MaxBody <- 1, MaxConnBody <- 1, MaxFeeds <- 1
Pool2 == INSTANCE Http2Pool WITH User <- {x1, x2}, Origin <- {x1, x2}, Conn <- {x1, x2, x3}, Limit <- 1
Pooled1 == INSTANCE Http1Client WITH
    pc <- call, result <- returned, shut <- cut,
    Req <- {x1, x2}, Pooled <- {x1, x2}, Idempotent <- {x2}, Conn <- {x1, x2}, Host <- {x3},
    MaxIdle <- 1, MaxHosts <- 1, MaxAge <- 0, MaxInterim <- 1, MaxClock <- 0, MaxPieces <- 2
Hosts1 == INSTANCE Http1Client WITH
    pc <- call, result <- returned, shut <- cut,
    Req <- {x1, x2}, Pooled <- {x1, x2}, Idempotent <- {x2}, Conn <- {x1, x2}, Host <- {x1, x2},
    MaxIdle <- 1, MaxHosts <- 1, MaxAge <- 1, MaxInterim <- 1, MaxClock <- 2, MaxPieces <- 1
Plain1 == INSTANCE Http1Client WITH
    pc <- call, result <- returned, shut <- cut,
    Req <- {x1}, Pooled <- {}, Idempotent <- {}, Conn <- {x1}, Host <- {x3},
    MaxIdle <- 1, MaxHosts <- 1, MaxAge <- 0, MaxInterim <- 2, MaxClock <- 0, MaxPieces <- 3
Server1 == INSTANCE Http1Server WITH
    stop <- stopping, count <- taken, pc <- conns, armed <- watch, fired <- expired,
    Client <- {x1, x2}, MaxConns <- 1, LoopCap <- FALSE, MaxFds <- 2
TcpServer == INSTANCE Http1Server WITH
    stop <- stopping, count <- taken, pc <- conns, armed <- watch, fired <- expired,
    Client <- {x1, x2}, MaxConns <- 1, LoopCap <- TRUE, MaxFds <- 3
Ws == INSTANCE WebSocket WITH
    pc <- op, sent <- arrived, peer <- other, shut <- down, writing <- sending,
    Sender <- {x1}, Closer <- x2, Receiver <- x3,
    MaxMessage <- 1, MaxEmpty <- 1, MaxPings <- 1, MaxHalves <- 3
WsLong == INSTANCE WebSocket WITH
    pc <- op, sent <- arrived, peer <- other, shut <- down, writing <- sending,
    Sender <- {}, Closer <- x2, Receiver <- x3,
    MaxMessage <- 2, MaxEmpty <- 1, MaxPings <- 1, MaxHalves <- 6

sessionVars == <<pc, mu, writing, queued, shut, closed, fatal, sess>>
client2Vars == <<object, done, consumed, seen, answered, slow, result>>
server2Vars == <<abusive, entry, handlerStarted, responseSubmitted, handlerActive, rejected, body,
                 inFlight, orphans, active, stop, deadline, writeArmed, feeds>>
pool2Vars == <<entries, live, fresh, user>>
client1Vars == <<call, host, conn, reused, interim, saw, stamp, fired, armed, sent, returned, wire,
                 peer, cut, count, idle, clock>>
server1Vars == <<loop, stopping, knock, spare, others, taken, conns, slot, watch, expired, says>>
wsVars == <<op, open, broken, holder, queue, torn, task, asm, empties, pings, pre, inbox, eaten,
            arrived, other, down, reading, sending>>
vars == <<sys, sessionVars, client2Vars, server2Vars, pool2Vars, client1Vars, server1Vars, wsVars>>

NoSession ==
    pc = 0 /\ mu = 0 /\ writing = 0 /\ queued = 0 /\ shut = 0 /\ closed = 0 /\ fatal = 0 /\ sess = 0
NoClient2 == object = 0 /\ done = 0 /\ consumed = 0 /\ seen = 0 /\ answered = 0 /\ slow = 0 /\ result = 0
NoServer2 ==
    /\ abusive = 0 /\ entry = 0 /\ handlerStarted = 0 /\ responseSubmitted = 0 /\ handlerActive = 0
    /\ rejected = 0 /\ body = 0 /\ inFlight = 0 /\ orphans = 0 /\ active = 0 /\ stop = 0 /\ deadline = 0
    /\ writeArmed = 0 /\ feeds = 0
NoPool2 == entries = 0 /\ live = 0 /\ fresh = 0 /\ user = 0
NoClient1 ==
    /\ call = 0 /\ host = 0 /\ conn = 0 /\ reused = 0 /\ interim = 0 /\ saw = 0 /\ stamp = 0 /\ fired = 0
    /\ armed = 0 /\ sent = 0 /\ returned = 0 /\ wire = 0 /\ peer = 0 /\ cut = 0 /\ count = 0 /\ idle = 0
    /\ clock = 0
NoServer1 ==
    /\ loop = 0 /\ stopping = 0 /\ knock = 0 /\ spare = 0 /\ others = 0 /\ taken = 0 /\ conns = 0
    /\ slot = 0 /\ watch = 0 /\ expired = 0 /\ says = 0
NoWs ==
    /\ op = 0 /\ open = 0 /\ broken = 0 /\ holder = 0 /\ queue = 0 /\ torn = 0 /\ task = 0 /\ asm = 0
    /\ empties = 0 /\ pings = 0 /\ pre = 0 /\ inbox = 0 /\ eaten = 0 /\ arrived = 0 /\ other = 0
    /\ down = 0 /\ reading = 0 /\ sending = 0

Init ==
    \/ sys = "h2two" /\ TwoRequests!Init /\ NoServer2 /\ NoPool2 /\ NoClient1 /\ NoServer1 /\ NoWs
    \/ sys = "h2timed" /\ OneTimed!Init /\ NoServer2 /\ NoPool2 /\ NoClient1 /\ NoServer1 /\ NoWs
    \/ sys = "h2server" /\ Server2!Init /\ NoClient2 /\ NoPool2 /\ NoClient1 /\ NoServer1 /\ NoWs
    \/ sys = "h2bodies" /\ Bodies2!Init /\ NoClient2 /\ NoPool2 /\ NoClient1 /\ NoServer1 /\ NoWs
    \/ sys = "h2pool" /\ Pool2!Init /\ NoSession /\ NoClient2 /\ NoServer2 /\ NoClient1 /\ NoServer1 /\ NoWs
    \/ sys = "h1pooled" /\ Pooled1!Init /\ NoSession /\ NoClient2 /\ NoServer2 /\ NoPool2 /\ NoServer1 /\ NoWs
    \/ sys = "h1hosts" /\ Hosts1!Init /\ NoSession /\ NoClient2 /\ NoServer2 /\ NoPool2 /\ NoServer1 /\ NoWs
    \/ sys = "h1plain" /\ Plain1!Init /\ NoSession /\ NoClient2 /\ NoServer2 /\ NoPool2 /\ NoServer1 /\ NoWs
    \/ sys = "h1server" /\ Server1!Init /\ NoSession /\ NoClient2 /\ NoServer2 /\ NoPool2 /\ NoClient1 /\ NoWs
    \/ sys = "tcpserver" /\ TcpServer!Init /\ NoSession /\ NoClient2 /\ NoServer2 /\ NoPool2 /\ NoClient1 /\ NoWs
    \/ sys = "ws" /\ Ws!Init /\ NoSession /\ NoClient2 /\ NoServer2 /\ NoPool2 /\ NoClient1 /\ NoServer1
    \/ sys = "wslong" /\ WsLong!Init /\ NoSession /\ NoClient2 /\ NoServer2 /\ NoPool2 /\ NoClient1 /\ NoServer1

OnlyClient2 == UNCHANGED <<sys, server2Vars, pool2Vars, client1Vars, server1Vars, wsVars>>
OnlyServer2 == UNCHANGED <<sys, client2Vars, pool2Vars, client1Vars, server1Vars, wsVars>>
OnlyPool2 == UNCHANGED <<sys, sessionVars, client2Vars, server2Vars, client1Vars, server1Vars, wsVars>>
OnlyClient1 == UNCHANGED <<sys, sessionVars, client2Vars, server2Vars, pool2Vars, server1Vars, wsVars>>
OnlyServer1 == UNCHANGED <<sys, sessionVars, client2Vars, server2Vars, pool2Vars, client1Vars, wsVars>>
OnlyWs == UNCHANGED <<sys, sessionVars, client2Vars, server2Vars, pool2Vars, client1Vars, server1Vars>>

Next ==
    \/ sys = "h2two" /\ TwoRequests!Next /\ OnlyClient2
    \/ sys = "h2timed" /\ OneTimed!Next /\ OnlyClient2
    \/ sys = "h2server" /\ Server2!Next /\ OnlyServer2
    \/ sys = "h2bodies" /\ Bodies2!Next /\ OnlyServer2
    \/ sys = "h2pool" /\ Pool2!Next /\ OnlyPool2
    \/ sys = "h1pooled" /\ Pooled1!Next /\ OnlyClient1
    \/ sys = "h1hosts" /\ Hosts1!Next /\ OnlyClient1
    \/ sys = "h1plain" /\ Plain1!Next /\ OnlyClient1
    \/ sys = "h1server" /\ Server1!Next /\ OnlyServer1
    \/ sys = "tcpserver" /\ TcpServer!Next /\ OnlyServer1
    \/ sys = "ws" /\ Ws!Next /\ OnlyWs
    \/ sys = "wslong" /\ WsLong!Next /\ OnlyWs

(***************************************************************************)
(* The fairness each module states: coroutines of the pool and the sweeper *)
(* of the deadlines run, peers need not.  Since `sys' never changes,       *)
(* fairness of a disjunction over systems is fairness in each; Fair1 to    *)
(* Fair6 only put the steps of different systems together.                 *)
(***************************************************************************)
Fair1 ==
    \/ sys = "h2timed" /\ OneTimed!Drive /\ OnlyClient2
    \/ sys = "h2server" /\ Server2!Drive /\ OnlyServer2
    \/ sys = "h1pooled" /\ Pooled1!Call(x1) /\ OnlyClient1
    \/ sys = "h1plain" /\ Plain1!Call(x1) /\ OnlyClient1
    \/ sys = "h1server" /\ Server1!Loop /\ OnlyServer1
    \/ sys = "tcpserver" /\ TcpServer!Loop /\ OnlyServer1
    \/ sys = "ws" /\ Ws!Operation(x1) /\ OnlyWs
Fair2 ==
    \/ sys = "h2timed" /\ OneTimed!Closing /\ OnlyClient2
    \/ sys = "h2server" /\ Server2!Expire /\ OnlyServer2
    \/ sys = "h1pooled" /\ Pooled1!Call(x2) /\ OnlyClient1
    \/ sys = "h1server" /\ Server1!WakeAccept /\ OnlyServer1
    \/ sys = "tcpserver" /\ TcpServer!WakeAccept /\ OnlyServer1
    \/ sys = "ws" /\ Ws!Operation(x2) /\ OnlyWs
Fair3 ==
    \/ sys = "h1pooled" /\ Pooled1!Expire(x1) /\ OnlyClient1
    \/ sys = "h1plain" /\ Plain1!Expire(x1) /\ OnlyClient1
    \/ sys = "h1server" /\ Server1!Handle(x1) /\ OnlyServer1
    \/ sys = "tcpserver" /\ TcpServer!Handle(x1) /\ OnlyServer1
    \/ sys = "ws" /\ Ws!Operation(x3) /\ OnlyWs
Fair4 ==
    \/ sys = "h1pooled" /\ Pooled1!Expire(x2) /\ OnlyClient1
    \/ sys = "h1server" /\ Server1!Handle(x2) /\ OnlyServer1
    \/ sys = "tcpserver" /\ TcpServer!Handle(x2) /\ OnlyServer1
    \/ sys = "ws" /\ Ws!ReadExpires /\ OnlyWs
Fair5 ==
    \/ sys = "h1server" /\ Server1!Expire(x1) /\ OnlyServer1
    \/ sys = "tcpserver" /\ TcpServer!Expire(x1) /\ OnlyServer1
    \/ sys = "ws" /\ Ws!WriteExpires /\ OnlyWs
Fair6 ==
    \/ sys = "h1server" /\ Server1!Expire(x2) /\ OnlyServer1
    \/ sys = "tcpserver" /\ TcpServer!Expire(x2) /\ OnlyServer1
StronglyFair1 ==
    \/ sys = "h2timed" /\ OneTimed!Request(x1) /\ OnlyClient2
    \/ sys = "h2server" /\ Server2!Handle(x1) /\ OnlyServer2
StronglyFair2 ==
    \/ sys = "h2timed" /\ OneTimed!Deadline(x1) /\ OnlyClient2
    \/ sys = "h2server" /\ Server2!Handle(x2) /\ OnlyServer2

Spec ==
    /\ Init /\ [][Next]_vars
    /\ WF_vars(Fair1) /\ WF_vars(Fair2) /\ WF_vars(Fair3) /\ WF_vars(Fair4) /\ WF_vars(Fair5) /\ WF_vars(Fair6)
    /\ SF_vars(StronglyFair1) /\ SF_vars(StronglyFair2)
-----------------------------------------------------------------------------
\* Types of all twelve.
TypesOK ==
    /\ sys = "h2two" => TwoRequests!TypeOK
    /\ sys = "h2timed" => OneTimed!TypeOK
    /\ sys = "h2server" => Server2!TypeOK
    /\ sys = "h2bodies" => Bodies2!TypeOK
    /\ sys = "h2pool" => Pool2!TypeOK
    /\ sys = "h1pooled" => Pooled1!TypeOK
    /\ sys = "h1hosts" => Hosts1!TypeOK
    /\ sys = "h1plain" => Plain1!TypeOK
    /\ sys = "h1server" => Server1!TypeOK
    /\ sys = "tcpserver" => TcpServer!TypeOK
    /\ sys = "ws" => Ws!TypeOK
    /\ sys = "wslong" => WsLong!TypeOK

(***************************************************************************)
(* One coroutine writes at a time.  In HTTP/2 the flag `writing' says      *)
(* whether there is one, so frames reach the wire in the order in which    *)
(* the session emitted them; on a WebSocket nothing follows a frame that   *)
(* was cut short.                                                          *)
(***************************************************************************)
OneWriter ==
    /\ sys \in {"h2two", "h2server", "h2bodies"} => TwoRequests!OneWriter
    /\ sys = "h2timed" => OneTimed!OneWriter
    /\ sys = "ws" => Ws!NothingAfterTorn
    /\ sys = "wslong" => WsLong!NothingAfterTorn

(***************************************************************************)
(* No frame is queued, no request parked and no client waiting at the      *)
(* accept loop without somebody who will come for it: a coroutine that     *)
(* will flush, one that will fail the stream, a loop that only stop() ends.*)
(***************************************************************************)
NothingStranded ==
    /\ sys = "h2two" => TwoRequests!NothingStranded /\ TwoRequests!ParkedIsAwaited
    /\ sys = "h2timed" => OneTimed!NothingStranded /\ OneTimed!ParkedIsAwaited
    /\ sys \in {"h1server", "tcpserver"} => Server1!OnlyStopEndsLoop

(***************************************************************************)
(* What a caller or a handler is given is whole and its own: a response    *)
(* the peer finished, never that of an earlier request on the connection;  *)
(* a request no cap has cut; every half frame read once; and nothing is    *)
(* sent again unless repeating it is safe.                                 *)
(***************************************************************************)
WholeMessagesOnly ==
    /\ sys = "h2two" => TwoRequests!ResponseIsComplete
    /\ sys = "h2timed" => OneTimed!ResponseIsComplete
    /\ sys = "h2server" => Server2!OnlyWholeRequests
    /\ sys = "h2bodies" => Bodies2!OnlyWholeRequests
    /\ sys = "h1pooled" => Pooled1!NothingStale /\ Pooled1!RepeatsAreSafe
    /\ sys = "h1hosts" => Hosts1!NothingStale /\ Hosts1!RepeatsAreSafe
    /\ sys = "h1plain" => Plain1!NothingStale /\ Plain1!RepeatsAreSafe
    /\ sys = "ws" => Ws!NoByteLost
    /\ sys = "wslong" => WsLong!NoByteLost

(***************************************************************************)
(* The counters, maps and caches agree with what they count, and stay      *)
(* below their caps: the object of an HTTP/2 request is in the map while   *)
(* the session or its awaiter may use it and leaves with the later of the  *)
(* two; body bytes and orphans of an HTTP/2 server, slots of the           *)
(* connection limiter, connections in either pool, a message under         *)
(* assembly.                                                               *)
(***************************************************************************)
BooksBalance ==
    /\ sys = "h2two" => TwoRequests!ObjectOutlivesUsers
    /\ sys = "h2timed" => OneTimed!ObjectOutlivesUsers
    /\ sys = "h2server" => Server2!BooksBalance
    /\ sys = "h2bodies" => Bodies2!BooksBalance
    /\ sys = "h2pool" => Pool2!PoolIsSound
    /\ sys = "h1pooled" => Pooled1!PoolIsSound
    /\ sys = "h1hosts" => Hosts1!PoolIsSound
    /\ sys = "h1server" => Server1!SlotsBalance
    /\ sys = "tcpserver" => TcpServer!SlotsBalance
    /\ sys = "ws" => Ws!MessageIsBounded
    /\ sys = "wslong" => WsLong!MessageIsBounded

(***************************************************************************)
(* Whoever waits for the peer is watched by a deadline, and the deadline   *)
(* goes with the wait.                                                     *)
(***************************************************************************)
PeerIsWatched ==
    /\ sys = "h2server" => Server2!ClientIsWatched
    /\ sys = "h2bodies" => Bodies2!ClientIsWatched
    /\ sys \in {"h1server", "tcpserver"} => Server1!SlowClientIsWatched
    /\ sys = "ws" => Ws!WaitIsWatched
    /\ sys = "wslong" => WsLong!WaitIsWatched

(***************************************************************************)
(* Whatever the peer does, what was begun ends: a request with a deadline, *)
(* a connection of a server, a call, an operation on a WebSocket, the      *)
(* accept loop once it is asked to stop.  A client comes to the accept     *)
(* loop once, so that all of them are dismissed when none is served again  *)
(* and again.                                                              *)
(***************************************************************************)
Begun ==
    \/ sys = "h2timed" /\ OneTimed!Waiting
    \/ sys \in {"h2server", "h1pooled", "h1plain", "h1server", "tcpserver", "ws"}
Over ==
    \/ sys = "h2timed" /\ OneTimed!AllReturned
    \/ sys = "h2server" /\ Server2!AllEnded
    \/ sys = "h1pooled" /\ Pooled1!AllDone
    \/ sys = "h1plain" /\ Plain1!AllDone
    \/ sys \in {"h1server", "tcpserver"} /\ Server1!Served = {} /\ (stopping => Server1!LoopOver)
    \/ sys = "ws" /\ Ws!AllOver
ExchangesEnd == Begun ~> Over
=============================================================================
