---------------------------- MODULE Http1Client ----------------------------
(***************************************************************************)
(* HttpClient and HttpConnectionPool (Soccer/includes/HttpClient.h):       *)
(* requests of several coroutines over connections that a pool keeps       *)
(* alive between two exchanges.  A connection carries what the peer has    *)
(* sent and nobody has read; each piece remembers who held the connection  *)
(* when it arrived.  The peer may send any piece at any time and may close *)
(* at any time, so nothing below rests on a well-behaved server.           *)
(*                                                                         *)
(* A piece is a message head (how its body is framed, and whether the      *)
(* connection may carry another exchange) or the body itself.  Content-    *)
(* Length and chunked framing are one case: both say where the message     *)
(* ends.  IoDeadline is modelled by its effect on the connection.          *)
(***************************************************************************)
EXTENDS Naturals, Sequences, FiniteSets, SequencesExt

CONSTANTS Req,          \* calls of get, post, getPooled, postPooled
          Pooled,       \* the ones that go through pooledRequest
          Idempotent,   \* the ones whose method may be repeated
          Conn,         \* descriptors
          Host,         \* host and port pairs
          Nobody,       \* no request, no connection
          MaxIdle,      \* maxIdlePerHost
          MaxHosts,     \* kMaxHosts
          MaxAge,       \* maxIdleAge in ticks, 0: nothing goes stale
          MaxInterim,   \* kHttpMaxInterimResponses
          MaxClock,     \* bound: ticks of the clock
          MaxPieces     \* bound: pieces a peer sends on one connection

VARIABLES pc,       \* where the call is
          host,     \* whom it asks
          conn,     \* its connection
          reused,   \* wasReused
          interim,  \* interim responses skipped so far
          saw,      \* whose tenure the head it accepted arrived in, or Nobody
          stamp,    \* the time release() read before it took the lock
          fired,    \* dl.expired()
          armed,    \* a deadline of the call is pending
          sent,     \* history: for each attempt, whether a status line was read (sawResponse)
          result,   \* how the call ended
          wire,     \* pieces received and not read, per connection
          peer,     \* the peer's end: "open", "closed" or "none"
          shut,     \* our end was shut down by a deadline
          count,    \* pieces the peer has sent
          idle,     \* the pool: a sequence per host, oldest first
          clock

httpVars == <<pc, host, conn, reused, interim, saw, stamp, fired, armed, sent,
              result, wire, peer, shut, count, idle, clock>>
callVars == <<pc, conn, reused, interim, saw, stamp, fired, armed, sent, result>>

(* What a piece turns out to be when it is read: a head, by how its body   *)
(* is framed, or a body.  "none" without keep stands for 101 too: nothing  *)
(* more is read and the stream is never reused.  A body where a head       *)
(* should be is malformed.                                                 *)
Piece == {p \in [kind : {"none", "framed", "toEof", "interim", "body"}, keep : BOOLEAN] :
            p.keep => p.kind \in {"none", "framed"}}

Init ==
  /\ pc = [r \in Req |-> "start"]
  /\ host \in [Req -> Host]
  /\ conn = [r \in Req |-> Nobody]
  /\ reused = [r \in Req |-> FALSE]
  /\ interim = [r \in Req |-> 0]
  /\ saw = [r \in Req |-> Nobody]
  /\ stamp = [r \in Req |-> 0]
  /\ fired = [r \in Req |-> FALSE]
  /\ armed = [r \in Req |-> FALSE]
  /\ sent = [r \in Req |-> <<>>]
  /\ result = [r \in Req |-> "none"]
  /\ wire = [c \in Conn |-> <<>>]
  /\ peer = [c \in Conn |-> "none"]
  /\ shut = [c \in Conn |-> FALSE]
  /\ count = [c \in Conn |-> 0]
  /\ idle = [h \in Host |-> <<>>]
  /\ clock = 0

----------------------------------------------------------------------------
(* The pool *)

Stale(e, now) == MaxAge > 0 /\ now - e.used > MaxAge
IdleConns(pool) == UNION {{pool[h][i].conn : i \in DOMAIN pool[h]} : h \in Host}
Entries(pool) == {h \in Host : pool[h] # <<>>}

(* Destroying the TcpStream closes the descriptor. *)
Dispose(gone) ==
  /\ wire' = [c \in Conn |-> IF c \in gone THEN <<>> ELSE wire[c]]
  /\ peer' = [c \in Conn |-> IF c \in gone THEN "none" ELSE peer[c]]
  /\ shut' = [c \in Conn |-> shut[c] /\ c \notin gone]
  /\ count' = [c \in Conn |-> IF c \in gone THEN 0 ELSE count[c]]

LooksDead(c) == wire[c] # <<>> \/ peer[c] = "closed" \/ shut[c]

(* Acquire takes the newest idle connection; when even that one is too old *)
(* everything in front of it goes as well.                                 *)
Acquire(r) ==
  LET dq == idle[host[r]] IN
  /\ pc[r] = "start" /\ r \in Pooled
  /\ \/ /\ dq = <<>>
        /\ pc' = [pc EXCEPT ![r] = "dial"]
        /\ UNCHANGED <<conn, idle, wire, peer, shut, count>>
     \/ /\ dq # <<>> /\ Stale(Last(dq), clock)
        /\ idle' = [idle EXCEPT ![host[r]] = <<>>]
        /\ Dispose({e.conn : e \in ToSet(dq)})
        /\ pc' = [pc EXCEPT ![r] = "dial"]
        /\ UNCHANGED conn
     \/ /\ dq # <<>> /\ ~Stale(Last(dq), clock)
        /\ idle' = [idle EXCEPT ![host[r]] = Front(dq)]
        /\ conn' = [conn EXCEPT ![r] = Last(dq).conn]
        /\ pc' = [pc EXCEPT ![r] = "peek"]
        /\ UNCHANGED <<wire, peer, shut, count>>
  /\ UNCHANGED <<host, reused, interim, saw, stamp, fired, armed, sent, result, clock>>

(* The deadline is armed and the request begins to go out. *)
PutOnWire(r) ==
  /\ pc' = [pc EXCEPT ![r] = "write"]
  /\ armed' = [armed EXCEPT ![r] = TRUE]
  /\ sent' = [sent EXCEPT ![r] = Append(@, FALSE)]

(* Every method taken for a repeatable one. *)
RepeatAny(r) == r \in Pooled

(* isIdempotentMethod *)
Repeatable(r) == r \in Idempotent

(* acquireLive goes round again when the connection it popped looks dead. *)
Peek(r) ==
  /\ pc[r] = "peek"
  /\ IF LooksDead(conn[r])
     THEN /\ Dispose({conn[r]})
          /\ conn' = [conn EXCEPT ![r] = Nobody]
          /\ pc' = [pc EXCEPT ![r] = "start"]
          /\ UNCHANGED <<reused, armed, sent>>
     ELSE /\ PutOnWire(r)
          /\ reused' = [reused EXCEPT ![r] = TRUE]
          /\ UNCHANGED <<conn, wire, peer, shut, count>>
  /\ UNCHANGED <<host, interim, saw, stamp, fired, result, idle, clock>>

(* What release() keeps of a deque: the entries after the longest stale    *)
(* prefix, judged by the time read before the lock.                        *)
Trimmed(dq, now) ==
  LET young == {i \in DOMAIN dq : ~Stale(dq[i], now)}
      first == IF young = {} THEN Len(dq) + 1
               ELSE CHOOSE i \in young : \A j \in young : i <= j
  IN SubSeq(dq, first, Len(dq))

(* The coroutine ends; its locals go with it. *)
End(r, how) ==
  /\ pc' = [pc EXCEPT ![r] = "done"]
  /\ result' = [result EXCEPT ![r] = how]
  /\ armed' = [armed EXCEPT ![r] = FALSE]
  /\ conn' = [conn EXCEPT ![r] = Nobody]
  /\ reused' = [reused EXCEPT ![r] = FALSE]
  /\ interim' = [interim EXCEPT ![r] = 0]
  /\ saw' = [saw EXCEPT ![r] = Nobody]
  /\ stamp' = [stamp EXCEPT ![r] = 0]
  /\ fired' = [fired EXCEPT ![r] = FALSE]

(* What the call hands back when the head it accepted arrived in the       *)
(* tenure of from.                                                         *)
Outcome(r, from, how) == IF from = r THEN how ELSE "stale"

Release(r) ==
  LET k == host[r]
      now == stamp[r]
      crowded == Cardinality(Entries(idle)) >= MaxHosts /\ idle[k] = <<>>
      purged == IF crowded THEN [h \in Host |-> Trimmed(idle[h], now)] ELSE idle
      refused == crowded /\ Cardinality(Entries(purged)) >= MaxHosts
      kept == Trimmed(purged[k], now)
      full == Len(kept) >= MaxIdle
      pool == IF refused THEN purged
              ELSE [purged EXCEPT ![k] =
                     IF full THEN kept
                     ELSE Append(kept, [conn |-> conn[r], used |-> now])]
  IN
  /\ pc[r] = "release"
  /\ idle' = pool
  /\ Dispose((IdleConns(idle) \cup {conn[r]}) \ IdleConns(pool))
  /\ End(r, result[r])
  /\ UNCHANGED <<host, sent, clock>>

----------------------------------------------------------------------------
(* The call *)

(* The catch block: a deadline that fired ends the call, a reused          *)
(* connection that gave nothing back is replaced by a fresh one if the     *)
(* request may be repeated, anything else is rethrown.                     *)
Fails(r, sawResponse) ==
  /\ Dispose({conn[r]})
  /\ IF ~fired[r] /\ reused[r] /\ Repeatable(r) /\ ~sawResponse
     THEN /\ pc' = [pc EXCEPT ![r] = "dial"]
          /\ conn' = [conn EXCEPT ![r] = Nobody]
          /\ armed' = [armed EXCEPT ![r] = FALSE]
          /\ UNCHANGED <<reused, interim, saw, stamp, fired, result>>
     ELSE End(r, IF fired[r] THEN "timed out" ELSE "failed")

Begin(r) ==
  /\ pc[r] = "start" /\ r \notin Pooled
  /\ pc' = [pc EXCEPT ![r] = "dial"]
  /\ UNCHANGED <<host, conn, reused, interim, saw, stamp, fired, armed, sent,
                 result, wire, peer, shut, count, idle, clock>>

(* tcpConnect either yields an established connection or throws. *)
Dial(r) ==
  /\ pc[r] = "dial"
  /\ \/ \E c \in Conn :
          /\ peer[c] = "none"
          /\ peer' = [peer EXCEPT ![c] = "open"]
          /\ conn' = [conn EXCEPT ![r] = c]
          /\ reused' = [reused EXCEPT ![r] = FALSE]
          /\ PutOnWire(r)
          /\ UNCHANGED <<interim, saw, stamp, fired, result>>
     \/ End(r, "failed") /\ UNCHANGED <<sent, peer>>
  /\ UNCHANGED <<host, wire, shut, count, idle, clock>>

(* The response is complete.  The connection goes back to the pool only    *)
(* at a clean boundary: reusable, and the reader pulled in nothing beyond. *)
Complete(r, how, reusable, rest) ==
  \/ /\ r \in Pooled /\ reusable
     /\ result' = [result EXCEPT ![r] = how]
     /\ armed' = [armed EXCEPT ![r] = FALSE]
     /\ stamp' = [stamp EXCEPT ![r] = clock]
     /\ pc' = [pc EXCEPT ![r] = "release"]
     /\ wire' = [wire EXCEPT ![conn[r]] = rest]
     /\ UNCHANGED <<conn, reused, interim, saw, fired, peer, shut, count>>
  \/ /\ r \notin Pooled \/ ~reusable \/ rest # <<>>
     /\ End(r, how) /\ Dispose({conn[r]})

Moved(r, next, rest) ==
  /\ pc' = [pc EXCEPT ![r] = next]
  /\ wire' = [wire EXCEPT ![conn[r]] = rest]
  /\ UNCHANGED <<conn, reused, stamp, fired, result, peer, shut, count>>

Eof(c) == wire[c] = <<>> /\ (peer[c] = "closed" \/ shut[c])

Answered(r) == sent' = [sent EXCEPT ![r][Len(sent[r])] = TRUE]

(* Any status line makes sawResponse true, the one of an interim response  *)
(* and a malformed one included.                                           *)
ReadHead(r) ==
  LET w == wire[conn[r]] IN
  /\ pc[r] = "head" /\ w # <<>> /\ Answered(r)
  /\ \E p \in Piece :
     LET by == Head(w)
         last == interim[r] + 1 >= MaxInterim
     IN
     \/ /\ p.kind = "interim" /\ ~last
        /\ interim' = [interim EXCEPT ![r] = @ + 1]
        /\ saw' = [saw EXCEPT ![r] = by]
        /\ Moved(r, "head", Tail(w)) /\ UNCHANGED armed
     \/ /\ p.kind \in {"body", "interim"} /\ (p.kind = "interim" => last)
        /\ Fails(r, TRUE)
     \/ /\ p.kind \in {"framed", "toEof"}
        /\ armed' = [armed EXCEPT ![r] = TRUE]
        /\ saw' = [saw EXCEPT ![r] = by]
        /\ Moved(r, IF p.kind = "toEof" THEN "drain"
                    ELSE IF p.keep THEN "body" ELSE "last body", Tail(w))
        /\ UNCHANGED interim
     \/ /\ p.kind = "none"
        /\ Complete(r, Outcome(r, by, "ok"), p.keep, Tail(w))
  /\ UNCHANGED <<host, idle, clock>>

(* The request is out.  The peer's window decides when, so no call is sure *)
(* to get this far.                                                        *)
Written(r) ==
  /\ pc[r] = "write" /\ ~shut[conn[r]]
  /\ pc' = [pc EXCEPT ![r] = "head"]
  /\ UNCHANGED <<host, conn, reused, interim, saw, stamp, fired, armed, sent,
                 result, wire, peer, shut, count, idle, clock>>

(* Writing throws once an end is gone, whatever there still is to read. *)
WriteFails(r) ==
  /\ pc[r] = "write" /\ (peer[conn[r]] = "closed" \/ shut[conn[r]])
  /\ Fails(r, FALSE)
  /\ UNCHANGED <<host, sent, idle, clock>>

(* The connection ended before the status line, or before that of the      *)
(* final response.                                                         *)
HeadCut(r) ==
  /\ pc[r] = "head" /\ Eof(conn[r])
  /\ Fails(r, Last(sent[r]))
  /\ UNCHANGED <<host, sent, idle, clock>>

ReadBody(r) ==
  LET w == wire[conn[r]]
  IN
  /\ pc[r] \in {"body", "last body"}
  /\ \/ w # <<>> /\ Complete(r, Outcome(r, saw[r], "ok"), pc[r] = "body", Tail(w))
     \/ (w # <<>> \/ Eof(conn[r])) /\ Fails(r, TRUE)   \* malformed, truncated
  /\ UNCHANGED <<host, sent, idle, clock>>

(* A body that ends where the connection ends.  Nothing distinguishes the  *)
(* peer's end from the end a deadline makes.                               *)
ReadToEof(r) ==
  LET w == wire[conn[r]]
      how == IF peer[conn[r]] = "closed" THEN "ok" ELSE "cut"
  IN
  /\ pc[r] = "drain"
  /\ \/ w # <<>> /\ Moved(r, "drain", Tail(w)) /\ UNCHANGED <<armed, interim, saw>>
     \/ Eof(conn[r]) /\ Complete(r, Outcome(r, saw[r], how), FALSE, <<>>)
  /\ UNCHANGED <<host, sent, idle, clock>>

(* A deadline that is noticed but does not shut the socket down. *)
ExpireQuietly(r) ==
  /\ armed[r] /\ conn[r] # Nobody
  /\ armed' = [armed EXCEPT ![r] = FALSE]
  /\ fired' = [fired EXCEPT ![r] = TRUE]
  /\ UNCHANGED <<pc, host, conn, reused, interim, saw, stamp, sent, result,
                 wire, peer, shut, count, idle, clock>>

(* The sweeper finds the call's deadline passed and shuts the socket down. *)
Expire(r) ==
  /\ armed[r] /\ conn[r] # Nobody
  /\ armed' = [armed EXCEPT ![r] = FALSE]
  /\ fired' = [fired EXCEPT ![r] = TRUE]
  /\ shut' = [shut EXCEPT ![conn[r]] = TRUE]
  /\ UNCHANGED <<pc, host, conn, reused, interim, saw, stamp, sent, result,
                 wire, peer, count, idle, clock>>

----------------------------------------------------------------------------
(* The peer and the clock *)

Holder(c) == IF \E r \in Req : conn[r] = c
             THEN CHOOSE r \in Req : conn[r] = c ELSE Nobody

PeerSends(c) ==
  /\ peer[c] = "open" /\ ~shut[c] /\ count[c] < MaxPieces
  /\ wire' = [wire EXCEPT ![c] = Append(@, Holder(c))]
  /\ count' = [count EXCEPT ![c] = @ + 1]
  /\ UNCHANGED <<callVars, host, peer, shut, idle, clock>>

PeerCloses(c) ==
  /\ peer[c] = "open"
  /\ peer' = [peer EXCEPT ![c] = "closed"]
  /\ UNCHANGED <<callVars, host, wire, shut, count, idle, clock>>

Tick ==
  /\ clock < MaxClock
  /\ clock' = clock + 1
  /\ UNCHANGED <<callVars, host, wire, peer, shut, count, idle>>

Call(r) == \/ Begin(r) \/ Acquire(r) \/ Peek(r) \/ Dial(r) \/ ReadHead(r)
           \/ WriteFails(r) \/ HeadCut(r) \/ ReadBody(r) \/ ReadToEof(r) \/ Release(r)
Peer(c) == PeerSends(c) \/ PeerCloses(c)
Next == (\E r \in Req : Call(r) \/ Written(r) \/ Expire(r)) \/ (\E c \in Conn : Peer(c)) \/ Tick

(* Calls run on the pool, and the sweeper runs while a deadline is armed.  *)
Spec == /\ Init /\ [][Next]_httpVars
        /\ \A r \in Req : WF_httpVars(Call(r)) /\ WF_httpVars(Expire(r))

----------------------------------------------------------------------------

TypeOK ==
  /\ pc \in [Req -> {"start", "peek", "dial", "write", "head", "body",
                     "last body", "drain", "release", "done"}]
  /\ conn \in [Req -> Conn \cup {Nobody}]
  /\ \A c \in Conn : wire[c] \in Seq(Req \cup {Nobody}) /\ count[c] <= MaxPieces
  /\ peer \in [Conn -> {"none", "open", "closed"}]
  /\ \A r \in Req : sent[r] \in Seq(BOOLEAN)
  /\ result \in [Req -> {"none", "ok", "stale", "cut", "failed", "timed out"}]

(* A connection is in one place: one call holds it, or one entry of the    *)
(* pool does, or its descriptor is closed.  The pool's bounds hold, so     *)
(* neither a busy host nor many hosts make it grow.                        *)
PoolIsSound ==
  /\ \A q, r \in Req : q # r /\ conn[q] # Nobody => conn[q] # conn[r]
  /\ \A r \in Req : conn[r] \notin IdleConns(idle)
  /\ \A h \in Host : Len(idle[h]) <= MaxIdle /\ IsInjective([i \in DOMAIN idle[h] |-> idle[h][i].conn])
  /\ Cardinality(Entries(idle)) <= MaxHosts
  /\ \A c \in Conn : (peer[c] # "none") <=> (Holder(c) # Nobody \/ c \in IdleConns(idle))

(* What a call returns arrived while the call held the connection: never   *)
(* bytes an earlier exchange left behind.                                  *)
NothingStale ==
  \A r \in Req : result[r] # "stale"

(* A request goes out twice only if its method may be repeated and nothing *)
(* of a response had been seen, and never three times.                     *)
RepeatsAreSafe ==
  \A r \in Req : Len(sent[r]) > 1 => /\ Len(sent[r]) = 2 /\ ~sent[r][1]
                                     /\ r \in Idempotent \cap Pooled

(* Every call ends, whatever the peer does. *)
AllDone == \A r \in Req : pc[r] = "done"

(* A response whose body the deadline cut off is an error, not a result. *)
CutIsAnError == \A r \in Req : result[r] # "cut"
=============================================================================
