---------------------------- MODULE Http1Server ----------------------------
(***************************************************************************)
(* tcpServe (Soccer/includes/TcpServer.h), ConnectionLimiter and the       *)
(* connection handler of HttpServer (Soccer/includes/HttpServer.h): one    *)
(* accept loop, a handler coroutine per connection, the descriptors of the *)
(* process they share with everybody else, and a stop request.             *)
(*                                                                         *)
(* A client is silent, has sent something unread, or sends no more (with   *)
(* or without something unread).  What the bytes are is chosen when they   *)
(* are read: a head that parses, one that is refused with a status, one    *)
(* cut short.  A client takes what is written to it when it likes.         *)
(* IoDeadline is modelled by what it does to the connection.               *)
(***************************************************************************)
EXTENDS Naturals, FiniteSets

CONSTANTS Client,     \* the connections clients open
          MaxConns,   \* maxConnections; zero means unlimited
          LoopCap,    \* the cap is tcpServe's own, not HttpServer's
          MaxFds      \* descriptors the process may have open besides the listener

VARIABLES loop,      \* where the accept loop is
          stop,      \* stop_requested()
          knock,     \* the listener's sticky interrupt flag
          spare,     \* SpareFd holds a descriptor
          others,    \* descriptors the rest of the process holds
          count,     \* ConnectionLimiter::count
          pc,        \* where a connection is
          slot,      \* its handler holds a slot
          armed,     \* its deadline is pending
          fired,     \* deadline.expired()
          says       \* the client's side: "silent", "sent", "last" (and no more after it) or "gone"

loopVars == <<loop, stop, knock, spare>>
connVars == <<pc, slot, armed, fired, says>>
serverVars == <<loopVars, others, count, connVars>>

Init ==
  /\ loop = "check" /\ stop = FALSE /\ knock = FALSE
  /\ spare \in BOOLEAN /\ others = 0 /\ count = 0
  /\ pc = [k \in Client |-> "away"]
  /\ slot = [k \in Client |-> FALSE]
  /\ armed = [k \in Client |-> FALSE]
  /\ fired = [k \in Client |-> FALSE]
  /\ says = [k \in Client |-> "silent"]

LoopOver == loop \in {"stopped", "woken", "broken"}
Waiting == {k \in Client : pc[k] = "queued"}
Served == {k \in Client : pc[k] \notin {"away", "queued", "closed"}}
Used == Cardinality(Served) + others + (IF spare THEN 1 ELSE 0)
HasFd == Used < MaxFds

----------------------------------------------------------------------------
(* ConnectionLimiter: one compare-exchange, so a refusal leaves no trace. *)

TryAcquire(k) ==
  IF MaxConns # 0 /\ count >= MaxConns
  THEN UNCHANGED <<count, slot>>
  ELSE count' = count + 1 /\ slot' = [slot EXCEPT ![k] = TRUE]

(* The handler's frame is destroyed: its slot goes back. *)
FreeSlot(k) ==
  /\ count' = IF slot[k] THEN count - 1 ELSE count
  /\ slot' = [slot EXCEPT ![k] = FALSE]

----------------------------------------------------------------------------
(* The accept loop *)

Check ==
  /\ loop = "check"
  /\ loop' = IF stop THEN "stopped" ELSE "accept"
  /\ UNCHANGED <<stop, knock, spare, others, count, connVars>>

(* A connection is accepted and its handler spawned, or dropped at once:   *)
(* tcpServe at its cap, a handler factory that throws.                     *)
Spawn(k) ==
  /\ loop = "accept" /\ ~knock /\ HasFd /\ k \in Waiting
  /\ loop' = "check"
  /\ \/ /\ TryAcquire(k)
        /\ LET over == MaxConns # 0 /\ ~slot'[k] IN
           /\ pc' = [pc EXCEPT ![k] = IF ~over THEN "head"
                                      ELSE IF LoopCap THEN "closed" ELSE "refused"]
           /\ armed' = [armed EXCEPT ![k] = ~over]
     \/ /\ pc' = [pc EXCEPT ![k] = "closed"]
        /\ UNCHANGED <<count, slot, armed>>
  /\ UNCHANGED <<stop, knock, spare, others, fired, says>>

(* An error that is not transient leaves the loop. *)
Rethrow == loop' = (IF stop THEN "stopped" ELSE "broken") /\ UNCHANGED pc

(* accept throws: interrupted, out of descriptors, a passing failure of    *)
(* one connection, or of memory, or a failure of the listener itself.  The *)
(* sleep before the next accept is left to the pace of Loop.               *)
AcceptFails ==
  /\ loop = "accept"
  /\ \/ /\ knock
        /\ loop' = IF stop THEN "stopped" ELSE "woken"
        /\ UNCHANGED pc
     \/ ~knock /\ Rethrow
     \/ /\ ~knock /\ ~HasFd
        /\ loop' = IF stop THEN "stopped" ELSE "shed"
        /\ UNCHANGED pc
     \/ /\ ~knock /\ HasFd
        /\ Waiting # {}
        /\ UNCHANGED pc \/ \E k \in Waiting : pc' = [pc EXCEPT ![k] = "closed"]
        /\ loop' = IF stop THEN "stopped" ELSE "check"
  /\ UNCHANGED <<stop, knock, spare, others, count, slot, armed, fired, says>>

(* The reserve is given up to take one waiting connection and drop it.     *)
ReleaseSpare ==
  /\ loop = "shed"
  /\ spare' = FALSE
  /\ loop' = "drop"
  /\ UNCHANGED <<stop, knock, others, count, connVars>>

TryAccept ==
  /\ loop = "drop"
  /\ \/ /\ HasFd /\ ~knock
        /\ \/ \E k \in Waiting : pc' = [pc EXCEPT ![k] = "closed"]
           \/ Waiting = {} /\ UNCHANGED pc
        /\ loop' = "rearm"
     \/ /\ ~HasFd \/ knock
        /\ loop' = IF stop THEN "stopped" ELSE "rearm"
        /\ UNCHANGED pc
     \/ ~knock /\ Rethrow
  /\ UNCHANGED <<stop, knock, spare, others, count, slot, armed, fired, says>>

(* open("/dev/null") fails, quietly, when somebody took the descriptor. *)
AcquireSpare ==
  /\ loop = "rearm"
  /\ spare' = HasFd
  /\ loop' = "check"
  /\ UNCHANGED <<stop, knock, others, count, connVars>>

Loop == \/ Check \/ (\E k \in Client : Spawn(k)) \/ AcceptFails
        \/ ReleaseSpare \/ TryAccept \/ AcquireSpare

(* request_stop sets the flag; its callback then interrupts the accept. *)
RequestStop ==
  /\ ~stop /\ stop' = TRUE
  /\ UNCHANGED <<loop, knock, spare, others, count, connVars>>

WakeAccept ==
  /\ stop /\ ~knock /\ ~LoopOver
  /\ knock' = TRUE
  /\ UNCHANGED <<loop, stop, spare, others, count, connVars>>

----------------------------------------------------------------------------
(* handleOne *)

Shut(k) == fired[k] \/ says[k] = "gone"
Unread(k) == says[k] \in {"sent", "last"}
Consume(k) == says' = [says EXCEPT ![k] = CASE @ = "sent" -> "silent" [] @ = "last" -> "gone" [] OTHER -> @]
Reading(k) == pc[k] \in {"head", "body"}

To(k, next, deadline) ==
  /\ pc' = [pc EXCEPT ![k] = next]
  /\ armed' = [armed EXCEPT ![k] = deadline]
  /\ IF Reading(k) THEN Consume(k) ELSE UNCHANGED says
  /\ UNCHANGED <<count, slot, fired>>

(* co_return: the deadline is disarmed, then the socket closed. *)
Finish(k) ==
  /\ pc' = [pc EXCEPT ![k] = "closed"]
  /\ armed' = [armed EXCEPT ![k] = FALSE]
  /\ fired' = [fired EXCEPT ![k] = FALSE]
  /\ says' = [says EXCEPT ![k] = "silent"]
  /\ FreeSlot(k)

(* A protocol error is answered unless a deadline has already cut the      *)
(* connection; every other failure just ends the handler.                  *)
Refuse(k) == IF fired[k] THEN Finish(k) ELSE To(k, "refusal", TRUE)

NoSlot(k) ==
  /\ pc[k] = "refused"
  /\ Refuse(k)
  /\ UNCHANGED <<loopVars, others>>

(* A parse that stops the clock before the body is in. *)
ParseHeadUnarmed(k) ==
  /\ pc[k] = "head"
  /\ \/ Unread(k) /\ (To(k, "body", FALSE) \/ To(k, "route", FALSE) \/ Refuse(k))
     \/ ~Unread(k) /\ Shut(k) /\ Finish(k)
  /\ UNCHANGED <<loopVars, others>>

(* parseRequest: the head may need a body (the clock restarts), may be     *)
(* complete without one (the clock stops), may be refused, or more of it   *)
(* may have to come (the clock goes on).                                   *)
ParseHead(k) ==
  /\ pc[k] = "head"
  /\ \/ Unread(k) /\ (To(k, "body", TRUE) \/ To(k, "route", FALSE) \/ Refuse(k) \/ To(k, "head", armed[k]))
     \/ ~Unread(k) /\ Shut(k) /\ Finish(k)
  /\ UNCHANGED <<loopVars, others>>

ReadBody(k) ==
  /\ pc[k] = "body"
  /\ \/ Unread(k) /\ (To(k, "route", FALSE) \/ To(k, "body", armed[k]))
     \/ ~Unread(k) /\ Shut(k) /\ Finish(k)
  /\ UNCHANGED <<loopVars, others>>

(* The route's handler answers, or throws; an unknown route is a 404. *)
Route(k) ==
  /\ pc[k] = "route"
  /\ To(k, "answer", TRUE) \/ Refuse(k)
  /\ UNCHANGED <<loopVars, others>>

(* A response that cannot be put on the wire as it is becomes a 500. *)
WriteResponse(k) ==
  /\ pc[k] = "answer"
  /\ To(k, "write", armed[k]) \/ Refuse(k)
  /\ UNCHANGED <<loopVars, others>>

(* The client has taken all of the response, or of the error status. *)
Taken(k) ==
  /\ ~fired[k]
  /\ \/ pc[k] = "write" /\ Finish(k)
     \/ pc[k] = "refusal" /\ To(k, "drain", TRUE)
  /\ UNCHANGED <<loopVars, others>>

(* A write throws, the interim answer before a body included: the client   *)
(* is gone for good.                                                       *)
WriteReset(k) ==
  /\ pc[k] \in {"body", "write", "refusal"} /\ says[k] \in {"last", "gone"} /\ Finish(k)
  /\ UNCHANGED <<loopVars, others>>

(* A write throws: the deadline has shut the socket down. *)
WriteError(k) ==
  /\ pc[k] \in {"body", "write", "refusal"} /\ fired[k] /\ Finish(k)
  /\ UNCHANGED <<loopVars, others>>

(* Half-closed: read until the client closes or the short deadline does. *)
Drain(k) ==
  /\ pc[k] = "drain"
  /\ \/ Unread(k) /\ Consume(k) /\ UNCHANGED <<pc, armed, fired, count, slot>>
     \/ ~Unread(k) /\ Shut(k) /\ Finish(k)
  /\ UNCHANGED <<loopVars, others>>

Handle(k) == \/ NoSlot(k) \/ ParseHead(k) \/ ReadBody(k) \/ Route(k)
             \/ WriteResponse(k) \/ WriteError(k) \/ Drain(k)

Expire(k) ==
  /\ armed[k]
  /\ armed' = [armed EXCEPT ![k] = FALSE]
  /\ fired' = [fired EXCEPT ![k] = TRUE]
  /\ UNCHANGED <<loopVars, others, count, pc, slot, says>>

----------------------------------------------------------------------------
(* Clients, and the rest of the process *)

Connect(k) ==
  /\ pc[k] = "away" /\ ~LoopOver
  /\ pc' = [pc EXCEPT ![k] = "queued"]
  /\ UNCHANGED <<loopVars, others, count, slot, armed, fired, says>>

Sends(k) ==
  /\ k \in Served /\ says[k] = "silent" /\ ~fired[k]
  /\ says' = [says EXCEPT ![k] = "sent"]
  /\ UNCHANGED <<loopVars, others, count, pc, slot, armed, fired>>

Leaves(k) ==
  /\ k \in Served /\ says[k] \in {"silent", "sent"}
  /\ says' = [says EXCEPT ![k] = IF Unread(k) THEN "last" ELSE "gone"]
  /\ UNCHANGED <<loopVars, others, count, pc, slot, armed, fired>>

Others ==
  /\ \/ HasFd /\ others' = others + 1
     \/ others > 0 /\ others' = others - 1
  /\ UNCHANGED <<loopVars, count, connVars>>

Next == \/ Loop \/ RequestStop \/ WakeAccept \/ Others
        \/ \E k \in Client : \/ Handle(k) \/ Expire(k) \/ Taken(k) \/ WriteReset(k)
                             \/ Connect(k) \/ Sends(k) \/ Leaves(k)

(* The loop, the handlers and the sweeper are coroutines of the pool, and  *)
(* the stop callback runs inside request_stop.                             *)
Spec == /\ Init /\ [][Next]_serverVars
        /\ WF_serverVars(Loop) /\ WF_serverVars(WakeAccept)
        /\ \A k \in Client : WF_serverVars(Handle(k)) /\ WF_serverVars(Expire(k))

----------------------------------------------------------------------------

TypeOK ==
  /\ loop \in {"check", "accept", "shed", "drop", "rearm", "stopped", "woken", "broken"}
  /\ pc \in [Client -> {"away", "queued", "refused", "head", "body", "route", "answer",
                        "write", "refusal", "drain", "closed"}]
  /\ count \in 0 .. Cardinality(Client) /\ others \in 0 .. MaxFds

(* The limiter's count is exactly the connections that hold a slot, never  *)
(* above the cap, and every connection past the refusal holds one.         *)
SlotsBalance ==
  /\ count = Cardinality({k \in Client : slot[k]})
  /\ MaxConns # 0 => count <= MaxConns
  /\ \A k \in Client : pc[k] \in {"head", "body", "route", "answer", "write"} => slot[k]
  /\ \A k \in Client : slot[k] => k \in Served

(* The loop ends because it was asked to or because the listener itself    *)
(* failed: no passing accept failure, and no wakeup that overtakes the     *)
(* stop it is meant for, ends it.                                          *)
OnlyStopEndsLoop ==
  /\ loop = "stopped" => stop
  /\ loop # "woken"

(* While a connection waits on its client, a deadline watches it: a slow   *)
(* client cannot hold a slot or a descriptor for ever.                     *)
SlowClientIsWatched ==
  \A k \in Client : pc[k] \in {"head", "body", "write", "refusal", "drain"} =>
                       armed[k] \/ fired[k]
=============================================================================
