----------------------------- MODULE WebSocket -----------------------------
(***************************************************************************)
(* WsConnection (Soccer/src/WebSocket.cpp): the opening handshake, one     *)
(* receive() at a time, senders, close(), and the destruction of the       *)
(* handle while operations still hold the shared state.                    *)
(*                                                                         *)
(* What the peer sends arrives in halves of frames: the first byte, then   *)
(* the rest.  What a frame is gets chosen when its second half has been    *)
(* read.  A reader of the handshake may pull in halves that follow it.     *)
(* writeMu is the AsyncMutex of AsyncMutex.tla, taken here as the FIFO     *)
(* lock that module is shown to implement.                                 *)
(***************************************************************************)
EXTENDS Naturals, Sequences

CONSTANTS Sender,       \* coroutines that call sendText, sendBinary or sendFrame
          Closer,       \* the one that calls close()
          Receiver,     \* the one that calls receive()
          Nobody,
          MaxMessage,   \* maxMessageBytes; every fragment has one byte
          MaxEmpty,     \* kMaxEmptyFragments
          MaxPings,     \* maxPingsPerSecond
          MaxHalves     \* bound: halves of frames the peer sends

VARIABLES pc,
          open,      \* Impl::open
          broken,    \* Impl::writeBroken
          holder,    \* who holds writeMu
          queue,     \* who waits for it
          torn,      \* the last frame on the wire is incomplete
          task,      \* what receive() is sending
          asm,       \* bytes of the message being assembled, or Nobody
          empties,   \* emptyFragments
          pings,     \* pingsInWindow
          pre,       \* halves in preBuf
          inbox,     \* halves in the socket
          eaten,     \* halves consumed as frames
          sent,      \* halves the peer has sent
          peer,      \* the peer's end: "open" or "gone"
          shut,      \* our end was shut down
          reading,   \* the read deadline: "off", "idle", "frame"
          writing    \* the write deadline is armed

wsVars == <<pc, open, broken, holder, queue, torn, task, asm, empties, pings,
            pre, inbox, eaten, sent, peer, shut, reading, writing>>
lockVars == <<holder, queue>>
bytesVars == <<pre, inbox, eaten, sent>>
recvVars == <<task, asm, empties, pings>>

Actor == Sender \cup {Closer, Receiver}

Init ==
  /\ \E side \in {"serverHead", "request"} :
       pc = [a \in Actor |-> IF a = Receiver THEN side ELSE "start"]
  /\ open = FALSE /\ broken = FALSE /\ holder = Nobody /\ queue = <<>> /\ torn = FALSE
  /\ task = "none" /\ asm = Nobody /\ empties = 0 /\ pings = 0
  /\ pre = 0 /\ inbox = 0 /\ eaten = 0 /\ sent = 0
  /\ peer = "open" /\ shut = FALSE /\ reading = "frame" /\ writing = FALSE

Dead == shut \/ peer = "gone"
Goto(a, l) == pc' = [pc EXCEPT ![a] = l]
Handshake == {"serverHead", "reply", "reject", "request", "clientHead"}
Up == pc[Receiver] \notin Handshake \cup {"failed"}

----------------------------------------------------------------------------
(* The opening handshake, under one deadline.  A server reads the request  *)
(* head and answers 101 or a refusal; a client writes its request and      *)
(* reads the answer.                                                       *)

(* Bytes read past the head are kept for the first frames. *)
ReadUntilHeaderEnd ==
  /\ ~Dead
  /\ \E n \in 0 .. inbox : pre' = n /\ inbox' = inbox - n

(* What the checks of a head decide: the request line, the headers, the    *)
(* origin and the application's hook.                                      *)
Verdict == {"reply", "reject"}

ServerHead ==
  /\ pc[Receiver] = "serverHead" /\ ReadUntilHeaderEnd
  /\ \E v \in Verdict : Goto(Receiver, v)
  /\ UNCHANGED <<open, broken, lockVars, torn, recvVars, eaten, sent, peer, shut, reading, writing>>

(* The write is out and the deadline disarmed, which may already have      *)
(* fired behind it.                                                        *)
Reply ==
  /\ pc[Receiver] \in Verdict /\ reading' = "off"
  /\ IF pc[Receiver] = "reply" THEN open' = TRUE /\ Goto(Receiver, "ready")
                               ELSE UNCHANGED open /\ Goto(Receiver, "failed")
  /\ UNCHANGED <<broken, lockVars, torn, recvVars, bytesVars, peer, shut, writing>>

Request ==
  /\ pc[Receiver] = "request" /\ ~Dead /\ Goto(Receiver, "clientHead")
  /\ UNCHANGED <<open, broken, lockVars, torn, recvVars, bytesVars, peer, shut, reading, writing>>

ClientHead ==
  /\ pc[Receiver] = "clientHead" /\ ReadUntilHeaderEnd /\ reading' = "off"
  /\ \/ open' = TRUE /\ Goto(Receiver, "ready")
     \/ UNCHANGED open /\ Goto(Receiver, "failed")     \* not the answer to this request
  /\ UNCHANGED <<broken, lockVars, torn, recvVars, eaten, sent, peer, shut, writing>>

HandshakeCut ==
  /\ pc[Receiver] \in Handshake
  /\ Dead \/ pc[Receiver] \in {"serverHead", "clientHead"}      \* or the head is too long
  /\ reading' = "off" /\ Goto(Receiver, "failed")
  /\ UNCHANGED <<open, broken, lockVars, torn, recvVars, bytesVars, peer, shut, writing>>

----------------------------------------------------------------------------
(* Sending *)

(* sendDataImpl, closeImpl: the look at open comes before the lock. *)
Send(s) ==
  /\ Up /\ pc[s] = "start"
  /\ Goto(s, IF open THEN "lock" ELSE "done")
  /\ UNCHANGED <<open, broken, lockVars, torn, recvVars, bytesVars, peer, shut, reading, writing>>

Close ==
  /\ Up /\ pc[Closer] = "start"
  /\ Goto(Closer, IF open THEN "lock" ELSE "done")
  /\ open' = FALSE
  /\ UNCHANGED <<broken, lockVars, torn, recvVars, bytesVars, peer, shut, reading, writing>>

Lock(a) ==
  /\ pc[a] = "lock"
  /\ IF holder = Nobody
     THEN holder' = a /\ Goto(a, "locked") /\ UNCHANGED queue
     ELSE queue' = Append(queue, a) /\ Goto(a, "queued") /\ UNCHANGED holder
  /\ UNCHANGED <<open, broken, torn, recvVars, bytesVars, peer, shut, reading, writing>>

(* A hand-over that leaves the new owner in the queue. *)
UnlockKeeps(a, l) ==
  IF queue = <<>>
  THEN holder' = Nobody /\ UNCHANGED queue /\ Goto(a, l)
  ELSE /\ holder' = Head(queue) /\ UNCHANGED queue
       /\ pc' = [pc EXCEPT ![a] = l, ![Head(queue)] = "locked"]

(* The guard's destructor hands the lock to the first waiter, and the      *)
(* owner goes on at l.                                                     *)
Unlock(a, l) ==
  IF queue = <<>>
  THEN holder' = Nobody /\ UNCHANGED queue /\ Goto(a, l)
  ELSE /\ holder' = Head(queue) /\ queue' = Tail(queue)
       /\ pc' = [pc EXCEPT ![a] = l, ![Head(queue)] = "locked"]

(* Where an operation continues when its frame is out, and when it threw:  *)
(* receive() goes back to reading after a Pong, drains after the Close of  *)
(* failConnection, and ends otherwise.                                     *)
AfterSent(a) ==
  IF a # Receiver THEN "done"
  ELSE IF task = "pong" THEN "next" ELSE IF task = "fail" THEN "drain" ELSE "ended"
AfterThrow(a) == IF a = Receiver THEN "ended" ELSE "done"

(* sendLocked: nothing follows a frame that may be incomplete.  Arming the *)
(* deadline may throw, with nothing begun, and writeFrame may find no      *)
(* memory for the frame, which breaks the connection with nothing written. *)
BeginWrite(a) ==
  /\ pc[a] = "locked"
  /\ \/ Unlock(a, AfterThrow(a)) /\ UNCHANGED <<open, broken, writing, torn>>
     \/ /\ ~broken /\ broken' = TRUE /\ open' = FALSE /\ Unlock(a, AfterThrow(a))
        /\ UNCHANGED <<writing, torn>>
     \/ /\ ~broken /\ Goto(a, "writing") /\ writing' = TRUE /\ torn' = TRUE
        /\ UNCHANGED <<open, broken, lockVars>>
  /\ UNCHANGED <<recvVars, bytesVars, peer, shut, reading>>

Wrote(a) ==
  /\ pc[a] = "writing" /\ ~Dead
  /\ torn' = FALSE /\ writing' = FALSE /\ Unlock(a, AfterSent(a))
  /\ UNCHANGED <<open, broken, recvVars, bytesVars, peer, shut, reading>>

WriteFails(a) ==
  /\ pc[a] = "writing" /\ Dead
  /\ broken' = TRUE /\ open' = FALSE /\ writing' = FALSE /\ Unlock(a, AfterThrow(a))
  /\ UNCHANGED <<torn, recvVars, bytesVars, peer, shut, reading>>

WriteExpires ==
  /\ writing
  /\ writing' = FALSE /\ shut' = TRUE
  /\ UNCHANGED <<pc, open, broken, lockVars, torn, recvVars, bytesVars, peer, reading>>

----------------------------------------------------------------------------
(* receive() *)

(* One half of a frame: preBuf first, then the socket. *)
CanRead == pre > 0 \/ inbox > 0
ReadHalf ==
  /\ CanRead
  /\ IF pre > 0 THEN pre' = pre - 1 /\ UNCHANGED inbox
                ELSE inbox' = inbox - 1 /\ UNCHANGED pre
  /\ eaten' = eaten + 1
  /\ UNCHANGED sent

Receive ==
  /\ pc[Receiver] = "ready"
  /\ IF open THEN Goto(Receiver, "next") ELSE Goto(Receiver, "ended")
  /\ asm' = Nobody /\ empties' = 0 /\ task' = "none"
  /\ UNCHANGED <<open, broken, lockVars, torn, pings, bytesVars, peer, shut, reading, writing>>

(* readFrame arms a deadline for the first byte: a peer in the middle of a *)
(* message owes the next fragment, otherwise the connection is idle.       *)
NextFrame ==
  /\ pc[Receiver] = "next"
  /\ reading' = IF asm # Nobody THEN "frame" ELSE "idle"
  /\ Goto(Receiver, "first")
  /\ UNCHANGED <<open, broken, lockVars, torn, recvVars, bytesVars, peer, shut, writing>>

FirstByte ==
  /\ pc[Receiver] = "first" /\ ReadHalf
  /\ reading' = "frame" /\ Goto(Receiver, "rest")
  /\ UNCHANGED <<open, broken, lockVars, torn, recvVars, peer, shut, writing>>

(* The stream ended inside, or instead of, a frame. *)
ReadFails ==
  /\ pc[Receiver] \in {"first", "rest"} /\ ~CanRead /\ Dead
  /\ open' = FALSE /\ reading' = "off" /\ Goto(Receiver, "ended")
  /\ UNCHANGED <<broken, lockVars, torn, recvVars, bytesVars, peer, shut, writing>>

(* failConnection, and the echo of a Close: only who finds the connection  *)
(* open sends a Close frame.                                               *)
SendsClose(t) ==
  /\ open' = FALSE
  /\ IF open THEN task' = t /\ Goto(Receiver, "lock")
             ELSE UNCHANGED task /\ Goto(Receiver, "ended")
  /\ UNCHANGED <<asm, empties, pings>>

Violation == SendsClose("fail")

Delivered == Goto(Receiver, "ready") /\ asm' = Nobody /\ UNCHANGED <<empties, pings, open, task>>

DataFrame ==
  IF asm # Nobody \/ MaxMessage < 1 THEN Violation
  ELSE \/ Delivered
       \/ asm' = 1 /\ Goto(Receiver, "next") /\ UNCHANGED <<empties, pings, open, task>>

(* len is the payload of the fragment, fin its last-fragment bit. *)
Continuation(len, fin) ==
  LET run == IF len = 0 /\ ~fin THEN empties + 1 ELSE 0 IN
  IF asm = Nobody \/ asm + len > MaxMessage \/ run > MaxEmpty THEN Violation
  ELSE IF fin THEN Delivered
  ELSE /\ asm' = asm + len /\ empties' = run /\ Goto(Receiver, "next")
       /\ UNCHANGED <<pings, open, task>>

(* Past the budget of its second a Ping goes unanswered. *)
Ping ==
  /\ pings' = IF pings > MaxPings THEN pings ELSE pings + 1
  /\ IF pings' > MaxPings THEN UNCHANGED task /\ Goto(Receiver, "next")
                          ELSE task' = "pong" /\ Goto(Receiver, "lock")
  /\ UNCHANGED <<asm, empties, open>>

Pong == Goto(Receiver, "next") /\ UNCHANGED <<recvVars, open>>

RestOfFrame ==
  /\ pc[Receiver] = "rest" /\ ReadHalf
  /\ reading' = "off"
  /\ \/ DataFrame
     \/ \E len \in 0 .. 1, fin \in BOOLEAN : Continuation(len, fin)
     \/ Ping
     \/ Pong
     \/ SendsClose("echo")      \* a valid Close
     \/ Violation               \* a malformed frame
  /\ UNCHANGED <<broken, lockVars, torn, peer, shut, writing>>

(* The Close of failConnection is out: half-close, and let the peer's      *)
(* bytes drain for a moment.  A sender behind it would now fail for sure;  *)
(* the model lets it succeed too.                                          *)
Drain ==
  /\ pc[Receiver] = "drain"
  /\ Goto(Receiver, "ended")
  /\ UNCHANGED <<open, broken, lockVars, torn, recvVars, bytesVars, peer, shut, reading, writing>>

ReadExpires ==
  /\ reading # "off"
  /\ reading' = "off" /\ shut' = TRUE
  /\ UNCHANGED <<pc, open, broken, lockVars, torn, recvVars, bytesVars, peer, writing>>

----------------------------------------------------------------------------
(* The handle and the peer *)

(* ~WsConnection: operations in flight keep the state, so the socket is    *)
(* shut down to wake them.                                                 *)
Destroy ==
  /\ Up /\ (open \/ ~shut)
  /\ open' = FALSE /\ shut' = TRUE
  /\ UNCHANGED <<pc, broken, lockVars, torn, recvVars, bytesVars, peer, reading, writing>>

Window ==
  /\ pings > 0 /\ pings' = 0
  /\ UNCHANGED <<pc, open, broken, lockVars, torn, task, asm, empties, bytesVars, peer,
                 shut, reading, writing>>

PeerSends ==
  /\ peer = "open" /\ ~shut /\ sent < MaxHalves
  /\ sent' = sent + 1 /\ inbox' = inbox + 1
  /\ UNCHANGED <<pc, open, broken, lockVars, torn, recvVars, pre, eaten, peer, shut, reading, writing>>

PeerGoes ==
  /\ peer = "open" /\ peer' = "gone"
  /\ UNCHANGED <<pc, open, broken, lockVars, torn, recvVars, bytesVars, shut, reading, writing>>

Operation(a) ==
  \/ a \in Sender /\ Send(a)
  \/ a = Closer /\ Close
  \/ Lock(a) \/ BeginWrite(a) \/ WriteFails(a)
  \/ /\ a = Receiver
     /\ \/ Receive \/ NextFrame \/ FirstByte \/ RestOfFrame \/ ReadFails \/ Drain
        \/ HandshakeCut /\ Dead

Next ==
  \/ \E a \in Actor : Operation(a) \/ Wrote(a)
  \/ ServerHead \/ Reply \/ Request \/ ClientHead \/ HandshakeCut
  \/ ReadExpires \/ WriteExpires
  \/ Destroy \/ Window \/ PeerSends \/ PeerGoes

(* Coroutines run, deadlines pass; a peer need not read or send anything.  *)
Spec ==
  /\ Init /\ [][Next]_wsVars
  /\ \A a \in Actor : WF_wsVars(Operation(a))
  /\ WF_wsVars(ReadExpires) /\ WF_wsVars(WriteExpires)

----------------------------------------------------------------------------

TypeOK ==
  /\ pc \in [Actor -> Handshake \cup {"start", "failed", "ready", "next", "first", "rest",
                       "lock", "queued", "locked", "writing", "drain", "ended", "done"}]
  /\ {open, broken, torn, shut, writing} \subseteq BOOLEAN
  /\ holder \in Actor \cup {Nobody} /\ queue \in Seq(Actor)
  /\ \A i \in DOMAIN queue : pc[queue[i]] = "queued"
  /\ pings \in 0 .. MaxPings + 1 /\ sent \in 0 .. MaxHalves

(* No frame is put on the wire behind one that may be incomplete: whoever  *)
(* is about to write finds the last frame whole or the connection broken,  *)
(* and only the lock's holder writes.                                      *)
NothingAfterTorn ==
  /\ \A a \in Actor : pc[a] \in {"locked", "writing"} => holder = a
  /\ torn => broken \/ \E a \in Actor : pc[a] = "writing"

(* No half of a frame is lost between the handshake and the frames, and    *)
(* none is read twice.                                                     *)
NoByteLost == eaten + pre + inbox = sent

(* A message under assembly never exceeds the cap. *)
MessageIsBounded == asm # Nobody => asm <= MaxMessage /\ empties <= MaxEmpty

(* Whoever waits for the peer has a deadline that will end the wait. *)
WaitIsWatched ==
  /\ pc[Receiver] \in Handshake \cup {"first", "rest"} => reading # "off" \/ shut
  /\ (\E a \in Actor : pc[a] = "writing") => writing \/ shut

(* Every operation ends: a connection whose peer stopped reading, stopped  *)
(* sending, or whose handle is gone holds nobody for ever.                 *)
AllOver ==
  \/ pc[Receiver] = "failed"
  \/ pc[Receiver] = "ended" /\ \A a \in Actor \ {Receiver} : pc[a] = "done"
=============================================================================
