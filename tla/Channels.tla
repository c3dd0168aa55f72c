------------------------------ MODULE Channels ------------------------------
(***************************************************************************)
(* The receiving side that Channel and BoundedChannel share                *)
(* (Wire/includes/Channel.h, Wire/includes/BoundedChannel.h): a buffer, a  *)
(* queue of parked receivers, and the hand-over of a value into the slot   *)
(* of the oldest one under the channel's mutex.  Parking and cancelling    *)
(* follow ParkBase; `waiters' is the queue of receivers.                   *)
(*                                                                         *)
(* A receiver that is `granted' was popped, with a value in its slot or,   *)
(* by close(), without one.  One whose frame is destroyed before it runs   *)
(* is `revoking' until its value has been put back.                        *)
(*                                                                         *)
(* Values are numbers, given out in the order in which the channel takes   *)
(* them in (or queues their sender); at most MaxValues of them.            *)
(***************************************************************************)
EXTENDS ParkBase
CONSTANTS
    Receiver,       \* the tasks that receive
    MaxValues       \* bound on the values sent

VARIABLES
    buffer,         \* Core::buffer
    closed,         \* Core::closed_
    slot,           \* Waiter::slot, 0 when empty
    count,          \* history: the number of values given out
    returned,       \* history: the values that receive() returned
    back            \* history: the values put back at the head

chanVars == <<buffer, closed, slot, count, returned, back>>

ChannelInit ==
    /\ ParkInit
    /\ buffer = <<>> /\ closed = FALSE
    /\ slot = [r \in Receiver |-> 0]
    /\ count = 0 /\ returned = {} /\ back = {}

\* The oldest parked receiver gets v; the phases are p and the slots s otherwise.
HandOver(v, p, s) ==
    /\ waiters' = Tail(waiters)
    /\ slot' = [s EXCEPT ![Head(waiters)] = v]
    /\ phase' = [p EXCEPT ![Head(waiters)] = "granted"]

\* pushFrontCore: v to the oldest receiver, else to the head of the buffer.
PushFrontCore(v, p, s) ==
    /\ back' = back \cup {v}
    /\ IF ~closed /\ waiters # <<>>
       THEN HandOver(v, p, s) /\ UNCHANGED buffer
       ELSE buffer' = <<v>> \o buffer /\ phase' = p /\ slot' = s /\ UNCHANGED waiters

\* pushFront of a value that receive() returned: the caller cannot use it.
PushFront ==
    \E v \in returned \ back :
        /\ PushFrontCore(v, phase, slot)
        /\ returned' = returned \ {v}
        /\ UNCHANGED <<stop, closed, count>>

\* The pool resumes a popped receiver.
WakeReceiver(r) ==
    /\ phase[r] = "granted"
    /\ Ends(r)
    /\ returned' = returned \cup ({slot[r]} \ {0})
    /\ slot' = [slot EXCEPT ![r] = 0]
    /\ UNCHANGED <<waiters, buffer, closed, count, back>>

\* cancelThunk of a parked receiver.
CancelReceiver(r) ==
    /\ phase[r] = "queued" /\ stop[r]
    /\ Unlink(r)
    /\ Go(r, "withdrawn")
    /\ UNCHANGED <<stop, chanVars>>

\* ~ReceiveAwaiter of a parked receiver.
DestroyQueued(r) ==
    /\ phase[r] = "queued"
    /\ Unlink(r)
    /\ Ends(r)
    /\ UNCHANGED chanVars

\* ~ReceiveAwaiter of a popped one: the wake is swallowed, and a value is kept
\* back to be put back, outside the lock.
DestroyGranted(r) ==
    /\ phase[r] = "granted"
    /\ IF slot[r] = 0 THEN Ends(r) ELSE Go(r, "revoking") /\ UNCHANGED stop
    /\ UNCHANGED <<waiters, chanVars>>

\* The rest of ~ReceiveAwaiter.
PutBack(r) ==
    /\ phase[r] = "revoking"
    /\ PushFrontCore(slot[r], [phase EXCEPT ![r] = "idle"], [slot EXCEPT ![r] = 0])
    /\ stop' = [stop EXCEPT ![r] = FALSE]
    /\ UNCHANGED <<closed, count, returned>>

\* Steps of the shared protocol that leave the channel alone.
Protocol(t) ==
    /\ \/ Arm(t) \/ RequestStop(t) \/ CancelNote(t) \/ ParkCancelled(t) \/ WakeCancelled(t)
    /\ UNCHANGED chanVars


\* In how many places of the receiving side v is, `line' being what is to be received.
Places(v, line) ==
    Cardinality({i \in DOMAIN line : line[i] = v}) + Cardinality({r \in Receiver : slot[r] = v})
    + (IF v \in returned THEN 1 ELSE 0)

\* Values that were not put back are in the order in which they came.
InOrder(line) == \A i, j \in DOMAIN line : i < j /\ {line[i], line[j]} \cap back = {} => line[i] < line[j]

SlotsOK ==
    /\ \A r \in Receiver : slot[r] \in 0..count /\ (slot[r] # 0 => phase[r] \in {"granted", "revoking"})
    /\ \A i \in DOMAIN buffer : buffer[i] \in 1..count
    /\ returned \subseteq 1..count /\ back \subseteq 1..count
-----------------------------------------------------------------------------
(***************************************************************************)
(* Channel (Wire/includes/Channel.h): senders never wait; a send finds a   *)
(* parked receiver, buffers, or is refused at the soft cap MaxBuffered     *)
(* (0: none).  receiveFor is receive in a scope that a deadline stops.     *)
(***************************************************************************)
CONSTANT MaxBuffered

plainVars == <<parkVars, chanVars>>

PlainInit == ChannelInit

\* A send that buffers at the wrong end.
PlainSendFront ==
    /\ ~closed /\ count < MaxValues /\ count' = count + 1
    /\ waiters = <<>> /\ (MaxBuffered = 0 \/ Len(buffer) < MaxBuffered)
    /\ buffer' = <<count + 1>> \o buffer
    /\ UNCHANGED <<parkVars, closed, slot, returned, back>>

\* send() that accepts its value; a refused one changes nothing.
PlainSend ==
    /\ ~closed /\ count < MaxValues /\ count' = count + 1
    /\ \/ waiters # <<>> /\ HandOver(count + 1, phase, slot) /\ UNCHANGED buffer
       \/ /\ waiters = <<>> /\ (MaxBuffered = 0 \/ Len(buffer) < MaxBuffered)
          /\ buffer' = Append(buffer, count + 1)
          /\ UNCHANGED <<phase, waiters, slot>>
    /\ UNCHANGED <<stop, closed, returned, back>>

PlainTake(r) ==
    /\ buffer # <<>> /\ buffer' = Tail(buffer)
    /\ returned' = returned \cup {Head(buffer)}
    /\ Ends(r)
    /\ UNCHANGED <<waiters, closed, slot, count, back>>

\* receive(): the fast path and the first pass of await_suspend
PlainReceive(r) ==
    /\ phase[r] = "idle"
    /\ \/ PlainTake(r)
       \/ buffer = <<>> /\ (closed \/ stop[r]) /\ Ends(r) /\ UNCHANGED <<waiters, chanVars>>
       \/ buffer = <<>> /\ ~closed /\ ~stop[r] /\ Go(r, "arming") /\ UNCHANGED <<waiters, stop, chanVars>>

\* The second pass
PlainParkReceiver(r) ==
    /\ phase[r] = "armed"
    /\ \/ PlainTake(r)
       \/ buffer = <<>> /\ closed /\ Ends(r) /\ UNCHANGED <<waiters, chanVars>>
       \/ /\ buffer = <<>> /\ ~closed
          /\ Go(r, "queued") /\ waiters' = Append(waiters, r)
          /\ UNCHANGED <<stop, chanVars>>

\* close(): every parked receiver is woken without a value.
PlainClose ==
    /\ ~closed /\ closed' = TRUE
    /\ waiters' = <<>>
    /\ phase' = [t \in Task |-> IF phase[t] = "queued" THEN "granted" ELSE phase[t]]
    /\ UNCHANGED <<stop, buffer, slot, count, returned, back>>

PlainNext ==
    \/ PlainSend \/ PushFront \/ PlainClose
    \/ \E r \in Receiver :
        \/ PlainReceive(r) \/ PlainParkReceiver(r) \/ Protocol(r)
        \/ WakeReceiver(r) \/ CancelReceiver(r) \/ DestroyQueued(r) \/ DestroyGranted(r) \/ PutBack(r)

PlainSpec == PlainInit /\ [][PlainNext]_plainVars

\* The state is well typed and the queue holds exactly the parked receivers.
PlainTypeOK == ParkTypeOK /\ QueueOK /\ SlotsOK

\* Every accepted value is in exactly one place: buffered, on its way to one
\* receiver, or returned.  So a cancelled, timed out or destroyed receive loses
\* and duplicates nothing ("returned (or put back), never dropped").
PlainValuesConserved == \A v \in 1..count : Places(v, buffer) = 1

\* No receiver stays parked beside a value, nor on a closed channel.
PlainNobodyParkedIdly == waiters # <<>> => buffer = <<>> /\ ~closed

\* Values are received in the order sent; only a value put back jumps the line.
PlainFifoLine == InOrder(buffer)
-----------------------------------------------------------------------------
(***************************************************************************)
(* BoundedChannel (Wire/includes/BoundedChannel.h): at most Cap values are *)
(* buffered, further senders park; Cap = 0 is a rendezvous.  sendFor and   *)
(* receiveFor are send and receive in a scope that a deadline stops.       *)
(***************************************************************************)
CONSTANTS Sender, Cap

VARIABLES
    senders,        \* Core::senders
    value,          \* SendWaiter::value of a parked sender
    ok,             \* SendWaiter::ok
    refused         \* history: the values whose sender was told no

sendVars == <<senders, value, ok, refused>>
vars == <<parkVars, chanVars, sendVars>>

Init ==
    /\ ChannelInit
    /\ senders = <<>> /\ refused = {}
    /\ value = [s \in Sender |-> 0] /\ ok = [s \in Sender |-> FALSE]

\* Room in the buffer: pull one parked sender's value into it.
Pull(rest, p) ==
    IF Len(rest) < Cap /\ senders # <<>>
    THEN LET s == Head(senders) IN
         /\ buffer' = Append(rest, value[s])
         /\ senders' = Tail(senders)
         /\ ok' = [ok EXCEPT ![s] = TRUE]
         /\ phase' = [p EXCEPT ![s] = "granted"]
    ELSE buffer' = rest /\ phase' = p /\ UNCHANGED <<senders, ok>>

\* A receiver takes the head of the buffer, else of the parked senders.
Take(r) ==
    /\ \/ /\ buffer # <<>>
          /\ returned' = returned \cup {Head(buffer)}
          /\ Pull(Tail(buffer), [phase EXCEPT ![r] = "idle"])
       \/ /\ buffer = <<>> /\ senders # <<>>
          /\ LET s == Head(senders) IN
             /\ returned' = returned \cup {value[s]}
             /\ senders' = Tail(senders)
             /\ ok' = [ok EXCEPT ![s] = TRUE]
             /\ phase' = [phase EXCEPT ![r] = "idle", ![s] = "granted"]
          /\ UNCHANGED buffer
    /\ stop' = [stop EXCEPT ![r] = FALSE]
    /\ UNCHANGED <<waiters, closed, slot, count, back, value, refused>>

Nothing == buffer = <<>> /\ senders = <<>>

\* receive(): the fast path and the first pass of await_suspend
Receive(r) ==
    /\ phase[r] = "idle"
    /\ \/ Take(r)
       \/ Nothing /\ (closed \/ stop[r]) /\ Ends(r) /\ UNCHANGED <<waiters, chanVars, sendVars>>
       \/ Nothing /\ ~closed /\ ~stop[r] /\ Go(r, "arming") /\ UNCHANGED <<waiters, stop, chanVars, sendVars>>

\* A second pass that parks without looking at the channel again.
ParkReceiverBlind(r) ==
    /\ phase[r] = "armed" /\ ~closed
    /\ Go(r, "queued") /\ waiters' = Append(waiters, r)
    /\ UNCHANGED <<stop, chanVars, sendVars>>

\* The second pass
ParkReceiver(r) ==
    /\ phase[r] = "armed"
    /\ \/ Take(r)
       \/ Nothing /\ closed /\ Ends(r) /\ UNCHANGED <<waiters, chanVars, sendVars>>
       \/ /\ Nothing /\ ~closed
          /\ Go(r, "queued") /\ waiters' = Append(waiters, r)
          /\ UNCHANGED <<stop, chanVars, sendVars>>

\* A sender's value goes to the oldest parked receiver or into the buffer.
Room == waiters # <<>> \/ Len(buffer) < Cap
Deliver(s) ==
    /\ count < MaxValues /\ count' = count + 1
    /\ LET p == [phase EXCEPT ![s] = "idle"] IN
       \/ waiters # <<>> /\ HandOver(count + 1, p, slot) /\ UNCHANGED buffer
       \/ /\ waiters = <<>> /\ Len(buffer) < Cap
          /\ buffer' = Append(buffer, count + 1) /\ phase' = p
          /\ UNCHANGED <<waiters, slot>>
    /\ stop' = [stop EXCEPT ![s] = FALSE]
    /\ UNCHANGED <<closed, returned, back, sendVars>>

\* send(): the fast path and the first pass of await_suspend
Send(s) ==
    /\ phase[s] = "idle"
    /\ \/ closed /\ Ends(s) /\ UNCHANGED <<waiters, chanVars, sendVars>>
       \/ ~closed /\ Deliver(s)
       \/ ~closed /\ ~Room /\ stop[s] /\ Ends(s) /\ UNCHANGED <<waiters, chanVars, sendVars>>
       \/ ~closed /\ ~Room /\ ~stop[s] /\ Go(s, "arming") /\ UNCHANGED <<waiters, stop, chanVars, sendVars>>

\* The second pass
ParkSender(s) ==
    /\ phase[s] = "armed"
    /\ \/ closed /\ Ends(s) /\ UNCHANGED <<waiters, chanVars, sendVars>>
       \/ ~closed /\ Deliver(s)
       \/ /\ ~closed /\ ~Room /\ count < MaxValues
          /\ Go(s, "queued") /\ senders' = Append(senders, s)
          /\ count' = count + 1
          /\ value' = [value EXCEPT ![s] = count + 1]
          /\ ok' = [ok EXCEPT ![s] = FALSE]
          /\ UNCHANGED <<waiters, stop, buffer, closed, slot, returned, back, refused>>

\* The pool resumes a popped sender, which returns ok; or its frame is gone.
WakeSender(s) ==
    /\ phase[s] = "granted"
    /\ Ends(s)
    /\ refused' = IF ok[s] THEN refused ELSE refused \cup {value[s]}
    /\ value' = [value EXCEPT ![s] = 0]
    /\ UNCHANGED <<waiters, chanVars, senders, ok>>

UnlinkSender(s) == \E i \in DOMAIN senders : senders[i] = s /\ senders' = RemoveAt(senders, i)

\* cancelThunk of a parked sender: its value is dropped.
CancelSender(s) ==
    /\ phase[s] = "queued" /\ stop[s]
    /\ UnlinkSender(s)
    /\ Go(s, "withdrawn")
    /\ refused' = refused \cup {value[s]}
    /\ value' = [value EXCEPT ![s] = 0]
    /\ UNCHANGED <<waiters, stop, chanVars, ok>>

\* ParkedWait::abandon of a parked sender.
DestroySender(s) ==
    /\ phase[s] = "queued"
    /\ UnlinkSender(s)
    /\ Ends(s)
    /\ refused' = refused \cup {value[s]}
    /\ value' = [value EXCEPT ![s] = 0]
    /\ UNCHANGED <<waiters, chanVars, ok>>

Queued == {t \in Receiver \cup Sender : phase[t] = "queued"}

\* close(): every parked call is woken, the receivers with no value.
Close ==
    /\ ~closed /\ closed' = TRUE
    /\ waiters' = <<>> /\ senders' = <<>>
    /\ phase' = [t \in Task |-> IF t \in Queued THEN "granted" ELSE phase[t]]
    /\ UNCHANGED <<stop, buffer, slot, count, returned, back, value, ok, refused>>

ReceiverStep(r) ==
    \/ Receive(r) \/ ParkReceiver(r)
    \/ (WakeReceiver(r) \/ CancelReceiver(r) \/ DestroyQueued(r) \/ DestroyGranted(r) \/ PutBack(r)) /\ UNCHANGED sendVars
SenderStep(s) == Send(s) \/ ParkSender(s) \/ WakeSender(s) \/ CancelSender(s) \/ DestroySender(s)

Next ==
    \/ \E r \in Receiver : ReceiverStep(r)
    \/ \E s \in Sender : SenderStep(s)
    \/ \E t \in Task : Protocol(t) /\ UNCHANGED sendVars
    \/ PushFront /\ UNCHANGED sendVars
    \/ Close

Spec == Init /\ [][Next]_vars

\* The parked senders' values behind the buffered ones: what is to be received.
Line == buffer \o [i \in DOMAIN senders |-> value[senders[i]]]

\* The state is well typed; the queues hold exactly the parked tasks; the buffer
\* holds at most Cap values besides those that pushFront put back.
TypeOK ==
    /\ ParkTypeOK /\ SlotsOK
    /\ \A i \in DOMAIN waiters : waiters[i] \in Receiver
    /\ Queued = {waiters[i] : i \in DOMAIN waiters} \cup {senders[i] : i \in DOMAIN senders}
    /\ Cardinality({i \in DOMAIN buffer : buffer[i] \notin back}) <= Cap

\* Every value the channel was given is in exactly one place: in line, on its way
\* to one receiver, returned, or refused to its sender (send() returned false or
\* threw, or is about to).  So a refused, cancelled or timed out send never
\* delivers, and a destroyed or cancelled receive loses and duplicates nothing.
ValuesConserved ==
    \A v \in 1..count :
        Places(v, Line) + (IF v \in refused THEN 1 ELSE 0)
        + Cardinality({s \in Sender : value[s] = v /\ phase[s] = "granted" /\ ~ok[s]}) = 1

\* Nobody stays parked beside what it waits for, and a closed channel parks nobody.
NobodyParkedIdly ==
    /\ waiters # <<>> => Nothing /\ ~closed
    /\ senders # <<>> => Len(buffer) >= Cap /\ ~closed

\* "Strict FIFO ordering on both sides": values are received in the order in which
\* they were taken in or their senders parked; only a value put back jumps the line.
FifoLine == InOrder(Line)
=============================================================================
