------------------------------ MODULE MCQueues ------------------------------
(***************************************************************************)
(* What values and wakes travel through, for TLC, each on its own (`sys'   *)
(* never changes):                                                         *)
(*   deque   the work-stealing deque, its owner and two thieves;           *)
(*   mpmc    the queue with two producers, two consumers and an observer;  *)
(*   proxy   the wait proxy: three coroutines on one mutex that are woken, *)
(*           cancelled and destroyed.  A behaviour either keeps the        *)
(*           destruction of a frame and the run of its proxy apart or lets *)
(*           them overlap (`racy');                                        *)
(*   takers  a bounded channel of one slot with two receivers;             *)
(*   givers  the same with two senders;                                    *)
(*   meet    a rendezvous with two senders;                                *)
(*   soft    the unbounded channel with a soft cap and two receivers.      *)
(* Both rings have two slots and go round at least twice.                  *)
(***************************************************************************)
EXTENDS WorkStealingDeque, TLC

CONSTANTS Producer, Consumer, Waiter, Sender, Receiver, s0, r0, Systems, Overlap
VARIABLES
    sys, head, tail, seq, cell, moved, ppc, ppos, cpc, cpos, spc, st, sawEmpty,
    racy, frame, queue, held, cancelled, alive, refs, state, rpc, next, apc,
    phase, waiters, stop, buffer, closed, slot, count, returned, back,
    senders, value, ok, refused

Queue == INSTANCE MPMCQueue WITH taken <- moved
Apart == INSTANCE WaitProxy WITH Racy <- FALSE
Racing == INSTANCE WaitProxy WITH Racy <- TRUE
Takers == INSTANCE Channels WITH
    Task <- Receiver \cup {s0}, Sender <- {s0}, Cap <- 1, MaxValues <- 3, MaxBuffered <- 0
Givers == INSTANCE Channels WITH
    Task <- Sender \cup {r0}, Receiver <- {r0}, Cap <- 1, MaxValues <- 3, MaxBuffered <- 0
Meet == INSTANCE Channels WITH
    Task <- Sender \cup {r0}, Receiver <- {r0}, Cap <- 0, MaxValues <- 3, MaxBuffered <- 0
Soft == INSTANCE Channels WITH
    Task <- Receiver, Sender <- {}, Cap <- 0, MaxBuffered <- 2, MaxValues <- 3

queueVars == <<head, tail, seq, cell, moved, ppc, ppos, cpc, cpos, spc, st, sawEmpty>>
proxyVars == <<racy, frame, queue, held, cancelled, alive, refs, state, rpc, next, apc>>
sendVars == <<senders, value, ok, refused>>
channelVars == <<phase, waiters, stop, buffer, closed, slot, count, returned, back, sendVars>>
allVars == <<sys, vars, queueVars, proxyVars, channelVars>>

NoSenders == senders = <<>> /\ value = <<>> /\ ok = <<>> /\ refused = {}

MCInit ==
    /\ sys \in Systems
    /\ Init /\ Queue!Init /\ Apart!Init
    /\ racy \in IF sys = "proxy" THEN Overlap ELSE {FALSE}
    /\ \/ sys = "takers" /\ Takers!Init
       \/ sys = "givers" /\ Givers!Init
       \/ sys = "meet" /\ Meet!Init
       \/ sys \notin {"takers", "givers", "meet"} /\ Soft!PlainInit /\ NoSenders

OfChannel == UNCHANGED <<sys, vars, queueVars, proxyVars>>

MCNext ==
    \/ sys = "deque" /\ Next /\ UNCHANGED <<sys, queueVars, proxyVars, channelVars>>
    \/ sys = "mpmc" /\ Queue!Next /\ UNCHANGED <<sys, vars, proxyVars, channelVars>>
    \/ sys = "proxy" /\ ~racy /\ Apart!Next /\ UNCHANGED <<sys, vars, queueVars, racy, channelVars>>
    \/ sys = "proxy" /\ racy /\ Racing!Next /\ UNCHANGED <<sys, vars, queueVars, racy, channelVars>>
    \/ sys = "takers" /\ Takers!Next /\ OfChannel
    \/ sys = "givers" /\ Givers!Next /\ OfChannel
    \/ sys = "meet" /\ Meet!Next /\ OfChannel
    \/ sys = "soft" /\ Soft!PlainNext /\ OfChannel /\ UNCHANGED sendVars

MCSpec == MCInit /\ [][MCNext]_allVars

\* The systems draw their threads and tasks from the same model values, which
\* keeps the group small: Thief = Producer = Sender = Receiver.
Symmetry == Permutations(Thief) \cup Permutations(Consumer)

InChannels(T, G, M, S) ==
    /\ sys = "takers" => T
    /\ sys = "givers" => G
    /\ sys = "meet" => M
    /\ sys = "soft" => S
-----------------------------------------------------------------------------
\* Types and ranges of the deque's indices, the ring's cursors and cells, the
\* proxy's state, and the channels' buffers and wait lists.
TypesOK ==
    /\ TypeOK /\ Queue!TypeOK /\ Apart!TypeOK
    /\ InChannels(Takers!TypeOK, Givers!TypeOK, Meet!TypeOK, Soft!PlainTypeOK)
\* enqueue returns false on a full queue.
NeverOverfull == Queue!NeverOverfull

(***************************************************************************)
(* Nothing is handed out twice or lost: a task that was pushed goes to pop *)
(* or to one steal, and pop answers false only when the deque is empty; a  *)
(* proxy is freed exactly when its last user is done with it, and with     *)
(* resumption and destruction kept apart one of them wins and a grant in   *)
(* flight to a destroyed frame is given back; a channel delivers each      *)
(* value it accepted once and none it refused.                             *)
(***************************************************************************)
OnceOnly ==
    /\ EachTaskOnce /\ PopFalseMeansEmpty
    /\ Apart!ProxyLivesAsLongAsUsed
    /\ ~racy => Apart!NeverResumedAfterDestroyed /\ Apart!GrantHasOneOwner
    /\ InChannels(Takers!ValuesConserved, Givers!ValuesConserved, Meet!ValuesConserved, Soft!PlainValuesConserved)

\* pop_front moves the items out in the order of their claims, each once, and the
\* ring never holds more than its capacity; a channel keeps the order of its values.
KeepsOrder ==
    /\ Queue!FifoOnce /\ NeverOverfull
    /\ InChannels(Takers!FifoLine, Givers!FifoLine, Meet!FifoLine, Soft!PlainFifoLine)

\* empty() answers true only if the queue was empty during the call, and a thread
\* with a stale position retries instead of giving up.
RefusalsAreHonest == [][Queue!EmptyWasEmpty' /\ Queue!HonestStep]_allVars

\* No call stays parked on a channel that could serve it.
ParksNobodyIdly ==
    InChannels(Takers!NobodyParkedIdly, Givers!NobodyParkedIdly, Meet!NobodyParkedIdly, Soft!PlainNobodyParkedIdly)
=============================================================================
