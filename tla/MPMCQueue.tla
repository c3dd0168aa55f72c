----------------------------- MODULE MPMCQueue ------------------------------
(***************************************************************************)
(* The bounded multi-producer / multi-consumer ring                        *)
(* (Yarn/includes/MPMCQueue.h) behind every fiber inbox and the pool's     *)
(* injection queue.  One step per atomic access.  An item is named by the  *)
(* order in which its producer claimed a slot: item x sits at position     *)
(* x - 1.  Positions are 64-bit counters that no run of the program wraps. *)
(***************************************************************************)
EXTENDS Integers

CONSTANTS
    Cap,            \* number of slots, a power of two
    MaxItems,       \* bound on the number of items put into the ring
    Producer, Consumer

VARIABLES
    head, tail,     \* next position to claim for writing, for reading
    seq,            \* the sequence number of each slot
    cell,           \* the item in each slot, 0 if none is constructed
    taken,          \* how often each item was moved out
    ppc, ppos,      \* each producer: where it is, its local pos
    cpc, cpos,      \* each consumer likewise
    spc, st,        \* a thread in Size(): where it is, the tail it loaded
    sawEmpty        \* whether the queue was empty at some moment of that call

prodVars == <<ppc, ppos>>
consVars == <<cpc, cpos>>
sizeVars == <<spc, st, sawEmpty>>
vars == <<head, tail, seq, cell, taken, ppc, ppos, cpc, cpos, spc, st, sawEmpty>>

Item == 1..MaxItems
Index == 0..(Cap-1)
Slot(pos) == pos % Cap

Init ==
    /\ head = 0 /\ tail = 0
    /\ seq = [i \in Index |-> i]
    /\ cell = [i \in Index |-> 0]
    /\ taken = [x \in Item |-> 0]
    /\ ppc = [p \in Producer |-> "idle"] /\ ppos = [p \in Producer |-> 0]
    /\ cpc = [c \in Consumer |-> "idle"] /\ cpos = [c \in Consumer |-> 0]
    /\ spc = "idle" /\ st = 0 /\ sawEmpty = FALSE

PGo(p, pc) == ppc' = [ppc EXCEPT ![p] = pc]
CGo(c, pc) == cpc' = [cpc EXCEPT ![c] = pc]
\* An observer in the middle of Size() sees every moment of the queue.
Observe(h, t) == sawEmpty' = (sawEmpty \/ (spc = "second" /\ h = t))
-----------------------------------------------------------------------------
(* enqueue                                                                 *)

PLoad(p) ==
    /\ ppc[p] \in {"idle", "reload"}
    /\ ppos' = [ppos EXCEPT ![p] = head]
    /\ PGo(p, "seq")
    /\ UNCHANGED <<head, tail, seq, cell, taken, consVars, sizeVars>>

\* Writable, full (enqueue returns false), or claimed by another producer.
PSeq(p) ==
    /\ ppc[p] = "seq"
    /\ LET diff == seq[Slot(ppos[p])] - ppos[p]
       IN  PGo(p, IF diff = 0 THEN "cas" ELSE IF diff < 0 THEN "idle" ELSE "reload")
    /\ UNCHANGED <<head, tail, seq, cell, taken, ppos, consVars, sizeVars>>

\* The weak exchange may also fail for no reason.
PCas(p) ==
    /\ ppc[p] = "cas"
    /\ \/ /\ head = ppos[p] /\ head < MaxItems
          /\ head' = head + 1
          /\ PGo(p, "construct")
          /\ UNCHANGED ppos
       \/ /\ ppos' = [ppos EXCEPT ![p] = head]
          /\ PGo(p, "seq")
          /\ UNCHANGED head
    /\ Observe(head', tail)
    /\ UNCHANGED <<tail, seq, cell, taken, consVars, spc, st>>

PConstruct(p) ==
    /\ ppc[p] = "construct"
    /\ cell' = [cell EXCEPT ![Slot(ppos[p])] = ppos[p] + 1]
    /\ PGo(p, "publish")
    /\ UNCHANGED <<head, tail, seq, taken, ppos, consVars, sizeVars>>

PPublish(p) ==
    /\ ppc[p] = "publish"
    /\ seq' = [seq EXCEPT ![Slot(ppos[p])] = ppos[p] + 1]
    /\ PGo(p, "idle")
    /\ UNCHANGED <<head, tail, cell, taken, ppos, consVars, sizeVars>>
-----------------------------------------------------------------------------
(* pop_front                                                               *)

CLoad(c) ==
    /\ cpc[c] \in {"idle", "reload"}
    /\ cpos' = [cpos EXCEPT ![c] = tail]
    /\ CGo(c, "seq")
    /\ UNCHANGED <<head, tail, seq, cell, taken, prodVars, sizeVars>>

\* A consumer that takes a slot nobody has published.
CSeqNoEmpty(c) ==
    /\ cpc[c] = "seq"
    /\ LET diff == seq[Slot(cpos[c])] - (cpos[c] + 1)
       IN  CGo(c, IF diff <= 0 THEN "cas" ELSE "reload")
    /\ UNCHANGED <<head, tail, seq, cell, taken, cpos, prodVars, sizeVars>>

\* Readable, empty (pop_front returns nullopt), or claimed by another consumer.
CSeq(c) ==
    /\ cpc[c] = "seq"
    /\ LET diff == seq[Slot(cpos[c])] - (cpos[c] + 1)
       IN  CGo(c, IF diff = 0 THEN "cas" ELSE IF diff < 0 THEN "idle" ELSE "reload")
    /\ UNCHANGED <<head, tail, seq, cell, taken, cpos, prodVars, sizeVars>>

CCas(c) ==
    /\ cpc[c] = "cas"
    /\ \/ /\ tail = cpos[c]
          /\ tail' = tail + 1
          /\ CGo(c, "take")
          /\ UNCHANGED cpos
       \/ /\ cpos' = [cpos EXCEPT ![c] = tail]
          /\ CGo(c, "seq")
          /\ UNCHANGED tail
    /\ Observe(head, tail')
    /\ UNCHANGED <<head, seq, cell, taken, prodVars, spc, st>>

\* Move the element out and destroy what is left of it.
CTake(c) ==
    /\ cpc[c] = "take"
    /\ LET i == Slot(cpos[c])
       IN  /\ taken' = [x \in Item |-> IF x = cell[i] THEN taken[x] + 1 ELSE taken[x]]
           /\ cell' = [cell EXCEPT ![i] = 0]
    /\ CGo(c, "recycle")
    /\ UNCHANGED <<head, tail, seq, cpos, prodVars, sizeVars>>

CRecycle(c) ==
    /\ cpc[c] = "recycle"
    /\ seq' = [seq EXCEPT ![Slot(cpos[c])] = cpos[c] + Cap]
    /\ CGo(c, "idle")
    /\ UNCHANGED <<head, tail, cell, taken, cpos, prodVars, sizeVars>>
-----------------------------------------------------------------------------
(* Size and empty: tail is loaded first, then head.  "done" holds the      *)
(* answer h - t (0 if negative) in st until the next call.                 *)

SizeFirst(loaded) ==
    /\ spc \in {"idle", "done"}
    /\ st' = loaded
    /\ sawEmpty' = (head = tail)
    /\ spc' = "second"
    /\ UNCHANGED <<head, tail, seq, cell, taken, prodVars, consVars>>

SizeAnswers(h, t) ==
    /\ spc = "second"
    /\ st' = IF h >= t THEN h - t ELSE 0
    /\ spc' = "done"
    /\ UNCHANGED <<head, tail, seq, cell, taken, prodVars, consVars, sawEmpty>>

\* Size with its two loads the other way round.
SizeHeadFirst == SizeFirst(head) \/ SizeAnswers(st, tail)

Size == SizeFirst(tail) \/ SizeAnswers(head, st)
-----------------------------------------------------------------------------
Next ==
    \/ \E p \in Producer :
           PLoad(p) \/ PSeq(p) \/ PCas(p) \/ PConstruct(p) \/ PPublish(p)
    \/ \E c \in Consumer :
           CLoad(c) \/ CSeq(c) \/ CCas(c) \/ CTake(c) \/ CRecycle(c)
    \/ Size

Spec == Init /\ [][Next]_vars
-----------------------------------------------------------------------------
\* Types and ranges of the variables.
TypeOK ==
    /\ head \in 0..MaxItems /\ tail \in 0..head
    /\ seq \in [Index -> Nat]
    /\ cell \in [Index -> 0..MaxItems]
    /\ taken \in [Item -> Nat]
    /\ ppc \in [Producer -> {"idle", "reload", "seq", "cas", "construct", "publish"}]
    /\ ppos \in [Producer -> Nat]
    /\ cpc \in [Consumer -> {"idle", "reload", "seq", "cas", "take", "recycle"}]
    /\ cpos \in [Consumer -> Nat]
    /\ spc \in {"idle", "second", "done"} /\ st \in Nat /\ sawEmpty \in BOOLEAN

(***************************************************************************)
(* The queue never holds more elements than it has slots: enqueue returns  *)
(* false on a full queue.                                                  *)
(***************************************************************************)
NeverOverfull == head - tail <= Cap

(***************************************************************************)
(* First in, first out, each once: the items moved out of their slots are  *)
(* the oldest ones claimed, every one exactly once, except those whose     *)
(* consumer has claimed the position and not moved it out yet.  No stale   *)
(* producer overwrites a live item and no consumer reads an empty slot.    *)
(***************************************************************************)
FifoOnce ==
    \A x \in Item :
        taken[x] = IF x <= tail /\ ~ \E c \in Consumer : cpc[c] = "take" /\ cpos[c] = x - 1
                   THEN 1 ELSE 0

\* The front is readable / the next position writable at this moment.
Readable == seq[Slot(tail)] = tail + 1
Writable == seq[Slot(head)] = head

(***************************************************************************)
(* pop_front returns nullopt only if at that moment the front of the queue *)
(* is not readable (nothing there, or its producer is still constructing   *)
(* it), and enqueue returns false only if the slot it needs is still in    *)
(* use: a thread whose position is stale retries, it does not give up.     *)
(***************************************************************************)
HonestStep ==
    /\ \A c \in Consumer : cpc[c] = "seq" /\ cpc'[c] = "idle" => ~Readable
    /\ \A p \in Producer : ppc[p] = "seq" /\ ppc'[p] = "idle" => ~Writable

(***************************************************************************)
(* empty() returns true only if the queue was empty at some moment of the  *)
(* call: a worker that looks before it parks is not told "empty" about a   *)
(* queue that always held something.                                       *)
(***************************************************************************)
EmptyWasEmpty == spc = "done" /\ st = 0 => sawEmpty
=============================================================================
