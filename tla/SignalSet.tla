------------------------------ MODULE SignalSet -----------------------------
(***************************************************************************)
(* Signals as bytes in pipes (Yarn/src/SignalSet.cpp, the build without    *)
(* kqueue).  The handler of a captured signal runs on any thread at any    *)
(* moment and takes no lock: it goes through the table of live sets and    *)
(* writes to the descriptors it finds.  Sets come and go meanwhile, and    *)
(* the numbers of their closed descriptors are used again.  One signal, to *)
(* which every set subscribes; a set has one next() at a time.             *)
(***************************************************************************)
EXTENDS Naturals, FiniteSets

CONSTANTS
    Sets,           \* SignalSet objects, each constructed once
    Reader,         \* those whose next() is awaited
    Slots,          \* indices of g_slots: 1..kMaxSets
    Num,            \* descriptor numbers
    Delivery,       \* handler invocations that can be under way at once
    PipeCap         \* what a pipe holds

VARIABLES
    set,            \* each object: new, piped, listed, live, or where its teardown is
    num,            \* writeFd
    fanSlot,        \* its index, 0 for none
    slots,          \* g_slots[k].fd: a number, or 0
    owner,          \* who has a number: a set, "free" or "other"
    refs, ours,     \* the disposition's references; whether our handler is installed
    inFlight,       \* g_handlersInFlight
    hand,           \* each handler: idle, or its index and the number it read (0: none yet)
    pipe, closed,   \* bytes in each pipe; State::closed
    next,           \* each next(): none, check, read, register, parked, signal or threw
    strayed         \* a handler wrote to a descriptor that is not its set's

sigVars == <<set, num, fanSlot, slots, owner, refs, ours, inFlight, hand, pipe, closed, next, strayed>>
tableVars == <<num, fanSlot, slots, owner>>
readVars == <<pipe, closed, next>>

None == 0
Idle == [k |-> 0, fd |-> None]

Init ==
    /\ set = [s \in Sets |-> "new"] /\ num = [s \in Sets |-> None] /\ fanSlot = [s \in Sets |-> None]
    /\ slots = [k \in Slots |-> None] /\ owner = [n \in Num |-> "free"]
    /\ refs = 0 /\ ours = FALSE /\ inFlight = 0 /\ hand = [d \in Delivery |-> Idle]
    /\ pipe = [s \in Sets |-> 0] /\ closed = {} /\ next = [s \in Sets |-> "none"] /\ strayed = FALSE

To(s, l) == set' = [set EXCEPT ![s] = l]
-----------------------------------------------------------------------------
(* The constructor                                                         *)

MakePipe(s) ==
    /\ set[s] = "new" /\ To(s, "piped")
    /\ \E n \in Num :
          owner[n] = "free" /\ owner' = [owner EXCEPT ![n] = s] /\ num' = [num EXCEPT ![s] = n]
    /\ UNCHANGED <<fanSlot, slots, refs, ours, inFlight, hand, readVars, strayed>>

\* Under g_dispMu: the first free slot, or too many sets and the teardown.
Publish(s) ==
    /\ set[s] = "piped"
    /\ IF \A k \in Slots : slots[k] # None
       THEN To(s, "drained") /\ UNCHANGED <<fanSlot, slots>>
       ELSE LET k == CHOOSE k \in Slots : slots[k] = None /\ \A j \in 1 .. k - 1 : slots[j] # None
            IN  /\ To(s, "listed") /\ fanSlot' = [fanSlot EXCEPT ![s] = k]
                /\ slots' = [slots EXCEPT ![k] = num[s]]
    /\ UNCHANGED <<num, owner, refs, ours, inFlight, hand, readVars, strayed>>

\* acquireSignal: the first reference installs the handler, which may fail.
Acquire(s) ==
    /\ set[s] = "listed"
    /\ \/ To(s, "live") /\ refs' = refs + 1 /\ ours' = TRUE
       \/ refs = 0 /\ To(s, "released") /\ UNCHANGED <<refs, ours>>
    /\ UNCHANGED <<tableVars, inFlight, hand, readVars, strayed>>
-----------------------------------------------------------------------------
(* teardown                                                                *)

\* A release that restores the disposition whoever else still holds it.
ReleaseAlways(s) ==
    /\ set[s] = "live" /\ To(s, "released")
    /\ refs' = refs - 1 /\ ours' = FALSE
    /\ UNCHANGED <<tableVars, inFlight, hand, readVars, strayed>>

\* releaseSignal
Release(s) ==
    /\ set[s] = "live" /\ To(s, "released")
    /\ refs' = refs - 1 /\ ours' = (refs > 1)
    /\ UNCHANGED <<tableVars, inFlight, hand, readVars, strayed>>

Unpublish(s) ==
    /\ set[s] = "released" /\ To(s, "drain")
    /\ slots' = [slots EXCEPT ![fanSlot[s]] = None] /\ fanSlot' = [fanSlot EXCEPT ![s] = None]
    /\ UNCHANGED <<num, owner, refs, ours, inFlight, hand, readVars, strayed>>

\* Wait until no handler is between its first and last look at the table.
Drain(s) ==
    /\ set[s] = "drain" /\ inFlight = 0 /\ To(s, "drained")
    /\ UNCHANGED <<tableVars, refs, ours, inFlight, hand, readVars, strayed>>

CloseWrite(s) ==
    /\ set[s] = "drained" /\ To(s, "eof")
    /\ owner' = [owner EXCEPT ![num[s]] = "free"] /\ num' = [num EXCEPT ![s] = None]
    /\ UNCHANGED <<fanSlot, slots, refs, ours, inFlight, hand, readVars, strayed>>

MarkClosed(s) ==
    /\ set[s] = "eof" /\ To(s, "closed") /\ closed' = closed \cup {s}
    /\ UNCHANGED <<tableVars, refs, ours, inFlight, hand, pipe, next, strayed>>

\* Reactor::cancelFd, then the set lets go of the state
CancelWait(s) ==
    /\ set[s] = "closed" /\ To(s, "gone")
    /\ next' = [next EXCEPT ![s] = IF @ = "parked" THEN "check" ELSE @]
    /\ UNCHANGED <<tableVars, refs, ours, inFlight, hand, pipe, closed, strayed>>

\* Another part of the program opens a file, and the kernel gives it a free number.
Reuse(n) ==
    /\ owner[n] = "free" /\ owner' = [owner EXCEPT ![n] = "other"]
    /\ UNCHANGED <<set, num, fanSlot, slots, refs, ours, inFlight, hand, readVars, strayed>>
-----------------------------------------------------------------------------
(* manwe_signal_handler                                                    *)

Enter(d) ==
    /\ ours /\ hand[d] = Idle /\ hand' = [hand EXCEPT ![d].k = 1] /\ inFlight' = inFlight + 1
    /\ UNCHANGED <<set, tableVars, refs, ours, readVars, strayed>>

Load(d) ==
    /\ hand[d].k \in Slots /\ hand[d].fd = None
    /\ hand' = [hand EXCEPT ![d] = IF slots[@.k] = None THEN [@ EXCEPT !.k = @ + 1]
                                   ELSE [@ EXCEPT !.fd = slots[hand[d].k]]]
    /\ UNCHANGED <<set, tableVars, refs, ours, inFlight, readVars, strayed>>

\* write(2): a full pipe loses the byte, and nobody else's descriptor is written to.
Write(d) ==
    /\ hand[d].fd # None /\ hand' = [hand EXCEPT ![d] = [k |-> @.k + 1, fd |-> None]]
    /\ LET s == owner[hand[d].fd]
       IN  /\ strayed' = (strayed \/ s \notin Sets)
           /\ pipe' = IF s \in Sets /\ pipe[s] < PipeCap THEN [pipe EXCEPT ![s] = @ + 1] ELSE pipe
    /\ UNCHANGED <<set, tableVars, refs, ours, inFlight, closed, next>>

Leave(d) ==
    /\ hand[d].k = Cardinality(Slots) + 1 /\ hand' = [hand EXCEPT ![d] = Idle] /\ inFlight' = inFlight - 1
    /\ UNCHANGED <<set, tableVars, refs, ours, readVars, strayed>>
-----------------------------------------------------------------------------
(* next() and wait()                                                       *)

Await(s, l) == next' = [next EXCEPT ![s] = l]

Call(s) ==
    /\ s \in Reader /\ set[s] = "live" /\ next[s] \in {"none", "signal"} /\ Await(s, "check")
    /\ UNCHANGED <<set, tableVars, refs, ours, inFlight, hand, pipe, closed, strayed>>

Check(s) ==
    /\ next[s] = "check" /\ Await(s, IF s \in closed THEN "threw" ELSE "read")
    /\ UNCHANGED <<set, tableVars, refs, ours, inFlight, hand, pipe, closed, strayed>>

\* A byte, the end of the file once the write end is closed, or nothing yet.
Read(s) ==
    /\ next[s] = "read"
    /\ \/ pipe[s] > 0 /\ pipe' = [pipe EXCEPT ![s] = @ - 1] /\ Await(s, "signal")
       \/ pipe[s] = 0 /\ UNCHANGED pipe /\ Await(s, IF num[s] = None THEN "threw" ELSE "register")
    /\ UNCHANGED <<set, tableVars, refs, ours, inFlight, hand, closed, strayed>>

Register(s) ==
    /\ next[s] = "register" /\ Await(s, "parked")
    /\ UNCHANGED <<set, tableVars, refs, ours, inFlight, hand, pipe, closed, strayed>>

\* The pipe is readable: a byte or its end.
Readable(s) ==
    /\ next[s] = "parked" /\ (pipe[s] > 0 \/ num[s] = None) /\ Await(s, "check")
    /\ UNCHANGED <<set, tableVars, refs, ours, inFlight, hand, pipe, closed, strayed>>
-----------------------------------------------------------------------------
Teardown(s) == Unpublish(s) \/ Drain(s) \/ CloseWrite(s) \/ MarkClosed(s) \/ CancelWait(s)
Waiting(s) == Check(s) \/ Read(s) \/ Register(s) \/ Readable(s)
Handling(d) == Load(d) \/ Write(d) \/ Leave(d)

Next ==
    \/ \E s \in Sets : MakePipe(s) \/ Publish(s) \/ Acquire(s) \/ Release(s) \/ Call(s) \/ Teardown(s) \/ Waiting(s)
    \/ \E n \in Num : Reuse(n)
    \/ \E d \in Delivery : Enter(d) \/ Handling(d)

\* Handlers and coroutines go on, and signals leave a gap now and then for teardown.
Spec ==
    /\ Init /\ [][Next]_sigVars
    /\ \A s \in Sets : SF_sigVars(Teardown(s)) /\ WF_sigVars(Waiting(s))
    /\ \A d \in Delivery : WF_sigVars(Handling(d))
-----------------------------------------------------------------------------
\* Types of the sets, the table and the handlers.
TypeOK ==
    /\ set \in [Sets -> {"new", "piped", "listed", "live", "released", "drain", "drained", "eof", "closed", "gone"}]
    /\ num \in [Sets -> Num \cup {None}] /\ fanSlot \in [Sets -> Slots \cup {None}]
    /\ slots \in [Slots -> Num \cup {None}] /\ owner \in [Num -> Sets \cup {"free", "other"}]
    /\ refs \in 0..Cardinality(Sets) /\ ours \in BOOLEAN /\ inFlight \in 0..Cardinality(Delivery)
    /\ pipe \in [Sets -> 0..PipeCap] /\ closed \subseteq Sets
    /\ next \in [Sets -> {"none", "check", "read", "register", "parked", "signal", "threw"}]

\* "A teardown that unpublished a slot and then saw the counter at zero knows no handler
\* can still write to that slot's descriptor": no byte goes to a recycled number.
NoStrayByte == ~strayed

\* The handler stays installed while a live set needs it, and the original comes back
\* with the last one; a slot names the descriptor of the set that has it.
DispositionIsShared ==
    /\ refs = Cardinality({s \in Sets : set[s] = "live"}) /\ ours = (refs > 0)
    /\ \A s \in Sets : fanSlot[s] # None => slots[fanSlot[s]] = num[s]

\* Destroying the set ends its next(), also one that had not parked yet, and so does a
\* byte in its pipe.
MustEnd(s) == next[s] # "none" /\ (set[s] = "released" \/ pipe[s] > 0)
Ended(s) == next[s] \in {"signal", "threw"}
=============================================================================
