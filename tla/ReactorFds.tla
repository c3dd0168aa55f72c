----------------------------- MODULE ReactorFds -----------------------------
(***************************************************************************)
(* The descriptor waits of the Reactor (Yarn/src/Reactor.cpp, the epoll    *)
(* backend): a table of readers and writers per descriptor number, one     *)
(* one-shot kernel registration for both directions, and the loop that     *)
(* serves its events.  fdMu makes every operation on the table one step,   *)
(* which includes the scheduling of the handles it takes out.  A number    *)
(* can be closed and given to another file at any moment, with waiters     *)
(* still recorded for it or an event of it already fetched.                *)
(***************************************************************************)
EXTENDS Naturals

CONSTANTS
    Handle,
    Fd,         \* descriptor numbers
    MaxFaults,  \* how often epoll_ctl may fail for want of memory
    MaxCloses   \* how often a number is closed or reopened

Dir == {"in", "out"}

VARIABLES
    waiters,    \* fdWaiters: the readers and writers of each number
    napping,    \* handles that wait out the 1 ms backoff in the timer table
    flight,     \* how many resumptions of a handle are queued in the pool
    dead,       \* Reactor::dead
    owed,       \* history: how many registrations of a handle are not resumed yet
    mask,       \* what the kernel watches on a number; {} once the one-shot fired
    open,       \* numbers that name an open file
    ready,      \* what that file is ready for; "hup" is reported in any case
    batch,      \* events epoll_wait returned that are still to be handled
    loop,       \* wait, sweep (dying) or exited
    orphan,     \* waiters whose file was closed without a cancelFd
    faults, closes

tables == <<waiters, napping, flight, dead, owed>>
kernel == <<mask, open, ready>>
bounds == <<faults, closes>>
vars == <<tables, kernel, batch, loop, orphan, bounds>>

Absent == {"absent"}

Init ==
    /\ waiters = [fd \in Fd |-> [d \in Dir |-> {}]] /\ napping = {}
    /\ flight = [h \in Handle |-> 0] /\ dead = FALSE /\ owed = [h \in Handle |-> 0]
    /\ mask = [fd \in Fd |-> Absent] /\ open = Fd /\ ready = [fd \in Fd |-> {}]
    /\ batch = [fd \in {} |-> {}] /\ loop = "wait" /\ orphan = {} /\ faults = 0 /\ closes = 0

None == [d \in Dir |-> {}]
Of(w) == w["in"] \cup w["out"]
Waiting == UNION {Of(waiters[fd]) : fd \in Fd} \cup napping
Wanted(w) == {d \in Dir : w[d] # {}}

\* Reactor::schedule
Scheduled(S) == [h \in Handle |-> IF h \in S THEN flight[h] + 1 ELSE flight[h]]
Fault == faults < MaxFaults /\ faults' = faults + 1
-----------------------------------------------------------------------------
(* registerFd: the outcomes of epoll_ctl                                   *)

\* ADD succeeded: the file is new, whoever is recorded waits for a closed one.
Added(fd, h, d) ==
    /\ fd \in open /\ mask[fd] = Absent
    /\ mask' = [mask EXCEPT ![fd] = {d}]
    /\ waiters' = [waiters EXCEPT ![fd] = [None EXCEPT ![d] = {h}]]
    /\ flight' = Scheduled(Of(waiters[fd]))
    /\ UNCHANGED <<napping, faults>>

\* EEXIST: join the others and watch for both directions.
Modified(fd, h, d) ==
    /\ fd \in open /\ mask[fd] # Absent
    /\ waiters' = [waiters EXCEPT ![fd][d] = @ \cup {h}]
    /\ mask' = [mask EXCEPT ![fd] = Wanted(waiters'[fd])]
    /\ UNCHANGED <<napping, flight, faults>>

\* Any other failure, of the ADD or of the MOD, wakes everybody to see it ...
Refused(fd, h) ==
    /\ \/ fd \notin open /\ UNCHANGED faults
       \/ fd \in open /\ Fault
    /\ waiters' = [waiters EXCEPT ![fd] = None]
    /\ flight' = Scheduled(Of(waiters[fd]) \cup {h})
    /\ UNCHANGED <<napping, mask>>

\* ... but for an ADD out of memory the newcomer tries again a little later.
BackedOff(fd, h) ==
    /\ fd \in open /\ mask[fd] = Absent /\ Fault
    /\ waiters' = [waiters EXCEPT ![fd] = None]
    /\ flight' = Scheduled(Of(waiters[fd]))
    /\ napping' = napping \cup {h}
    /\ UNCHANGED mask

RegisterFd(fd, h, d) ==
    /\ h \notin Waiting /\ flight[h] = 0
    /\ \/ /\ dead /\ flight' = Scheduled({h})
          /\ UNCHANGED <<waiters, napping, mask, faults>>
       \/ /\ ~dead
          /\ Added(fd, h, d) \/ Modified(fd, h, d) \/ Refused(fd, h) \/ BackedOff(fd, h)
    /\ owed' = [owed EXCEPT ![h] = @ + 1]
    /\ UNCHANGED <<dead, open, ready, batch, loop, closes>>
    /\ orphan' = orphan \cap Waiting'
-----------------------------------------------------------------------------
(* The other callers                                                       *)

\* A cancel that resumes the handle whether or not it took it out.
CancelWaitAlways(fd, h) ==
    /\ waiters' = [waiters EXCEPT ![fd] = [d \in Dir |-> @[d] \ {h}]]
    /\ flight' = Scheduled({h})
    /\ orphan' = orphan \ {h}
    /\ UNCHANGED <<napping, dead, owed, kernel, batch, loop, bounds>>

\* cancelWait takes one waiter out; the event that stays armed is harmless.
CancelWait(fd, h) ==
    /\ waiters' = [waiters EXCEPT ![fd] = [d \in Dir |-> @[d] \ {h}]]
    /\ flight' = Scheduled({h} \cap Of(waiters[fd]))
    /\ orphan' = orphan \ {h}
    /\ UNCHANGED <<napping, dead, owed, kernel, batch, loop, bounds>>

\* cancelFd takes everybody out and drops the kernel's registration.
CancelFd(fd) ==
    /\ Of(waiters[fd]) # {}
    /\ waiters' = [waiters EXCEPT ![fd] = None]
    /\ flight' = Scheduled(Of(waiters[fd]))
    /\ mask' = [mask EXCEPT ![fd] = Absent]
    /\ orphan' = orphan \ Of(waiters[fd])
    /\ UNCHANGED <<napping, dead, owed, open, ready, batch, loop, bounds>>

\* The 1 ms timer of a backoff expires.
NapOver(h) ==
    /\ h \in napping /\ napping' = napping \ {h} /\ flight' = Scheduled({h})
    /\ UNCHANGED <<waiters, dead, owed, kernel, batch, loop, orphan, bounds>>

\* The pool resumes the handle.
Resume(h) ==
    /\ flight[h] > 0 /\ flight' = [flight EXCEPT ![h] = @ - 1]
    /\ owed' = [owed EXCEPT ![h] = @ - 1]
    /\ UNCHANGED <<waiters, napping, dead, kernel, batch, loop, orphan, bounds>>
-----------------------------------------------------------------------------
(* The kernel                                                              *)

\* close() takes the registration along.
Close(fd) ==
    /\ fd \in open /\ closes < MaxCloses /\ closes' = closes + 1
    /\ open' = open \ {fd} /\ ready' = [ready EXCEPT ![fd] = {}]
    /\ mask' = [mask EXCEPT ![fd] = Absent]
    /\ orphan' = orphan \cup Of(waiters[fd])
    /\ UNCHANGED <<tables, batch, loop, faults>>

\* Another file gets the number.
Open(fd) ==
    /\ fd \notin open /\ open' = open \cup {fd}
    /\ UNCHANGED <<tables, mask, ready, batch, loop, orphan, bounds>>

\* The file becomes ready, or is read or written until it is not.
Change(fd) ==
    /\ fd \in open
    /\ \/ \E e \in {"in", "out", "hup"} \ ready[fd] : ready' = [ready EXCEPT ![fd] = @ \cup {e}]
       \/ \E d \in Dir \cap ready[fd] : ready' = [ready EXCEPT ![fd] = @ \ {d}]
    /\ UNCHANGED <<tables, mask, open, batch, loop, orphan, bounds>>
-----------------------------------------------------------------------------
(* The loop                                                                *)

Due == {fd \in open : mask[fd] \cap Dir # {} /\ ready[fd] \cap (mask[fd] \cup {"hup"}) # {}}

\* epoll_wait returns what is ready (up to 64 events) and disables it.
Poll ==
    /\ loop = "wait" /\ DOMAIN batch = {} /\ Due # {}
    /\ batch' = [fd \in Due |-> ready[fd] \cap (mask[fd] \cup {"hup"})]
    /\ mask' = [fd \in Fd |-> IF fd \in Due THEN {} ELSE mask[fd]]
    /\ UNCHANGED <<tables, open, ready, loop, orphan, bounds>>

\* Wake the directions the event is for; re-arm for who is left, or wake them too.
HandleEvent(fd) ==
    /\ fd \in DOMAIN batch /\ batch' = [x \in DOMAIN batch \ {fd} |-> batch[x]]
    /\ LET hit  == {d \in Dir : d \in batch[fd] \/ "hup" \in batch[fd]}
           left == [d \in Dir |-> IF d \in hit THEN {} ELSE waiters[fd][d]]
       IN  \/ /\ Wanted(left) = {} \/ fd \in open
              /\ waiters' = [waiters EXCEPT ![fd] = left]
              /\ mask' = IF Wanted(left) = {} THEN mask ELSE [mask EXCEPT ![fd] = Wanted(left)]
              /\ flight' = Scheduled(Of(waiters[fd]) \ Of(left))
              /\ UNCHANGED faults
           \/ /\ Wanted(left) # {}
              /\ IF fd \in open THEN Fault ELSE UNCHANGED faults
              /\ waiters' = [waiters EXCEPT ![fd] = None]
              /\ flight' = Scheduled(Of(waiters[fd]))
              /\ UNCHANGED mask
    /\ UNCHANGED <<napping, dead, owed, open, ready, loop, closes>>
    /\ orphan' = orphan \cap Waiting'

\* epoll_wait fails: abandonWaiters takes everybody out under fdMu ...
Die ==
    /\ loop = "wait" /\ DOMAIN batch = {} /\ loop' = "sweep" /\ dead' = TRUE
    /\ waiters' = [fd \in Fd |-> None]
    /\ flight' = Scheduled(Waiting \ napping)
    /\ orphan' = {}
    /\ UNCHANGED <<napping, owed, kernel, batch, bounds>>

\* ... and the sleepers under timerSetMu.
Sweep ==
    /\ loop = "sweep" /\ loop' = "exited"
    /\ napping' = {} /\ flight' = Scheduled(napping)
    /\ UNCHANGED <<waiters, dead, owed, kernel, batch, orphan, bounds>>

Loop == Poll \/ Sweep \/ \E fd \in Fd : HandleEvent(fd)

Next ==
    \/ Loop \/ Die
    \/ \E h \in Handle : NapOver(h) \/ Resume(h)
    \/ \E fd \in Fd :
          \/ CancelFd(fd) \/ Close(fd) \/ Open(fd) \/ Change(fd)
          \/ \E h \in Handle : CancelWait(fd, h) \/ \E d \in Dir : RegisterFd(fd, h, d)

\* The loop's thread runs.
Spec == Init /\ [][Next]_vars /\ WF_vars(Loop)
-----------------------------------------------------------------------------
\* Types of the waiter table and of the kernel's side.
TypeOK ==
    /\ waiters \in [Fd -> [Dir -> SUBSET Handle]] /\ napping \subseteq Handle
    /\ flight \in [Handle -> Nat] /\ dead \in BOOLEAN /\ owed \in [Handle -> Nat]
    /\ \A fd \in Fd : mask[fd] = Absent \/ mask[fd] \subseteq Dir
    /\ open \subseteq Fd /\ ready \in [Fd -> SUBSET {"in", "out", "hup"}]
    /\ loop \in {"wait", "sweep", "exited"} /\ orphan \subseteq Handle

(***************************************************************************)
(* Whoever waits for a direction of an open file is watched by the kernel, *)
(* or an event of it is about to be handled; the exception is a waiter     *)
(* whose file was closed without cancelFd, which waits for the next user   *)
(* of the number.                                                          *)
(***************************************************************************)
NoLostReadiness ==
    \A fd \in Fd, d \in Dir : waiters[fd][d] \ orphan # {} =>
        fd \in open /\ (d \in mask[fd] \/ fd \in DOMAIN batch)

\* Every registered handle is resumed exactly once (the contract in Reactor.h).
Service == INSTANCE ReactorService WITH pending <- Waiting
ImplementsService == Service!ServiceSpec
=============================================================================
