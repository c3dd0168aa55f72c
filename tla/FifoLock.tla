------------------------------ MODULE FifoLock ------------------------------
(***************************************************************************)
(* What AsyncMutex promises its users: at most one owner, and the lock     *)
(* passes to the tasks standing in line strictly in their order of         *)
(* arrival.  A task may leave the line; nobody may enter past it.          *)
(***************************************************************************)
EXTENDS Naturals, Sequences

CONSTANTS Task, None      \* None is not a Task

VARIABLES owner, line

Init == owner = None /\ line = <<>>

Acquire(t) ==
    /\ owner = None
    /\ line = <<>>
    /\ owner' = t
    /\ UNCHANGED line

Join(t) ==
    /\ owner # None
    /\ \A i \in DOMAIN line : line[i] # t
    /\ line' = Append(line, t)
    /\ UNCHANGED owner

Leave == \E i \in DOMAIN line :
    /\ line' = SubSeq(line, 1, i-1) \o SubSeq(line, i+1, Len(line))
    /\ UNCHANGED owner

Release ==
    /\ owner # None
    /\ line = <<>>
    /\ owner' = None
    /\ UNCHANGED line

HandOver ==
    /\ owner # None
    /\ line # <<>>
    /\ owner' = Head(line)
    /\ line' = Tail(line)

Next == Leave \/ Release \/ HandOver \/ \E t \in Task : Acquire(t) \/ Join(t)

Spec == Init /\ [][Next]_<<owner, line>>
=============================================================================
