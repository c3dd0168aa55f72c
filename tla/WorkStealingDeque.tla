------------------------- MODULE WorkStealingDeque --------------------------
(***************************************************************************)
(* The Chase-Lev deque of a fiber (Yarn/includes/WorkStealingDeque.h): the *)
(* owner pushes and pops at the bottom, thieves steal at the top.  One     *)
(* step per atomic access, interleaved in sequentially consistent order    *)
(* (the code's fences and orderings are there to make it so).              *)
(*                                                                         *)
(* Tasks are numbered in the order of their push.                          *)
(***************************************************************************)
EXTENDS Integers, FiniteSets

CONSTANTS
    Cap,            \* number of slots, a power of two
    MaxItems,       \* bound on the number of items put into the ring
    Thief           \* the stealing threads

ASSUME RingAssumption == Cap \in Nat \ {0} /\ MaxItems \in Nat

VARIABLES
    top, bottom,    \* the two atomics
    slots,          \* the ring
    pushed,         \* tasks pushed so far: 1..pushed
    taken,          \* how often each task was obtained
    opc, ob, ot,    \* the owner: where it is, its local b and t
    tpc, tt, tx     \* each thief: where it is, its local t, the task it read

ownerVars == <<opc, ob, ot>>
thiefVars == <<tpc, tt, tx>>
vars == <<top, bottom, slots, pushed, taken, opc, ob, ot, tpc, tt, tx>>

Id == 1..MaxItems
Slot(i) == slots[i % Cap]

Init ==
    /\ top = 0 /\ bottom = 0
    /\ slots = [i \in 0..(Cap-1) |-> 0]
    /\ pushed = 0
    /\ taken = [x \in Id |-> 0]
    /\ opc = "idle" /\ ob = 0 /\ ot = 0
    /\ tpc = [p \in Thief |-> "idle"]
    /\ tt = [p \in Thief |-> 0]
    /\ tx = [p \in Thief |-> 0]

Take(x) == taken' = [taken EXCEPT ![x] = @ + 1]
-----------------------------------------------------------------------------
(* push                                                                    *)

\* Load bottom and top; give up if the ring is full.
PushLoad ==
    /\ opc = "idle" /\ pushed < MaxItems
    /\ ob' = bottom
    /\ ot' = top
    /\ opc' = IF bottom - top >= Cap THEN "idle" ELSE "pushStore"
    /\ UNCHANGED <<top, bottom, slots, pushed, taken, thiefVars>>

PushStore ==
    /\ opc = "pushStore"
    /\ slots' = [slots EXCEPT ![ob % Cap] = pushed + 1]
    /\ opc' = "pushPublish"
    /\ UNCHANGED <<top, bottom, pushed, taken, ob, ot, thiefVars>>

PushPublish ==
    /\ opc = "pushPublish"
    /\ bottom' = ob + 1
    /\ pushed' = pushed + 1
    /\ opc' = "idle"
    /\ UNCHANGED <<top, slots, taken, ob, ot, thiefVars>>
-----------------------------------------------------------------------------
(* pop                                                                     *)

\* Reserve the bottom element before looking at top.
PopReserve ==
    /\ opc = "idle"
    /\ ob' = bottom - 1
    /\ bottom' = bottom - 1
    /\ opc' = "popTop"
    /\ UNCHANGED <<top, slots, pushed, taken, ot, thiefVars>>

\* A pop that takes a deque with one element for an empty one.
PopTopGivesUp ==
    /\ opc = "popTop"
    /\ ot' = top
    /\ \/ top >= ob /\ opc' = "popRestore" /\ UNCHANGED taken
       \/ top < ob /\ opc' = "idle" /\ Take(Slot(ob))
    /\ UNCHANGED <<top, bottom, slots, pushed, ob, thiefVars>>

\* Load top: nothing there, several elements left (take one), or the last one.
PopTop ==
    /\ opc = "popTop"
    /\ ot' = top
    /\ \/ top > ob /\ opc' = "popRestore" /\ UNCHANGED taken
       \/ top < ob /\ opc' = "idle" /\ Take(Slot(ob))
       \/ top = ob /\ opc' = "popCas" /\ UNCHANGED taken
    /\ UNCHANGED <<top, bottom, slots, pushed, ob, thiefVars>>

\* The last element: race the thieves for it.
PopCas ==
    /\ opc = "popCas"
    /\ IF top = ot
       THEN top' = ot + 1 /\ Take(Slot(ob))
       ELSE UNCHANGED <<top, taken>>
    /\ opc' = "popRestore"
    /\ UNCHANGED <<bottom, slots, pushed, ob, ot, thiefVars>>

PopRestore ==
    /\ opc = "popRestore"
    /\ bottom' = ob + 1
    /\ opc' = "idle"
    /\ UNCHANGED <<top, slots, pushed, taken, ob, ot, thiefVars>>
-----------------------------------------------------------------------------
(* steal                                                                   *)

StealTop(p) ==
    /\ tpc[p] = "idle"
    /\ tt' = [tt EXCEPT ![p] = top]
    /\ tpc' = [tpc EXCEPT ![p] = "bottom"]
    /\ UNCHANGED <<top, bottom, slots, pushed, taken, ownerVars, tx>>

StealBottom(p) ==
    /\ tpc[p] = "bottom"
    /\ tpc' = [tpc EXCEPT ![p] = IF tt[p] < bottom THEN "read" ELSE "idle"]
    /\ UNCHANGED <<top, bottom, slots, pushed, taken, ownerVars, tt, tx>>

StealRead(p) ==
    /\ tpc[p] = "read"
    /\ tx' = [tx EXCEPT ![p] = Slot(tt[p])]
    /\ tpc' = [tpc EXCEPT ![p] = "cas"]
    /\ UNCHANGED <<top, bottom, slots, pushed, taken, ownerVars, tt>>

StealCas(p) ==
    /\ tpc[p] = "cas"
    /\ IF top = tt[p]
       THEN top' = tt[p] + 1 /\ Take(tx[p])
       ELSE UNCHANGED <<top, taken>>
    /\ tpc' = [tpc EXCEPT ![p] = "idle"]
    /\ UNCHANGED <<bottom, slots, pushed, ownerVars, tt, tx>>
-----------------------------------------------------------------------------
OwnerStep == PushLoad \/ PushStore \/ PushPublish
             \/ PopReserve \/ PopTop \/ PopCas \/ PopRestore
ThiefStep(p) == StealTop(p) \/ StealBottom(p) \/ StealRead(p) \/ StealCas(p)

Next == OwnerStep \/ \E p \in Thief : ThiefStep(p)

Spec == Init /\ [][Next]_vars
-----------------------------------------------------------------------------
\* Ranges of the indices, the slots and the program counters.
TypeOK ==
    /\ top \in 0..MaxItems /\ bottom \in -1..MaxItems
    /\ slots \in [0..(Cap-1) -> 0..MaxItems]
    /\ pushed \in 0..MaxItems
    /\ taken \in [Id -> Nat]
    /\ opc \in {"idle", "pushStore", "pushPublish", "popTop", "popCas", "popRestore"}
    /\ ob \in -1..MaxItems /\ ot \in 0..MaxItems
    /\ tpc \in [Thief -> {"idle", "bottom", "read", "cas"}]
    /\ tt \in [Thief -> 0..MaxItems]
    /\ tx \in [Thief -> 0..MaxItems]

\* The end of the live part of the ring: a pop under way has moved bottom but
\* owns its element only once it has settled with the thieves.
End == IF opc \in {"popTop", "popCas", "popRestore"} THEN ob + 1 ELSE bottom
Live == {Slot(i) : i \in top..(End-1)}

(***************************************************************************)
(* Every pushed task is either in the deque or was obtained, and obtained  *)
(* exactly once: no race for the last element, no stale read by a thief    *)
(* after the ring wrapped, duplicates or loses one.                        *)
(***************************************************************************)
EachTaskOnce ==
    /\ \A x \in 1..pushed : taken[x] = (IF x \in Live THEN 0 ELSE 1)
    /\ \A x \in Id : x > pushed => taken[x] = 0
    /\ Cardinality(Live) = End - top

(***************************************************************************)
(* The owner's pop comes back empty-handed only if the deque is empty:     *)
(* everything pushed has been obtained by someone.                         *)
(***************************************************************************)
PopFalseMeansEmpty == opc = "popRestore" => Live = {}
=============================================================================
