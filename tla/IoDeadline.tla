----------------------------- MODULE IoDeadline -----------------------------
(***************************************************************************)
(* Deadlines on sockets (Soccer/includes/IoDeadline.h): one sweeper        *)
(* coroutine, alive while a deadline is armed, shuts down the sockets      *)
(* whose deadline has passed.  DeadlineSweeper::mu is held for a whole     *)
(* sweep, but a deadline is disarmed under the mutex of its own guard, so  *)
(* disarming, closing and the reuse of the number fall between the entries *)
(* of a sweep.  Each connection has one IoDeadline, which arms a guard of  *)
(* its own for every phase: the entry of an earlier phase is still there   *)
(* when the next one begins.  Moving an IoDeadline hands on its guard and  *)
(* its memory of an earlier one, which changes nothing here.               *)
(***************************************************************************)
EXTENDS Naturals, FiniteSetsExt

CONSTANTS
    Conn,       \* connections
    Raw,        \* those that arm by descriptor number, the others through their stream
    Num,        \* descriptor numbers
    MaxArms     \* bound: guards made, by all of them

ASSUME RawAssumption == Raw \subseteq Conn

VARIABLES
    conn,       \* new, open, closed or gone (its SocketSlot too)
    num,        \* its descriptor number
    made,       \* guards its IoDeadline has made
    guard,      \* the last of them: none (null), spawning (in add) or armed
    fired, firedBefore,     \* that guard's `fired'; an earlier one's
    due,        \* that guard's deadline has passed
    entries, running,   \* DeadlineSweeper
    sweeper,    \* none, sleep or sweep
    todo, seen, \* entries the sweep has yet to visit; those due when it began
    shut,       \* connections whose socket was shut down
    stranded    \* entries that were armed while a spawn was on its way to fail

sweepVars == <<entries, running, sweeper, todo, seen>>
ownVars == <<made, guard, fired, firedBefore, due>>
vars == <<conn, num, ownVars, sweepVars, shut, stranded>>

\* The guard an IoDeadline has, or had last; an earlier one is over.
Current(c) == <<c, made[c]>>
Over(g) == g # Current(g[1]) \/ guard[g[1]] = "none"
Expired(c) == c \in fired \cup firedBefore

Init ==
    /\ conn = [c \in Conn |-> "new"] /\ num = [c \in Conn |-> CHOOSE n \in Num : TRUE]
    /\ made = [c \in Conn |-> 0] /\ guard = [c \in Conn |-> "none"]
    /\ fired = {} /\ firedBefore = {} /\ due = {}
    /\ entries = {} /\ running = FALSE /\ sweeper = "none" /\ todo = {} /\ seen = {}
    /\ shut = {} /\ stranded = {}

Open(c) ==
    /\ conn[c] = "new" /\ conn' = [conn EXCEPT ![c] = "open"]
    /\ \E n \in Num :
          /\ \A x \in Conn : conn[x] = "open" => num[x] # n
          /\ num' = [num EXCEPT ![c] = n]
    /\ UNCHANGED <<ownVars, sweepVars, shut, stranded>>

\* close(): by number only after the deadline is disarmed, which is the contract.
Close(c) ==
    /\ conn[c] = "open" /\ conn' = [conn EXCEPT ![c] = "closed"]
    /\ c \in Raw => guard[c] = "none"
    /\ UNCHANGED <<num, ownVars, sweepVars, shut, stranded>>

Destroy(c) ==
    /\ conn[c] = "closed" /\ guard[c] # "spawning" /\ conn' = [conn EXCEPT ![c] = "gone"]
    /\ UNCHANGED <<num, ownVars, sweepVars, shut, stranded>>
-----------------------------------------------------------------------------
(* DeadlineSweeper::add                                                    *)

Arm(c) ==
    /\ conn[c] = "open" /\ guard[c] = "none" /\ sweeper # "sweep"
    /\ MapThenSumSet(LAMBDA x : made[x], Conn) < MaxArms
    /\ made' = [made EXCEPT ![c] = @ + 1]
    /\ entries' = entries \cup {<<c, made[c] + 1>>} /\ running' = TRUE
    /\ guard' = [guard EXCEPT ![c] = IF running THEN "armed" ELSE "spawning"]
    /\ UNCHANGED <<conn, num, fired, firedBefore, due, sweeper, todo, seen, shut, stranded>>

Spawned(c) ==
    /\ guard[c] = "spawning" /\ guard' = [guard EXCEPT ![c] = "armed"]
    /\ sweeper' = "sleep" /\ stranded' = {}
    /\ UNCHANGED <<conn, num, made, fired, firedBefore, due, entries, running, todo, seen, shut>>

\* coSpawn throws: take the entry back, let the next add() try again, arm nothing.
SpawnFails(c) ==
    /\ guard[c] = "spawning" /\ guard' = [guard EXCEPT ![c] = "none"]
    /\ entries' = entries \ {Current(c)} /\ running' = FALSE /\ due' = due \ {c}
    /\ stranded' = entries \ {Current(c)}
    /\ UNCHANGED <<conn, num, made, fired, firedBefore, sweeper, todo, seen, shut>>

Expire(c) ==
    /\ guard[c] \in {"spawning", "armed"} /\ due' = due \cup {c}
    /\ UNCHANGED <<conn, num, made, guard, fired, firedBefore, sweepVars, shut, stranded>>

\* IoDeadline::disarm, under the guard's mutex; arm() calls it first.
Disarm(c) ==
    /\ guard[c] = "armed" /\ guard' = [guard EXCEPT ![c] = "none"]
    /\ firedBefore' = firedBefore \cup (fired \cap {c}) /\ fired' = fired \ {c} /\ due' = due \ {c}
    /\ UNCHANGED <<conn, num, made, sweepVars, shut, stranded>>
-----------------------------------------------------------------------------
(* The sweeper                                                             *)

SweepBegin ==
    /\ sweeper = "sleep" /\ sweeper' = "sweep" /\ todo' = entries
    /\ seen' = {g \in entries : g = Current(g[1]) /\ g[1] \in due}
    /\ UNCHANGED <<conn, num, ownVars, entries, running, shut, stranded>>

\* The owner of the number now.
Holder(n) == {c \in Conn : conn[c] = "open" /\ num[c] = n}

\* Whom the shutdown for an entry hits: whoever has the number, or the slot's own.
Target(c) == IF c \in Raw THEN Holder(num[c]) ELSE {c} \cap Holder(num[c])

\* One entry, under the guard's mutex.
SweepEntry(g) ==
    LET c == g[1]
        void == Over(g) \/ (c \notin Raw /\ conn[c] = "gone")
    IN  /\ g \in todo /\ todo' = todo \ {g}
        /\ \/ void /\ entries' = entries \ {g} /\ UNCHANGED <<shut, fired>>
           \/ /\ ~void /\ g \in seen /\ entries' = entries \ {g}
              /\ shut' = shut \cup Target(c)
              /\ fired' = IF c \in Raw \/ Target(c) # {} THEN fired \cup {c} ELSE fired
           \/ ~void /\ g \notin seen /\ UNCHANGED <<shut, fired, entries>>
        /\ UNCHANGED <<conn, num, made, guard, firedBefore, due, running, sweeper, seen, stranded>>

SweepEnd ==
    /\ sweeper = "sweep" /\ todo = {} /\ seen' = {}
    /\ running' = (entries # {})
    /\ sweeper' = IF entries = {} THEN "none" ELSE "sleep"
    /\ UNCHANGED <<conn, num, ownVars, entries, todo, shut, stranded>>
-----------------------------------------------------------------------------
Sweeper == SweepBegin \/ SweepEnd \/ \E g \in todo : SweepEntry(g)
Spawn == \E c \in Conn : Spawned(c) \/ SpawnFails(c)

Next ==
    \/ Sweeper \/ Spawn
    \/ \E c \in Conn : Open(c) \/ Close(c) \/ Destroy(c) \/ Arm(c) \/ Expire(c) \/ Disarm(c)

\* The sweeper's coroutine runs, and add() ends.
Spec == Init /\ [][Next]_vars /\ WF_vars(Sweeper) /\ WF_vars(Spawn)
-----------------------------------------------------------------------------
\* Types of the connections and of the sweeper.
TypeOK ==
    /\ conn \in [Conn -> {"new", "open", "closed", "gone"}] /\ num \in [Conn -> Num]
    /\ made \in [Conn -> 0..MaxArms] /\ guard \in [Conn -> {"none", "spawning", "armed"}]
    /\ fired \subseteq Conn /\ firedBefore \subseteq Conn /\ due \subseteq Conn
    /\ entries \subseteq Conn \X (1..MaxArms) /\ running \in BOOLEAN
    /\ sweeper \in {"none", "sleep", "sweep"} /\ todo \subseteq entries /\ seen \subseteq Conn \X (1..MaxArms)

(***************************************************************************)
(* "A late timer never touches a descriptor that has been closed and       *)
(* handed to another connection", and "expired stays true once any         *)
(* deadline of this instance fired": a socket is shut down if and only if  *)
(* a deadline of its own fired, which expired() still says after later     *)
(* phases were armed and disarmed.                                         *)
(***************************************************************************)
ShutsItsOwn == shut = {c \in Conn : Expired(c)}
=============================================================================
