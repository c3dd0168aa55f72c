----------------------------- MODULE Http2Pool ------------------------------
(***************************************************************************)
(* Http2ConnectionPool (Soccer/src/Http2.cpp): one shared connection for   *)
(* each origin, looked up and inserted under mu and dialled between the    *)
(* two, so that another caller may have inserted, evicted or filled the    *)
(* table meanwhile.                                                        *)
(***************************************************************************)
EXTENDS Naturals, FiniteSets, Functions

CONSTANTS
    User, Origin, Conn, Nobody,
    Limit               \* of the table

VARIABLES
    entries,            \* the table: origin -> connection
    live,               \* connections that are open
    fresh,              \* connections not dialled yet
    user                \* what each caller does: idle, dials or holds, for which origin, which connection

poolVars == <<entries, live, fresh, user>>

Init ==
    /\ entries = [k \in {} |-> Nobody] /\ live = {} /\ fresh = Conn
    /\ user = [u \in User |-> [at |-> "idle", key |-> Nobody, conn |-> Nobody]]

Set(u, at, k, c) == user' = [user EXCEPT ![u] = [at |-> at, key |-> k, conn |-> c]]
Cached(k) == k \in DOMAIN entries
Without(es, K) == Restrict(es, DOMAIN es \ K)
With(es, k, c) == [j \in DOMAIN es \cup {k} |-> IF j = k THEN c ELSE es[j]]

\* acquire, acquirePlain: the lookup
Acquire(u, k) ==
    /\ user[u].at = "idle"
    /\ IF Cached(k) /\ entries[k] \in live
       THEN Set(u, "holds", k, entries[k]) /\ UNCHANGED entries
       ELSE Set(u, "dials", k, Nobody) /\ entries' = Without(entries, {k})
    /\ UNCHANGED <<live, fresh>>

DialFails(u) == user[u].at = "dials" /\ Set(u, "idle", Nobody, Nobody) /\ UNCHANGED <<entries, live, fresh>>

DeadKeys == {j \in DOMAIN entries : entries[j] \notin live}

\* An insertion that trusts the lookup.
InsertBlind(k, c) == With(entries, k, c)

\* insertLocked: the table afterwards; the caller gets what is in it for k, or else its own
Insert(k, c) ==
    LET purged == IF Cardinality(DOMAIN entries) >= Limit THEN Without(entries, DeadKeys) ELSE entries
    IN  IF Cached(k) THEN (IF entries[k] \in live THEN entries ELSE With(entries, k, c))
        ELSE IF Cardinality(DOMAIN purged) >= Limit THEN purged ELSE With(purged, k, c)

Dialled(u) ==
    /\ user[u].at = "dials"
    /\ \E c \in fresh :
          /\ fresh' = fresh \ {c} /\ entries' = Insert(user[u].key, c)
          /\ LET got == IF user[u].key \in DOMAIN entries' THEN entries'[user[u].key] ELSE c
             IN  /\ Set(u, "holds", user[u].key, got)
                 \* one that is not wanted is dropped, and its destructor closes it
                 /\ live' = IF got = c THEN live \cup {c} ELSE live

Users(c) == {u \in User : user[u].at = "holds" /\ user[u].conn = c}

\* What nobody refers to any more is destroyed.
Kept(held) == {c \in live : c \in held \/ c \in Range(entries')}

Drop(u) ==
    /\ user[u].at = "holds" /\ Set(u, "idle", Nobody, Nobody) /\ UNCHANGED <<entries, fresh>>
    /\ live' = Kept({user[v].conn : v \in User \ {u}})

Evict(k) ==
    /\ Cached(k) /\ entries' = Without(entries, {k}) /\ live' = Kept({user[v].conn : v \in User})
    /\ UNCHANGED <<fresh, user>>

\* The peer or the driver ends a connection.
Ends(c) == c \in live /\ live' = live \ {c} /\ UNCHANGED <<entries, fresh, user>>

Next ==
    \/ \E u \in User : DialFails(u) \/ Dialled(u) \/ Drop(u) \/ \E k \in Origin : Acquire(u, k)
    \/ \E k \in Origin : Evict(k)
    \/ \E c \in Conn : Ends(c)

Spec == Init /\ [][Next]_poolVars
-----------------------------------------------------------------------------
\* Types of the table and of the callers.
TypeOK ==
    /\ DOMAIN entries \subseteq Origin /\ Range(entries) \subseteq Conn
    /\ live \subseteq Conn \ fresh
    /\ \A u \in User : user[u].at \in {"idle", "dials", "holds"}

(***************************************************************************)
(* The table never outgrows its limit, whoever dials at the same time; no  *)
(* connection serves two origins; and every open connection is in the      *)
(* table or held, so that none is left running behind everybody's back.    *)
(***************************************************************************)
PoolIsSound ==
    /\ Cardinality(DOMAIN entries) <= Limit
    /\ \A u \in User, k \in DOMAIN entries : user[u].at = "holds" /\ user[u].conn = entries[k] => user[u].key = k
    /\ \A c \in live : c \in Range(entries) \/ Users(c) # {}
=============================================================================
