------------------------------- MODULE Select -------------------------------
(***************************************************************************)
(* channelSelect (Wire/includes/Select.h): one detached pull per channel,  *)
(* each awaiting receive() on its channel; the first to finish decides,    *)
(* the others are stopped or put their value back, and the caller resumes  *)
(* when all of them are through.  One caller issues one select after       *)
(* another.  A channel is what Channel promises: a line of values from     *)
(* which a receive takes the head, unless it is cancelled first.           *)
(***************************************************************************)
EXTENDS Naturals, Sequences, FiniteSets

CONSTANTS
    Chan,           \* the channels selected from
    MaxValues,      \* bound on the values sent
    MaxSelects      \* bound on the selects issued

VARIABLES
    buffer, closed, \* of each channel
    from,           \* history: the channel each value was sent to
    caller,         \* "idle", "spawning", "awaiting", or "gone" once its frame is destroyed
    todo,           \* the pulls selectImpl has yet to spawn
    pull, held,     \* where each pull stands, and the value it obtained (0: none)
    decided, published, live, outstanding, result, exception, stop, \* SelectState
    selects,        \* the number of selects issued
    returned,       \* history: the values returned, in order
    unreturned      \* history: the value that no memory was left to put back

selectState == <<decided, published, live, outstanding, result, exception, stop>>
vars == <<buffer, closed, from, caller, todo, pull, held, selectState, selects, returned, unreturned>>

Init ==
    /\ buffer = [c \in Chan |-> <<>>] /\ closed = [c \in Chan |-> FALSE] /\ from = <<>>
    /\ caller = "idle" /\ todo = {}
    /\ pull = [c \in Chan |-> "none"] /\ held = [c \in Chan |-> 0]
    /\ decided = FALSE /\ published = FALSE /\ live = 0 /\ outstanding = 0
    /\ result = 0 /\ exception = FALSE /\ stop = FALSE
    /\ selects = 0 /\ returned = <<>> /\ unreturned = {}

Send(c) ==
    /\ ~closed[c] /\ Len(from) < MaxValues
    /\ buffer' = [buffer EXCEPT ![c] = Append(@, Len(from) + 1)]
    /\ from' = Append(from, c)
    /\ UNCHANGED <<closed, caller, todo, pull, held, selectState, selects, returned, unreturned>>

Close(c) ==
    /\ ~closed[c] /\ closed' = [closed EXCEPT ![c] = TRUE]
    /\ UNCHANGED <<buffer, from, caller, todo, pull, held, selectState, selects, returned, unreturned>>

\* selectImpl up to its loop, with a new SelectState
Begin ==
    /\ caller = "idle" /\ selects < MaxSelects /\ selects' = selects + 1
    /\ caller' = "spawning" /\ todo' = Chan
    /\ live' = Cardinality(Chan) /\ outstanding' = Cardinality(Chan)
    /\ decided' = FALSE /\ published' = FALSE /\ result' = 0 /\ exception' = FALSE /\ stop' = FALSE
    /\ UNCHANGED <<buffer, closed, from, pull, held, returned, unreturned>>

\* One turn of the loop (it starts at a rotating channel)
Spawn(c) ==
    /\ caller = "spawning" /\ c \in todo
    /\ todo' = todo \ {c}
    /\ caller' = IF todo' = {} THEN "awaiting" ELSE "spawning"
    /\ pull' = [pull EXCEPT ![c] = "receiving"]
    /\ UNCHANGED <<buffer, closed, from, held, selectState, selects, returned, unreturned>>

\* The pool refuses a pull: failSelect
FailSelect ==
    /\ caller = "spawning" /\ caller' = "awaiting" /\ todo' = {}
    /\ decided' = TRUE
    /\ exception' = (exception \/ ~decided)
    /\ outstanding' = outstanding - Cardinality(todo)
    /\ published' = (outstanding' = 0)
    /\ stop' = TRUE
    /\ UNCHANGED <<buffer, closed, from, pull, held, live, result, selects, returned, unreturned>>

\* receive() of a pull ends: with a value, with the channel closed and drained, or cancelled.
Receive(c) ==
    /\ pull[c] = "receiving"
    /\ \/ /\ buffer[c] # <<>>
          /\ held' = [held EXCEPT ![c] = Head(buffer[c])]
          /\ buffer' = [buffer EXCEPT ![c] = Tail(@)]
          /\ pull' = [pull EXCEPT ![c] = "value"]
       \/ /\ buffer[c] = <<>> /\ closed[c]
          /\ pull' = [pull EXCEPT ![c] = "ended"] /\ UNCHANGED <<buffer, held>>
       \/ /\ stop
          /\ pull' = [pull EXCEPT ![c] = "cancelled"] /\ UNCHANGED <<buffer, held>>
    /\ UNCHANGED <<closed, from, caller, todo, selectState, selects, returned, unreturned>>

\* The first section under st->mu: drop out, win or lose.
Decide(c) ==
    /\ pull[c] \in {"value", "ended", "cancelled"}
    /\ \/ /\ ~decided /\ pull[c] = "ended" /\ live > 1
          /\ live' = live - 1 /\ pull' = [pull EXCEPT ![c] = "settling"]
          /\ UNCHANGED <<decided, result, exception, held>>
       \/ /\ ~decided /\ ~(pull[c] = "ended" /\ live > 1)
          /\ decided' = TRUE
          /\ live' = IF pull[c] = "ended" THEN live - 1 ELSE live
          /\ result' = held[c] /\ exception' = (pull[c] = "cancelled")
          /\ held' = [held EXCEPT ![c] = 0]
          /\ pull' = [pull EXCEPT ![c] = "won"]
       \/ /\ decided
          /\ pull' = [pull EXCEPT ![c] = IF @ = "value" THEN "lost" ELSE "settling"]
          /\ UNCHANGED <<live, decided, result, exception, held>>
    /\ UNCHANGED <<buffer, closed, from, caller, todo, published, outstanding, stop, selects, returned, unreturned>>

\* The winner stops the others.
StopOthers(c) ==
    /\ pull[c] = "won" /\ pull' = [pull EXCEPT ![c] = "settling"]
    /\ stop' = TRUE
    /\ UNCHANGED <<buffer, closed, from, caller, todo, held, decided, published, live, outstanding,
                   result, exception, selects, returned, unreturned>>

\* A loser with a value: pushFront, which may be out of memory (once, a bound)
PutBack(c) ==
    /\ pull[c] = "lost" /\ pull' = [pull EXCEPT ![c] = "settling"]
    /\ \/ buffer' = [buffer EXCEPT ![c] = <<held[c]>> \o @] /\ UNCHANGED unreturned
       \/ unreturned = {} /\ unreturned' = {held[c]} /\ UNCHANGED buffer
    /\ held' = [held EXCEPT ![c] = 0]
    /\ UNCHANGED <<closed, from, caller, todo, selectState, selects, returned>>

\* The second section: the last pull publishes.
Settle(c) ==
    /\ pull[c] = "settling" /\ pull' = [pull EXCEPT ![c] = "none"]
    /\ outstanding' = outstanding - 1
    /\ published' = (published \/ (outstanding' = 0 /\ decided))
    /\ UNCHANGED <<buffer, closed, from, caller, todo, held, decided, live, result, exception, stop, selects,
                   returned, unreturned>>

\* The caller's scope is stopped (ScopeLink).
StopScope ==
    /\ caller \in {"spawning", "awaiting"} /\ ~stop /\ stop' = TRUE
    /\ UNCHANGED <<buffer, closed, from, caller, todo, pull, held, decided, published, live, outstanding,
                   result, exception, selects, returned, unreturned>>

\* WhenAnyAwaiter: the caller goes on once the outcome is published.
Return ==
    /\ caller = "awaiting" /\ published /\ caller' = "idle"
    /\ returned' = IF exception \/ result = 0 THEN returned ELSE Append(returned, result)
    /\ result' = 0
    /\ UNCHANGED <<buffer, closed, from, todo, pull, held, decided, published, live, outstanding, exception, stop,
                   selects, unreturned>>

\* ~WhenAnyAwaiter of a parked caller: every pull is stopped.
Destroy ==
    /\ caller = "awaiting" /\ ~published /\ caller' = "gone" /\ stop' = TRUE
    /\ UNCHANGED <<buffer, closed, from, todo, pull, held, decided, published, live, outstanding,
                   result, exception, selects, returned, unreturned>>

Pull(c) == Receive(c) \/ Decide(c) \/ StopOthers(c) \/ PutBack(c) \/ Settle(c)

Next ==
    \/ Begin \/ FailSelect \/ StopScope \/ Return \/ Destroy
    \/ \E c \in Chan : Send(c) \/ Close(c) \/ Spawn(c) \/ Pull(c)

\* The pool runs the pulls, and the caller once it is resumed.
Progress == Return \/ \E c \in Chan : Spawn(c) \/ Pull(c)
-----------------------------------------------------------------------------
\* Values stay on their channel, and a pull holds one exactly while it owes it to somebody.
TypeOK ==
    /\ \A c \in Chan : \A i \in DOMAIN buffer[c] : from[buffer[c][i]] = c
    /\ pull \in [Chan -> {"none", "receiving", "value", "ended", "cancelled", "won", "lost", "settling"}]
    /\ caller \in {"idle", "spawning", "awaiting", "gone"}
    /\ \A c \in Chan : held[c] # 0 <=> pull[c] \in {"value", "lost"}
    /\ live \in 0..Cardinality(Chan)

\* "A select never swallows a value it did not return": a value sent is in its
\* channel, with a pull, the outcome of a select still awaited, or returned.  The
\* exceptions are the pull that wins after the awaiting frame was destroyed, whose
\* value dies with SelectState, which nobody reads, and a put-back out of memory.
NothingSwallowed ==
    \A v \in DOMAIN from :
        \/ \E i \in DOMAIN buffer[from[v]] : buffer[from[v]][i] = v
        \/ held[from[v]] = v
        \/ result = v /\ (caller \in {"spawning", "awaiting", "gone"} \/ outstanding > 0)
        \/ \E i \in DOMAIN returned : returned[i] = v
        \/ v \in unreturned

\* Successive selects return the values of each channel in the order sent.
ChannelOrder == \A i, j \in DOMAIN returned : i < j /\ from[returned[i]] = from[returned[j]] => returned[i] < returned[j]

\* A select completes empty only when every channel is closed and drained.
Over == \A c \in Chan : closed[c] /\ buffer[c] = <<>> /\ held[c] = 0
EmptyMeansOver == caller = "awaiting" /\ published /\ ~exception /\ result = 0 => Over

\* A select with a value to take, with nothing left to come, or stopped, returns.
CanReturn == caller = "awaiting" /\ (stop \/ (\E c \in Chan : buffer[c] # <<>>) \/ \A c \in Chan : closed[c])
=============================================================================
