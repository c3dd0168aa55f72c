------------------------ MODULE ReactorTimersProofs -------------------------
(***************************************************************************)
(* Proofs about the timers of the Reactor, for any handles, durations and  *)
(* bounds: no registration is lost or resumed twice, the kernel timer is   *)
(* never late, and the timers keep the contract of ReactorService.         *)
(***************************************************************************)
EXTENDS ReactorTimers, TLAPS

\* Initially nothing is armed and nothing is owed.
LEMMA InitInv == Init => TimersInv
<1>. SUFFICES ASSUME Init PROVE TimersInv
  OBVIOUS
<1>1. Armed = {}
  BY DEF Init, Armed
<1>2. TypeOK
  <2>1. dead \in BOOLEAN /\ timerArmed \in BOOLEAN /\ poked \in BOOLEAN /\ running \in BOOLEAN
    BY Zenon DEF Init
  <2>2. now \in 0..MaxNow /\ timerArmedFor \in 0..MaxNow /\ expiry \in 0..Never /\ faults \in 0..MaxFaults
    BY TimersAssumption DEF Init, Never
  <2>3. flight \in [Handle -> Nat] /\ owed \in [Handle -> Nat]
    BY DEF Init
  <2>4. batch \subseteq {"wake", "timer"} /\ loop \in {"wait", "fire", "sweep", "exited"}
    BY Zenon DEF Init
  <2>5. QED
    BY <1>1, <2>1, <2>2, <2>3, <2>4 DEF TypeOK
<1>3. Service!OwedIsComing
  <2>. SUFFICES ASSUME NEW h \in Handle
                PROVE  owed[h] = flight[h] + (IF h \in Armed THEN 1 ELSE 0)
    BY DEF Service!OwedIsComing
  <2>. QED
    BY <1>1 DEF Init
<1>4. QED
  BY <1>1, <1>2, <1>3 DEF Init, TimersInv, ArmedIsSet, TimerNeverLate

\* Arming the timerfd keeps its types, and leaves it set or the loop poked.
LEMMA ArmTimerfdProperties ==
    ASSUME TypeOK, NEW d \in 0..MaxNow, NEW p \in BOOLEAN, ArmTimerfd(d, p)
    PROVE  /\ timerArmed' \in BOOLEAN /\ timerArmedFor' \in 0..MaxNow /\ expiry' \in 0..Never
           /\ poked' \in BOOLEAN /\ faults' \in 0..MaxFaults
           /\ timerArmed' => expiry' = timerArmedFor'
           /\ (timerArmed' /\ expiry' = d) \/ poked'
<1>1. CASE timerArmed' = TRUE /\ timerArmedFor' = d /\ expiry' = d /\ poked' = p /\ faults' = faults
  BY <1>1, TimersAssumption DEF TypeOK, Never
<1>2. CASE /\ faults < MaxFaults /\ faults' = faults + 1 /\ timerArmed' = FALSE /\ poked' = TRUE
           /\ timerArmedFor' = timerArmedFor /\ expiry' = expiry
  <2>1. faults' \in 0..MaxFaults
    BY <1>2, TimersAssumption DEF TypeOK
  <2>2. QED
    BY <1>2, <2>1, Zenon DEF TypeOK
<1>3. QED
  BY <1>1, <1>2, Zenon DEF ArmTimerfd, Fault

\* Whoever takes handles out of the table schedules exactly these: nothing is
\* lost and the other deadlines stay as they are.
LEMMA TakeOutProperties ==
    ASSUME TypeOK, Service!OwedIsComing, NEW S \in SUBSET Armed,
           timers' = Without(S), flight' = Scheduled(S), owed' = owed
    PROVE  /\ flight' \in [Handle -> Nat] /\ owed' \in [Handle -> Nat]
           /\ Armed' = Armed \ S /\ Armed' \subseteq Handle
           /\ \A h \in Armed' : timers'[h] = timers[h] /\ timers'[h] \in 0..MaxNow
           /\ Service!OwedIsComing'
<1>1. Armed' = Armed \ S
  BY DEF Armed, Without
<1>2. \A h \in Armed' : timers'[h] = timers[h]
  BY <1>1 DEF Without
<1>3. flight' \in [Handle -> Nat]
  BY DEF TypeOK, Scheduled
<1>4. ASSUME NEW h \in Handle
      PROVE  owed'[h] = flight'[h] + (IF h \in Armed' THEN 1 ELSE 0)
  <2>1. owed[h] = flight[h] + (IF h \in Armed THEN 1 ELSE 0) /\ flight[h] \in Nat
    BY DEF Service!OwedIsComing, TypeOK
  <2>2. flight'[h] = IF h \in S THEN flight[h] + 1 ELSE flight[h]
    BY DEF Scheduled
  <2>3. QED
    BY <1>1, <2>1, <2>2
<1>5. Service!OwedIsComing'
  BY <1>4 DEF Service!OwedIsComing
<1>6. QED
  BY <1>1, <1>2, <1>3, <1>5 DEF TypeOK

\* A handle that is scheduled at once is owed one resumption more.
LEMMA ScheduleProperties ==
    ASSUME TypeOK, Service!OwedIsComing, NEW g \in Handle,
           timers' = timers, flight' = Scheduled({g}), owed' = [owed EXCEPT ![g] = @ + 1]
    PROVE  /\ flight' \in [Handle -> Nat] /\ owed' \in [Handle -> Nat]
           /\ Service!OwedIsComing'
<1>1. flight' \in [Handle -> Nat] /\ owed' \in [Handle -> Nat]
  BY DEF TypeOK, Scheduled
<1>2. ASSUME NEW h \in Handle
      PROVE  owed'[h] = flight'[h] + (IF h \in Armed' THEN 1 ELSE 0)
  <2>1. owed[h] = flight[h] + (IF h \in Armed THEN 1 ELSE 0) /\ flight[h] \in Nat
    BY DEF Service!OwedIsComing, TypeOK
  <2>2. flight'[h] = IF h = g THEN flight[h] + 1 ELSE flight[h]
    BY DEF Scheduled
  <2>3. owed'[h] = IF h = g THEN owed[h] + 1 ELSE owed[h]
    BY DEF TypeOK
  <2>4. QED
    BY <2>1, <2>2, <2>3 DEF Armed
<1>3. QED
  BY <1>1, <1>2 DEF Service!OwedIsComing

\* An insertion is owed one resumption and keeps the other deadlines.
LEMMA InsertProperties ==
    ASSUME TypeOK, Service!OwedIsComing, NEW g \in Handle, g \notin Armed, NEW d \in 0..MaxNow,
           timers' = [x \in Armed \cup {g} |-> IF x = g THEN d ELSE timers[x]],
           flight' = flight, owed' = [owed EXCEPT ![g] = @ + 1]
    PROVE  /\ flight' \in [Handle -> Nat] /\ owed' \in [Handle -> Nat]
           /\ Armed' = Armed \cup {g} /\ Armed' \subseteq Handle
           /\ timers'[g] = d /\ \A h \in Armed : timers'[h] = timers[h]
           /\ \A h \in Armed' : timers'[h] \in 0..MaxNow
           /\ Service!OwedIsComing'
<1>1. Armed' = Armed \cup {g}
  BY DEF Armed
<1>2. timers'[g] = d /\ \A h \in Armed : timers'[h] = timers[h]
  OBVIOUS
<1>3. owed' \in [Handle -> Nat]
  BY DEF TypeOK
<1>4. ASSUME NEW h \in Handle
      PROVE  owed'[h] = flight'[h] + (IF h \in Armed' THEN 1 ELSE 0)
  <2>1. owed[h] = flight[h] + (IF h \in Armed THEN 1 ELSE 0) /\ flight[h] \in Nat
    BY DEF Service!OwedIsComing, TypeOK
  <2>2. owed'[h] = IF h = g THEN owed[h] + 1 ELSE owed[h]
    BY DEF TypeOK
  <2>3. QED
    BY <1>1, <2>1, <2>2
<1>5. Service!OwedIsComing'
  BY <1>4 DEF Service!OwedIsComing
<1>6. QED
  BY <1>1, <1>2, <1>3, <1>5 DEF TypeOK

\* registerTimer keeps the invariant: a new first deadline arms the timerfd unless it
\* is armed for an earlier time.
LEMMA RegisterTimerInv ==
    ASSUME TimersInv, NEW g \in Handle, NEW dur \in Duration, RegisterTimer(dur, g)
    PROVE  TimersInv'
<1>. DEFINE d == now + dur
<1>0. TypeOK /\ Service!OwedIsComing /\ ArmedIsSet /\ TimerNeverLate
  BY DEF TimersInv
<1>1. d \in 0..MaxNow /\ now \in 0..MaxNow /\ poked \in BOOLEAN
  BY <1>0, TimersAssumption DEF RegisterTimer, TypeOK
<1>2. now' = now /\ batch' = batch /\ loop' = loop /\ running' = running /\ dead' = dead
      /\ owed' = [owed EXCEPT ![g] = @ + 1]
  BY DEF RegisterTimer
<1>3. CASE /\ ~dead /\ g \notin Armed /\ flight' = flight
           /\ timers' = [x \in Armed \cup {g} |-> IF x = g THEN d ELSE timers[x]]
           /\ IF (\A x \in Armed : d < timers[x]) /\ (~timerArmed \/ d < timerArmedFor)
              THEN ArmTimerfd(d, poked) ELSE UNCHANGED kernelTimer
  <2>. HIDE DEF d
  <2>1. /\ flight' \in [Handle -> Nat] /\ owed' \in [Handle -> Nat]
        /\ Armed' = Armed \cup {g} /\ Armed' \subseteq Handle
        /\ timers'[g] = d /\ \A h \in Armed : timers'[h] = timers[h]
        /\ \A h \in Armed' : timers'[h] \in 0..MaxNow
        /\ Service!OwedIsComing'
    BY <1>0, <1>1, <1>2, <1>3, InsertProperties
  <2>2. CASE (\A x \in Armed : d < timers[x]) /\ (~timerArmed \/ d < timerArmedFor)
    <3>1. /\ timerArmed' \in BOOLEAN /\ timerArmedFor' \in 0..MaxNow /\ expiry' \in 0..Never
          /\ poked' \in BOOLEAN /\ faults' \in 0..MaxFaults
          /\ timerArmed' => expiry' = timerArmedFor'
          /\ (timerArmed' /\ expiry' = d) \/ poked'
      BY <1>0, <1>1, <1>3, <2>2, ArmTimerfdProperties
    <3>2. TypeOK'
      BY <1>0, <1>2, <2>1, <3>1, Zenon DEF TypeOK, Never
    <3>3. \A h \in Armed' : d <= timers'[h]
      BY <1>0, <1>1, <2>1, <2>2 DEF TypeOK
    <3>4. TimerNeverLate'
      BY <3>1, <3>3, Zenon DEF TimerNeverLate
    <3>5. QED
      BY <2>1, <3>1, <3>2, <3>4, Zenon DEF TimersInv, ArmedIsSet
  <2>3. CASE ~((\A x \in Armed : d < timers[x]) /\ (~timerArmed \/ d < timerArmedFor))
    <3>1. UNCHANGED kernelTimer
      BY <1>3, <2>3
    <3>2. TypeOK'
      BY <1>0, <1>2, <2>1, <3>1, Zenon DEF TypeOK, Never, kernelTimer
    <3>3. ArmedIsSet'
      BY <1>0, <1>2, <3>1, Zenon DEF ArmedIsSet, kernelTimer
    <3>4. CASE timerArmed /\ timerArmedFor <= d /\ \A x \in Armed : d < timers[x]
      <4>1. (\A h \in Armed' : timerArmedFor <= timers'[h])
        BY <1>0, <1>1, <2>1, <3>4 DEF TypeOK
      <4>2. QED
        BY <1>0, <1>2, <2>1, <3>1, <3>2, <3>3, <3>4, <4>1, Zenon
        DEF TimersInv, ArmedIsSet, TimerNeverLate, kernelTimer
    <3>5. CASE \E x \in Armed : timers[x] <= d
      <4>1. ASSUME \A h \in Armed : expiry <= timers[h]
            PROVE  \A h \in Armed' : expiry <= timers'[h]
        BY <1>0, <1>1, <2>1, <3>5, <4>1 DEF TypeOK, Never
      <4>2. Armed # {}
        BY <3>5
      <4>3. QED
        BY <1>0, <1>2, <1>3, <2>1, <3>1, <3>2, <3>3, <4>1, <4>2, Zenon
        DEF TimersInv, TimerNeverLate, kernelTimer
    <3>6. QED
      BY <1>0, <1>1, <2>3, <3>4, <3>5 DEF TypeOK
  <2>4. QED
    BY <2>2, <2>3
<1>4. CASE /\ flight' = Scheduled({g}) /\ timers' = timers
           /\ UNCHANGED <<timerArmed, timerArmedFor, expiry, poked>>
           /\ UNCHANGED faults \/ Fault
  <2>1. flight' \in [Handle -> Nat] /\ owed' \in [Handle -> Nat] /\ Service!OwedIsComing'
    BY <1>0, <1>2, <1>4, ScheduleProperties
  <2>2. faults' \in 0..MaxFaults
    BY <1>0, <1>4, TimersAssumption DEF TypeOK, Fault
  <2>3. Armed' = Armed
    BY <1>4 DEF Armed
  <2>4. TypeOK'
    BY <1>0, <1>2, <1>4, <2>1, <2>2, <2>3, Zenon DEF TypeOK, Never
  <2>5. ArmedIsSet' /\ TimerNeverLate'
    BY <1>0, <1>2, <1>4, <2>3, Zenon DEF ArmedIsSet, TimerNeverLate
  <2>6. QED
    BY <2>1, <2>4, <2>5 DEF TimersInv
<1>5. QED
  BY <1>3, <1>4, Zenon DEF RegisterTimer, kernelTimer

\* Taking handles out, without a change of the kernel timer, keeps the invariant.
LEMMA TakeOutInv ==
    ASSUME TimersInv, NEW S \in SUBSET Armed,
           timers' = Without(S), flight' = Scheduled(S),
           UNCHANGED <<now, kernelTimer, batch, running, dead, owed>>,
           loop' = loop \/ (loop' = "exited" /\ loop = "sweep" /\ S = Armed)
    PROVE  TimersInv'
<1>0. TypeOK /\ Service!OwedIsComing /\ ArmedIsSet /\ TimerNeverLate
  BY DEF TimersInv
<1>1. /\ flight' \in [Handle -> Nat] /\ owed' \in [Handle -> Nat]
      /\ Armed' = Armed \ S /\ Armed' \subseteq Handle
      /\ \A h \in Armed' : timers'[h] = timers[h] /\ timers'[h] \in 0..MaxNow
      /\ Service!OwedIsComing'
  BY <1>0, TakeOutProperties
<1>2. loop' \in {"wait", "fire", "sweep", "exited"} /\ (loop = "fire" => loop' = "fire")
  BY <1>0 DEF TypeOK
<1>3. TypeOK'
  BY <1>0, <1>1, <1>2, Zenon DEF TypeOK, Never, kernelTimer
<1>4. ArmedIsSet'
  BY <1>0, <1>2, Zenon DEF ArmedIsSet, kernelTimer
<1>5. Armed' # {} => Armed # {} /\ Armed' \subseteq Armed
  BY <1>1
<1>6. (\A h \in Armed : expiry <= timers[h]) => (\A h \in Armed' : expiry <= timers'[h])
  BY <1>1
<1>7. TimerNeverLate'
  BY <1>0, <1>2, <1>5, <1>6, Zenon DEF TimerNeverLate, kernelTimer
<1>8. QED
  BY <1>1, <1>3, <1>4, <1>7 DEF TimersInv

\* The pool's resumption pays one registration.
LEMMA ResumeInv ==
    ASSUME TimersInv, NEW g \in Handle, Resume(g)
    PROVE  TimersInv'
<1>0. TypeOK /\ Service!OwedIsComing /\ ArmedIsSet /\ TimerNeverLate
  BY DEF TimersInv
<1>1. /\ flight[g] > 0 /\ flight' = [flight EXCEPT ![g] = @ - 1] /\ owed' = [owed EXCEPT ![g] = @ - 1]
      /\ UNCHANGED <<now, timers, kernelTimer, batch, loop, running, dead>>
  BY DEF Resume
<1>2. Armed' = Armed
  BY <1>1 DEF Armed
<1>3. ASSUME NEW h \in Handle
      PROVE  /\ owed'[h] = flight'[h] + (IF h \in Armed' THEN 1 ELSE 0)
             /\ flight'[h] \in Nat /\ owed'[h] \in Nat
  <2>1. owed[h] = flight[h] + (IF h \in Armed THEN 1 ELSE 0) /\ flight[h] \in Nat
    BY <1>0 DEF Service!OwedIsComing, TypeOK
  <2>2. flight'[h] = (IF h = g THEN flight[h] - 1 ELSE flight[h])
        /\ owed'[h] = (IF h = g THEN owed[h] - 1 ELSE owed[h])
    BY <1>0, <1>1 DEF TypeOK
  <2>3. QED
    BY <1>1, <1>2, <2>1, <2>2
<1>4. flight' \in [Handle -> Nat] /\ owed' \in [Handle -> Nat]
  <2>1. DOMAIN flight' = Handle /\ DOMAIN owed' = Handle
    BY <1>0, <1>1 DEF TypeOK
  <2>2. flight' = [h \in Handle |-> flight'[h]] /\ owed' = [h \in Handle |-> owed'[h]]
    BY <1>0, <1>1, <2>1 DEF TypeOK
  <2>3. QED
    BY <1>3, <2>2
<1>5. TypeOK'
  BY <1>0, <1>1, <1>2, <1>4, Zenon DEF TypeOK, Never, kernelTimer
<1>6. ArmedIsSet' /\ TimerNeverLate'
  BY <1>0, <1>1, <1>2, Zenon DEF ArmedIsSet, TimerNeverLate, kernelTimer
<1>7. QED
  BY <1>3, <1>5, <1>6 DEF TimersInv, Service!OwedIsComing

\* Serving an expired timerfd arms it for the first deadline that is left.
LEMMA FireInv ==
    ASSUME TimersInv, Fire
    PROVE  TimersInv'
<1>. DEFINE due == {h \in Armed : timers[h] <= now}
<1>0. TypeOK /\ Service!OwedIsComing /\ ArmedIsSet /\ TimerNeverLate
  BY DEF TimersInv
<1>1. /\ loop = "fire" /\ loop' = "wait" /\ timers' = Without(due) /\ flight' = Scheduled(due)
      /\ IF due = Armed THEN timerArmed' = FALSE /\ UNCHANGED <<timerArmedFor, expiry, poked, faults>>
         ELSE \E d \in First(Without(due)) : ArmTimerfd(d, poked)
      /\ UNCHANGED <<now, batch, running, dead, owed>>
  BY DEF Fire
<1>2. due \in SUBSET Armed
  OBVIOUS
<1>. HIDE DEF due
<1>3. /\ flight' \in [Handle -> Nat] /\ owed' \in [Handle -> Nat]
      /\ Armed' = Armed \ due /\ Armed' \subseteq Handle
      /\ \A h \in Armed' : timers'[h] = timers[h] /\ timers'[h] \in 0..MaxNow
      /\ Service!OwedIsComing'
  BY <1>0, <1>1, <1>2, TakeOutProperties
<1>4. CASE due = Armed
  <2>1. timerArmed' = FALSE /\ UNCHANGED <<timerArmedFor, expiry, poked, faults>> /\ Armed' = {}
    BY <1>1, <1>3, <1>4
  <2>2. TypeOK'
    BY <1>0, <1>1, <1>3, <2>1, Zenon DEF TypeOK, Never
  <2>3. QED
    BY <1>3, <2>1, <2>2 DEF TimersInv, ArmedIsSet, TimerNeverLate
<1>5. CASE due # Armed
  <2>1. PICK d \in First(timers') : ArmTimerfd(d, poked)
    BY <1>1, <1>5
  <2>2. d \in 0..MaxNow /\ \A h \in Armed' : d <= timers'[h]
    BY <1>3, <2>1 DEF First, Armed
  <2>3. /\ timerArmed' \in BOOLEAN /\ timerArmedFor' \in 0..MaxNow /\ expiry' \in 0..Never
        /\ poked' \in BOOLEAN /\ faults' \in 0..MaxFaults
        /\ timerArmed' => expiry' = timerArmedFor'
        /\ (timerArmed' /\ expiry' = d) \/ poked'
    <3>1. poked \in BOOLEAN
      BY <1>0 DEF TypeOK
    <3>2. QED
      BY <1>0, <2>1, <2>2, <3>1, ArmTimerfdProperties
  <2>4. TypeOK'
    BY <1>0, <1>1, <1>3, <2>3, Zenon DEF TypeOK, Never
  <2>5. ArmedIsSet' /\ TimerNeverLate'
    BY <2>2, <2>3, Zenon DEF ArmedIsSet, TimerNeverLate
  <2>6. QED
    BY <1>3, <2>4, <2>5 DEF TimersInv
<1>6. QED
  BY <1>4, <1>5

\* A poke ends with the timerfd armed early enough, or with another poke.
LEMMA HandleWakeInv ==
    ASSUME TimersInv, HandleWake
    PROVE  TimersInv'
<1>0. TypeOK /\ Service!OwedIsComing /\ ArmedIsSet /\ TimerNeverLate
  BY DEF TimersInv
<1>1. /\ loop = "wait" /\ batch' = batch \ {"wake"}
      /\ UNCHANGED <<now, timers, loop, running, flight, dead, owed>>
  BY DEF HandleWake
<1>2. Armed' = Armed /\ batch' \subseteq {"wake", "timer"} /\ Service!OwedIsComing'
  <2>1. Armed' = Armed /\ batch' \subseteq {"wake", "timer"}
    BY <1>0, <1>1 DEF Armed, TypeOK
  <2>2. QED
    BY <1>0, <1>1, <2>1 DEF Service!OwedIsComing
<1>3. ASSUME NEW d \in First(timers), ArmTimerfd(d, FALSE)
      PROVE  TimersInv'
  <2>1. d \in 0..MaxNow /\ \A h \in Armed' : d <= timers'[h]
    BY <1>0, <1>1, <1>2 DEF First, Armed, TypeOK
  <2>2. /\ timerArmed' \in BOOLEAN /\ timerArmedFor' \in 0..MaxNow /\ expiry' \in 0..Never
        /\ poked' \in BOOLEAN /\ faults' \in 0..MaxFaults
        /\ timerArmed' => expiry' = timerArmedFor'
        /\ (timerArmed' /\ expiry' = d) \/ poked'
    BY <1>0, <1>3, <2>1, ArmTimerfdProperties
  <2>3. TypeOK'
    BY <1>0, <1>1, <1>2, <2>2, Zenon DEF TypeOK, Never
  <2>4. ArmedIsSet' /\ TimerNeverLate'
    BY <2>1, <2>2, Zenon DEF ArmedIsSet, TimerNeverLate
  <2>5. QED
    BY <1>2, <2>3, <2>4 DEF TimersInv
<1>4. ASSUME Armed = {} \/ (timerArmed /\ \A h \in Armed : timerArmedFor <= timers[h]),
             poked' = FALSE, UNCHANGED <<timerArmed, timerArmedFor, expiry, faults>>
      PROVE  TimersInv'
  <2>1. TypeOK'
    BY <1>0, <1>1, <1>2, <1>4, Zenon DEF TypeOK, Never
  <2>2. loop # "fire"
    BY <1>1
  <2>3. ArmedIsSet' /\ TimerNeverLate'
    BY <1>0, <1>1, <1>2, <1>4, <2>2, Zenon DEF ArmedIsSet, TimerNeverLate
  <2>4. QED
    BY <1>2, <2>1, <2>3 DEF TimersInv
<1>5. QED
  BY <1>3, <1>4, Zenon DEF HandleWake

\* A step that leaves the table and what is owed alone keeps the invariant, if it
\* keeps the types and the kernel timer on time.
LEMMA QuietInv ==
    ASSUME TimersInv, UNCHANGED <<timers, flight, owed, timerArmed, timerArmedFor, faults>>,
           now' \in 0..MaxNow, dead' \in BOOLEAN, running' \in BOOLEAN, poked' \in BOOLEAN,
           expiry' \in 0..Never, batch' \subseteq {"wake", "timer"},
           loop' \in {"wait", "fire", "sweep", "exited"},
           expiry' = expiry \/ loop' = "fire", loop = "fire" => loop' = "fire",
           poked => poked', running' => running, ~dead' => ~dead,
           "timer" \in batch => "timer" \in batch' \/ loop' = "fire"
    PROVE  TimersInv'
<1>0. TypeOK /\ Service!OwedIsComing /\ ArmedIsSet /\ TimerNeverLate
  BY DEF TimersInv
<1>1. Armed' = Armed
  BY DEF Armed
<1>2. TypeOK'
  BY <1>0, <1>1, Zenon DEF TypeOK, Never
<1>3. ArmedIsSet' /\ TimerNeverLate'
  BY <1>0, <1>1, Zenon DEF ArmedIsSet, TimerNeverLate
<1>4. Service!OwedIsComing'
  BY <1>0, <1>1 DEF Service!OwedIsComing
<1>5. QED
  BY <1>2, <1>3, <1>4 DEF TimersInv

\* Every step keeps the invariant.
LEMMA StepInv == TimersInv /\ [Next]_vars => TimersInv'
<1>. SUFFICES ASSUME TimersInv, [Next]_vars PROVE TimersInv'
  OBVIOUS
<1>0. TypeOK
  BY DEF TimersInv
<1>. USE <1>0
<1>1. CASE UNCHANGED vars
  BY <1>1, QuietInv DEF vars, TypeOK
<1>2. ASSUME NEW h \in Handle, CancelTimer(h)
      PROVE  TimersInv'
  <2>1. Without({h}) = Without({h} \cap Armed)
    BY DEF Without
  <2>2. QED
    BY <1>2, <2>1, TakeOutInv DEF CancelTimer
<1>3. CASE Tick
  <2>1. now' \in 0..MaxNow
    BY <1>3, TimersAssumption DEF Tick, TypeOK
  <2>2. QED
    BY <1>3, <2>1, QuietInv, Zenon DEF Tick, TypeOK, kernelTimer
<1>4. CASE Poll
  <2>1. batch' \subseteq {"wake", "timer"} /\ "timer" \notin batch
    BY <1>4 DEF Poll, Pending
  <2>2. QED
    BY <1>4, <2>1, QuietInv, Zenon DEF Poll, TypeOK, kernelTimer
<1>5. CASE ReadTimerfd
  <2>1. expiry' \in 0..Never /\ loop' = "fire" /\ loop' \in {"wait", "fire", "sweep", "exited"}
        /\ batch' \subseteq {"wake", "timer"}
    BY <1>5, TimersAssumption DEF ReadTimerfd, TypeOK, Never
  <2>2. QED
    BY <1>5, <2>1, QuietInv, Zenon DEF ReadTimerfd, TypeOK
<1>6. CASE Die
  <2>1. loop' \in {"wait", "fire", "sweep", "exited"} /\ loop # "fire"
    BY <1>6 DEF Die
  <2>2. QED
    BY <1>6, <2>1, QuietInv, Zenon DEF Die, TypeOK, kernelTimer
<1>7. CASE Exit
  <2>1. loop' \in {"wait", "fire", "sweep", "exited"} /\ loop # "fire"
    BY <1>7 DEF Exit
  <2>2. QED
    BY <1>7, <2>1, QuietInv, Zenon DEF Exit, TypeOK, kernelTimer
<1>8. CASE Stop
  BY <1>8, QuietInv, Zenon DEF Stop, TypeOK
<1>9. CASE Sweep
  BY <1>9, TakeOutInv DEF Sweep
<1>10. QED
  BY <1>1, <1>2, <1>3, <1>4, <1>5, <1>6, <1>7, <1>8, <1>9,
     FireInv, HandleWakeInv, ResumeInv, RegisterTimerInv, Zenon DEF Next, Loop

\* The inductive invariant of the timers holds for any handles, durations and bounds.
THEOREM TimersInvariant == Spec => []TimersInv
  BY InitInv, StepInv, PTL DEF Spec

\* While the Reactor's loop lives, the timerfd is never set later than a deadline
\* of the table without the loop being about to look at it.
THEOREM TimerIsNeverLate == Spec => []TimerNeverLate
<1>1. TimersInv => TimerNeverLate
  BY DEF TimersInv
<1>2. QED
  BY <1>1, TimersInvariant, PTL

\* Each registration of a timer that was not resumed yet is in the table or has one
\* resumption on its way.
THEOREM TimersResumeOnce == Spec => []Service!OwedIsComing
<1>1. TimersInv => Service!OwedIsComing
  BY DEF TimersInv
<1>2. QED
  BY <1>1, TimersInvariant, PTL
-----------------------------------------------------------------------------
(* The timers implement the service.                                       *)

\* Taking handles of the table out and scheduling them is a step of the service.
LEMMA TakeOutIsService ==
    ASSUME TypeOK, NEW S \in SUBSET Armed, timers' = Without(S), flight' = Scheduled(S), owed' = owed
    PROVE  Service!TakeOut(S)
<1>1. Armed' = Armed \ S
  BY DEF Armed, Without
<1>2. S \cap Armed = S
  OBVIOUS
<1>3. QED
  BY <1>1, <1>2 DEF Service!TakeOut, Service!Scheduled, Scheduled

\* Every step of the timers is a step of the service or leaves it alone.
LEMMA StepImplementsService ==
    ASSUME TypeOK, [Next]_vars
    PROVE  [Service!ServiceNext]_(Service!serviceVars)
<1>1. ASSUME UNCHANGED <<timers, flight, dead, owed>>
      PROVE  UNCHANGED Service!serviceVars
  BY <1>1 DEF Service!serviceVars, Armed
<1>2. CASE UNCHANGED vars \/ Tick \/ Poll \/ HandleWake \/ ReadTimerfd \/ Exit \/ Stop
  BY <1>1, <1>2 DEF vars, Tick, Poll, HandleWake, ReadTimerfd, Exit, Stop
<1>3. ASSUME NEW h \in Handle, Resume(h)
      PROVE  Service!ServiceNext
  <2>1. Service!Resume(h)
    BY <1>3 DEF Resume, Service!Resume, Armed
  <2>2. QED
    BY <2>1 DEF Service!ServiceNext
<1>4. ASSUME NEW h \in Handle, CancelTimer(h)
      PROVE  Service!ServiceNext
  <2>1. Without({h}) = Without({h} \cap Armed)
    BY DEF Without
  <2>2. Service!TakeOut({h} \cap Armed)
    BY <1>4, <2>1, TakeOutIsService DEF CancelTimer
  <2>3. dead' = dead
    BY <1>4 DEF CancelTimer
  <2>4. Service!Complete
    BY <2>2, <2>3 DEF Service!Complete
  <2>5. QED
    BY <2>4 DEF Service!ServiceNext
<1>5. CASE Fire
  <2>1. Service!TakeOut({h \in Armed : timers[h] <= now})
    BY <1>5, TakeOutIsService DEF Fire
  <2>2. Service!Complete
    BY <1>5, <2>1 DEF Fire, Service!Complete
  <2>3. QED
    BY <2>2 DEF Service!ServiceNext
<1>6. CASE Sweep
  <2>1. Service!TakeOut(Armed)
    BY <1>6, TakeOutIsService DEF Sweep
  <2>2. Service!Complete
    BY <1>6, <2>1 DEF Sweep, Service!Complete
  <2>3. QED
    BY <2>2 DEF Service!ServiceNext
<1>7. CASE Die
  <2>1. Armed' = Armed \ {} /\ flight' = Service!Scheduled({} \cap Armed)
    BY <1>7 DEF Die, Armed, TypeOK, Service!Scheduled
  <2>2. Service!Die
    BY <1>7, <2>1 DEF Die, Service!Die, Service!TakeOut
  <2>3. QED
    BY <2>2 DEF Service!ServiceNext
<1>8. ASSUME NEW h \in Handle, NEW d \in Duration, RegisterTimer(d, h)
      PROVE  Service!ServiceNext
  <2>1. owed' = [owed EXCEPT ![h] = @ + 1] /\ dead' = dead
    BY <1>8 DEF RegisterTimer
  <2>2. CASE /\ ~dead /\ h \notin Armed /\ flight' = flight
             /\ timers' = [x \in Armed \cup {h} |-> IF x = h THEN now + d ELSE timers[x]]
    <3>1. Armed' = (Armed \ {}) \cup {h} /\ flight' = Service!Scheduled({})
      BY <2>2 DEF Armed, TypeOK, Service!Scheduled
    <3>2. Service!Register(h)
      BY <2>1, <2>2, <3>1 DEF Service!Register
    <3>3. QED
      BY <3>2 DEF Service!ServiceNext
  <2>3. CASE flight' = Scheduled({h}) /\ timers' = timers
    <3>1. Armed' = Armed \ {} /\ flight' = Service!Scheduled({} \cup {h})
      BY <2>3 DEF Armed, Scheduled, Service!Scheduled
    <3>2. Service!Register(h)
      BY <2>1, <3>1 DEF Service!Register
    <3>3. QED
      BY <3>2 DEF Service!ServiceNext
  <2>4. QED
    BY <1>8, <2>2, <2>3, Zenon DEF RegisterTimer
<1>9. QED
  BY <1>2, <1>3, <1>4, <1>5, <1>6, <1>7, <1>8, Zenon DEF Next, Loop

\* The timers keep the contract of the Reactor: every registered handle is resumed
\* exactly once, by expiry, a cancel, a failed registration or the death of the loop.
THEOREM TimersImplementService == Spec => ImplementsService
<1>1. Init => Service!ServiceInit
  BY DEF Init, Service!ServiceInit, Armed
<1>2. TimersInv => TypeOK
  BY DEF TimersInv
<1>3. TypeOK /\ [Next]_vars => [Service!ServiceNext]_(Service!serviceVars)
  BY StepImplementsService
<1>4. QED
  BY <1>1, <1>2, <1>3, TimersInvariant, PTL DEF Spec, ImplementsService, Service!ServiceSpec
=============================================================================
