------------------------- MODULE AsyncRwLockProofs --------------------------
(***************************************************************************)
(* For every finite set of tasks and every choice of writers among them:   *)
(* AsyncRwLock keeps writers apart from everybody else, parks nobody who   *)
(* could run, and serves readers and writers in the order of their arrival.*)
(***************************************************************************)
EXTENDS AsyncRwLock, ParkBaseProofs, FiniteSetTheorems

-----------------------------------------------------------------------------
(* How many waiters promoteLocked takes.                                   *)

\* A non-empty set of naturals has a least element.
LEMMA LeastNatural ==
    ASSUME NEW S, S \subseteq Nat, S # {}
    PROVE  \E n \in S : \A m \in S : n <= m
<1>1. PICK n \in S : \A m \in S : ~(<<m, n>> \in OpToRel(<, Nat))
  BY NatLessThanWellFounded, WFMin
<1>2. \A m \in S : ~(m < n)
  BY <1>1 DEF OpToRel
<1>3. QED
  BY <1>2

\* The readers at the head of a list end at its first writer.
LEMMA LeadingReadersEnd ==
    ASSUME NEW w \in Seq(Task)
    PROVE  /\ LeadingReaders(w) \in 0..Len(w)
           /\ \A i \in 1..LeadingReaders(w) : w[i] \notin Writer
           /\ LeadingReaders(w) < Len(w) => w[LeadingReaders(w)+1] \in Writer
<1>. DEFINE P(n) == /\ \A i \in 1..n : w[i] \notin Writer
                    /\ n < Len(w) => w[n+1] \in Writer
<1>1. Len(w) \in Nat
  BY LenProperties
<1>2. \E n \in 0..Len(w) : P(n)
  <2>. DEFINE W == {i \in 1..Len(w) : w[i] \in Writer}
  <2>1. CASE W = {}
    <3>1. Len(w) \in 0..Len(w) /\ P(Len(w))
      BY <1>1, <2>1
    <3>2. QED
      BY <3>1
  <2>2. CASE W # {}
    <3>1. PICK k \in W : \A m \in W : k <= m
      <4>1. W \subseteq Nat
        BY <1>1
      <4>. HIDE DEF W
      <4>2. QED
        BY <2>2, <4>1, LeastNatural
    <3>2. k-1 \in 0..Len(w) /\ P(k-1)
      BY <1>1, <3>1
    <3>3. QED
      BY <3>2
  <2>3. QED
    BY <2>1, <2>2
<1>3. LeadingReaders(w) = CHOOSE n \in 0..Len(w) : P(n)
  BY DEF LeadingReaders
<1>4. LeadingReaders(w) \in 0..Len(w) /\ P(LeadingReaders(w))
  <2>. HIDE DEF P
  <2>1. QED
    BY <1>2, <1>3
<1>5. QED
  BY <1>4

\* promoteLocked takes one writer of a free lock, or the readers up to the
\* first writer of a lock that no writer has, and nobody otherwise.
LEMMA PromotableCases ==
    ASSUME NEW w \in Seq(Task), NEW s \in Int
    PROVE  LET n == Promotable(w, s) IN
           /\ n \in 0..Len(w)
           /\ n = 0 /\ w # <<>> => IF w[1] \in Writer THEN s # 0 ELSE s < 0
           /\ n > 0 /\ w[1] \in Writer => n = 1 /\ s = 0
           /\ n > 0 /\ w[1] \notin Writer =>
                 /\ s >= 0 /\ \A i \in 1..n : w[i] \notin Writer
                 /\ n < Len(w) => w[n+1] \in Writer
<1>1. CASE w = <<>>
  BY <1>1, LenProperties DEF Promotable
<1>2. CASE w # <<>>
  <2>1. Len(w) \in Nat \ {0} /\ Head(w) = w[1]
    BY <1>2, LenProperties, EmptySeq
  <2>2. CASE w[1] \in Writer
    BY <1>2, <2>1, <2>2 DEF Promotable
  <2>3. CASE w[1] \notin Writer
    <3>1. LeadingReaders(w) # 0
      BY <2>1, <2>3, LeadingReadersEnd
    <3>2. QED
      BY <1>2, <2>1, <2>3, <3>1, LeadingReadersEnd DEF Promotable
  <2>4. QED
    BY <2>2, <2>3
<1>3. QED
  BY <1>1, <1>2

-----------------------------------------------------------------------------
(* What promoteLocked does to the list and to the owners.  It starts from  *)
(* phases ph, a list w and a state s in which its caller has already left  *)
(* the list or the lock.                                                   *)

\* The state s counts the owners.
OwnersIn(ph) == {t \in Task : ph[t] \in Owning}
Counted(ph, s) ==
    IF s = -1 THEN \E w \in Writer : OwnersIn(ph) = {w}
    ELSE OwnersIn(ph) \cap Writer = {} /\ s = Cardinality(OwnersIn(ph))

\* Owners can be counted.
LEMMA OwnersInFinite ==
    ASSUME NEW ph
    PROVE  /\ IsFiniteSet(OwnersIn(ph)) /\ Cardinality(OwnersIn(ph)) \in Nat
           /\ Cardinality(OwnersIn(ph)) <= Cardinality(Task) /\ Cardinality(Task) \in Nat
<1>1. OwnersIn(ph) \in SUBSET Task
  BY DEF OwnersIn
<1>2. QED
  BY <1>1, TaskAssumption, FS_Subset, FS_CardinalityType

\* The first n entries of a list without repetitions are n tasks.
LEMMA FirstTasks ==
    ASSUME NEW w \in Seq(Task), NEW n \in 0..Len(w),
           \A i, j \in DOMAIN w : w[i] = w[j] => i = j
    PROVE  LET T == {w[i] : i \in 1..n} IN IsFiniteSet(T) /\ Cardinality(T) = n
<1>. DEFINE T == {w[i] : i \in 1..n}
            f == [i \in 1..n |-> w[i]]
<1>1. Len(w) \in Nat /\ DOMAIN w = 1..Len(w) /\ n \in Nat /\ n <= Len(w)
  BY LenProperties
<1>2. f \in Bijection(1..n, T)
  BY <1>1 DEF Bijection, Injection, Surjection, IsInjective
<1>3. ExistsBijection(1..n, T)
  BY <1>2 DEF ExistsBijection
<1>. HIDE DEF T, f
<1>4. IsFiniteSet(1..n) /\ Cardinality(1..n) = n
  BY <1>1, FS_Interval
<1>5. IsFiniteSet(T) /\ Cardinality(T) = n
  BY <1>3, <1>4, FS_Bijection
<1>6. QED
  BY <1>5 DEF T

\* What is left of a sequence without its first n entries.
LEMMA DropFirst ==
    ASSUME NEW S, NEW w \in Seq(S), NEW n \in 0..Len(w)
    PROVE  LET v == SubSeq(w, n+1, Len(w)) IN
           /\ v \in Seq(S)
           /\ DOMAIN v = 1..(Len(w) - n)
           /\ \A i \in 1..(Len(w) - n) : v[i] = w[n+i]
<1>. DEFINE v == SubSeq(w, n+1, Len(w))
<1>1. PICK L \in Nat : L = Len(w)
  BY LenProperties
<1>2. n \in Nat /\ n <= L
  BY <1>1
<1>3. \A i \in (n+1)..L : w[i] \in S
  BY <1>1, <1>2, ElementOfSeq
<1>4. /\ v \in Seq(S)
      /\ Len(v) = IF n+1 <= L THEN L-(n+1)+1 ELSE 0
      /\ \A i \in 1..(L-(n+1)+1) : v[i] = w[(n+1)+i-1]
  BY <1>1, <1>2, <1>3, SubSeqProperties
<1>. HIDE DEF v
<1>5. Len(v) = L - n
  BY <1>2, <1>4
<1>6. DOMAIN v = 1..(L - n)
  BY <1>4, <1>5, LenProperties
<1>7. ASSUME NEW i \in 1..(L - n)
      PROVE  v[i] = w[n+i]
  <2>1. i \in 1..(L-(n+1)+1) /\ (n+1)+i-1 = n+i
    BY <1>2
  <2>2. v[i] = w[(n+1)+i-1]
    BY <1>4, <2>1
  <2>3. QED
    BY <2>1, <2>2
<1>8. v \in Seq(S) /\ DOMAIN v = 1..(Len(w) - n) /\ \A i \in 1..(Len(w) - n) : v[i] = w[n+i]
  BY <1>1, <1>4, <1>6, <1>7
<1>9. QED
  BY <1>8 DEF v

\* The list without its first n entries is the list of those still queued.
LEMMA PromoteKeepsQueue ==
    ASSUME NEW ph \in [Task -> Phase], NEW w \in Seq(Task), Listed(ph, w),
           NEW L \in Nat, DOMAIN w = 1..L, NEW n \in 0..L,
           waiters' \in Seq(Task), DOMAIN waiters' = 1..(L - n),
           \A i \in 1..(L - n) : waiters'[i] = w[n+i],
           phase' = [t \in Task |-> IF \E i \in 1..n : w[i] = t THEN "granted" ELSE ph[t]]
    PROVE  phase' \in [Task -> Phase] /\ QueueOK'
<1>1. n \in Nat /\ n <= L /\ \A i \in 1..L : w[i] \in Task
  BY ElementOfSeq, LenProperties
<1>2. phase' \in [Task -> Phase]
  BY DEF Phase
<1>3. ASSUME NEW i \in DOMAIN waiters'
      PROVE  phase'[waiters'[i]] = "queued"
  <2>1. n+i \in 1..L /\ n+i \notin 1..n /\ waiters'[i] = w[n+i]
    BY <1>1
  <2>2. \A j \in 1..n : j \in 1..L /\ j # n+i
    BY <1>1, <2>1
  <2>3. ~ \E j \in 1..n : w[j] = w[n+i]
    BY <2>1, <2>2 DEF Listed
  <2>4. QED
    BY <1>1, <2>1, <2>3 DEF Listed
<1>4. ASSUME NEW t \in Task, phase'[t] = "queued"
      PROVE  \E i \in DOMAIN waiters' : waiters'[i] = t
  <2>1. ph[t] = "queued" /\ ~ \E i \in 1..n : w[i] = t
    BY <1>4
  <2>2. PICK j \in 1..L : w[j] = t
    BY <2>1 DEF Listed
  <2>3. j - n \in 1..(L - n) /\ n + (j - n) = j
    BY <1>1, <2>1, <2>2
  <2>4. QED
    BY <2>2, <2>3
<1>5. ASSUME NEW i \in DOMAIN waiters', NEW j \in DOMAIN waiters', waiters'[i] = waiters'[j]
      PROVE  i = j
  <2>1. n+i \in 1..L /\ n+j \in 1..L
    BY <1>1
  <2>2. w[n+i] = w[n+j]
    BY <1>5
  <2>3. n+i = n+j
    BY <2>1, <2>2 DEF Listed
  <2>4. QED
    BY <1>1, <2>3
<1>6. QED
  BY <1>2, <1>3, <1>4, <1>5 DEF QueueOK

\* promoteLocked leaves the invariant behind.
LEMMA PromoteKeepsInv ==
    ASSUME NEW ph \in [Task -> Phase], NEW w \in Seq(Task), NEW s \in Int, s >= -1,
           Listed(ph, w), Counted(ph, s), Promote(ph, w, s), stop' \in [Task -> BOOLEAN]
    PROVE  RwInv'
<1>1. PICK L \in Nat : L = Len(w) /\ DOMAIN w = 1..L /\ \A i \in 1..L : w[i] \in Task
  BY LenProperties, ElementOfSeq
<1>2. PICK n : n = Promotable(w, s)
  OBVIOUS
<1>3. /\ waiters' = SubSeq(w, n+1, Len(w))
      /\ phase' = [t \in Task |-> IF \E i \in 1..n : w[i] = t THEN "granted" ELSE ph[t]]
      /\ state' = IF n > 0 /\ Head(w) \in Writer THEN -1 ELSE s + n
  BY <1>2 DEF Promote
<1>4. /\ n \in 0..L /\ n \in Nat
      /\ n = 0 /\ w # <<>> => IF w[1] \in Writer THEN s # 0 ELSE s < 0
      /\ n > 0 /\ w[1] \in Writer => n = 1 /\ s = 0
      /\ n > 0 /\ w[1] \notin Writer =>
            s >= 0 /\ (\A i \in 1..n : w[i] \notin Writer) /\ (n < L => w[n+1] \in Writer)
  <2>1. /\ n \in 0..Len(w)
        /\ n = 0 /\ w # <<>> => IF w[1] \in Writer THEN s # 0 ELSE s < 0
        /\ n > 0 /\ w[1] \in Writer => n = 1 /\ s = 0
        /\ n > 0 /\ w[1] \notin Writer =>
              s >= 0 /\ (\A i \in 1..n : w[i] \notin Writer) /\ (n < Len(w) => w[n+1] \in Writer)
    BY <1>2, PromotableCases, Zenon
  <2>2. QED
    BY <1>1, <2>1
<1>5. /\ waiters' \in Seq(Task) /\ DOMAIN waiters' = 1..(L - n)
      /\ \A i \in 1..(L - n) : waiters'[i] = w[n+i]
  <2>1. n \in 0..Len(w)
    BY <1>1, <1>4
  <2>2. /\ waiters' \in Seq(Task) /\ DOMAIN waiters' = 1..(Len(w) - n)
        /\ \A i \in 1..(Len(w) - n) : waiters'[i] = w[n+i]
    BY <1>3, <2>1, DropFirst, Zenon
  <2>3. QED
    BY <1>1, <2>2
<1>6. phase' \in [Task -> Phase] /\ QueueOK'
  <2>1. DOMAIN w = 1..L /\ n \in 0..L
    BY <1>1, <1>4
  <2>2. phase' = [t \in Task |-> IF \E i \in 1..n : w[i] = t THEN "granted" ELSE ph[t]]
    BY <1>3
  <2>3. QED
    BY <2>1, <2>2, <1>5, PromoteKeepsQueue, Zenon
<1>7. w # <<>> => Head(w) = w[1] /\ L > 0
  BY <1>1, EmptySeq
<1>8. n > 0 => w # <<>>
  BY <1>1, <1>4
<1>. DEFINE T == {w[i] : i \in 1..n}
<1>9. Owners' = OwnersIn(ph) \cup T /\ OwnersIn(ph) \cap T = {}
  <2>1. \A i \in 1..n : w[i] \in Task /\ ph[w[i]] = "queued"
    BY <1>1, <1>4 DEF Listed
  <2>2. \A t \in Task : phase'[t] = IF t \in T THEN "granted" ELSE ph[t]
    BY <1>3
  <2>3. QED
    BY <2>1, <2>2 DEF Owners, OwnersIn, Owning
<1>10. IsFiniteSet(T) /\ Cardinality(T) = n
  BY <1>1, <1>4, FirstTasks DEF Listed
<1>11. /\ IsFiniteSet(OwnersIn(ph)) /\ Cardinality(OwnersIn(ph)) \in Nat
       /\ Cardinality(OwnersIn(phase')) <= Cardinality(Task)
       /\ Cardinality(OwnersIn(phase')) \in Nat /\ Cardinality(Task) \in Nat
       /\ Owners' = OwnersIn(phase')
  BY OwnersInFinite DEF Owners, OwnersIn
<1>12. StateCountsOwners'
  <2>1. CASE n = 0
    <3>1. T = {} /\ state' = s
      BY <1>3, <2>1
    <3>2. Owners' = OwnersIn(ph)
      BY <1>9, <3>1
    <3>3. QED
      BY <3>1, <3>2 DEF StateCountsOwners, Counted
  <2>2. CASE n > 0 /\ w[1] \in Writer
    <3>1. T = {w[1]} /\ state' = -1
      BY <1>3, <1>4, <1>7, <1>8, <2>2
    <3>2. OwnersIn(ph) = {}
      BY <1>4, <1>11, <2>2, FS_EmptySet DEF Counted
    <3>3. QED
      BY <1>9, <2>2, <3>1, <3>2 DEF StateCountsOwners
  <2>3. CASE n > 0 /\ w[1] \notin Writer
    <3>1. state' = s + n /\ state' # -1 /\ s # -1
      BY <1>3, <1>4, <1>7, <1>8, <2>3
    <3>2. T \cap Writer = {}
      BY <1>4, <2>3
    <3>3. Cardinality(OwnersIn(ph) \cup T) = s + n
      <4>1. Cardinality(OwnersIn(ph)) = s
        BY <3>1 DEF Counted
      <4>. HIDE DEF T
      <4>2. Cardinality(OwnersIn(ph) \cup T) = s + n - Cardinality({})
        BY <1>9, <1>10, <1>11, <4>1, FS_Union
      <4>3. QED
        BY <1>4, <4>2, FS_EmptySet
    <3>4. QED
      BY <1>9, <3>1, <3>2, <3>3 DEF StateCountsOwners, Counted
  <2>4. QED
    BY <1>4, <2>1, <2>2, <2>3
<1>13. state' \in -1..Cardinality(Task)
  BY <1>11, <1>12 DEF StateCountsOwners
<1>14. HeadIsBlocked'
  <2>. SUFFICES ASSUME waiters' # <<>>
                PROVE  IF Head(waiters') \in Writer THEN state' # 0 ELSE state' = -1
    BY DEF HeadIsBlocked
  <2>1. n < L /\ Head(waiters') = w[n+1]
    <3>1. Head(waiters') = waiters'[1] /\ 1 \in DOMAIN waiters'
      <4>1. waiters' \in Seq(Task)
        BY <1>5
      <4>2. QED
        BY <4>1, EmptySeq, LenProperties, HeadTailProperties
    <3>2. 1 \in 1..(L - n)
      BY <1>5, <3>1
    <3>3. waiters'[1] = w[n+1]
      BY <1>5, <3>2
    <3>4. QED
      BY <1>4, <3>1, <3>2, <3>3
  <2>2. w # <<>>
    BY <1>1, <1>4, <2>1
  <2>3. CASE n = 0
    BY <1>3, <1>4, <2>1, <2>2, <2>3
  <2>4. CASE n > 0
    BY <1>3, <1>4, <1>7, <2>1, <2>2, <2>4
  <2>5. QED
    BY <1>4, <2>3, <2>4
<1>15. QED
  BY <1>5, <1>6, <1>12, <1>13, <1>14 DEF RwInv, TypeOK, ParkTypeOK

-----------------------------------------------------------------------------
(* Each kind of step keeps the inductive invariant.                        *)

\* The invariant in the terms of promoteLocked's arguments.
LEMMA InvParts ==
    ASSUME RwInv
    PROVE  /\ phase \in [Task -> Phase] /\ waiters \in Seq(Task) /\ stop \in [Task -> BOOLEAN]
           /\ Listed(phase, waiters) /\ Counted(phase, state) /\ Owners = OwnersIn(phase)
           /\ state \in Int /\ state >= -1 /\ Cardinality(Task) \in Nat
<1>1. Cardinality(Task) \in Nat
  BY OwnersInFinite
<1>2. QED
  BY <1>1 DEF RwInv, TypeOK, ParkTypeOK, QueueOK, Listed, StateCountsOwners, Counted, Owners, OwnersIn

\* A step that leaves list, state and ownership alone.
LEMMA QuietKeepsInv ==
    ASSUME RwInv, NEW t \in Task, NEW p \in Phase \ {"queued"}, Go(t, p),
           phase[t] # "queued", UNCHANGED <<waiters, state>>,
           stop' \in [Task -> BOOLEAN], p \in Owning <=> phase[t] \in Owning
    PROVE  RwInv'
<1>. USE DEF RwInv, TypeOK, ParkTypeOK
<1>1. phase' \in [Task -> Phase] /\ phase'[t] = p
      /\ \A u \in Task : u # t => phase'[u] = phase[u]
  BY DEF Go
<1>2. QueueOK'
  BY <1>1, SameQueue DEF OthersStay
<1>3. Owners' = Owners
  BY <1>1 DEF Owners
<1>4. StateCountsOwners' /\ HeadIsBlocked'
  BY <1>3 DEF StateCountsOwners, HeadIsBlocked
<1>5. QED
  BY <1>1, <1>2, <1>4

\* Taking a lock that is free for this task.
LEMMA TryNowKeepsInv ==
    ASSUME RwInv, NEW t \in Task, phase[t] \in {"idle", "armed"}, TryNow(t)
    PROVE  RwInv'
<1>1. phase \in [Task -> Phase] /\ waiters \in Seq(Task) /\ stop \in [Task -> BOOLEAN]
      /\ state \in Int /\ Counted(phase, state) /\ Owners = OwnersIn(phase)
  BY InvParts
<1>2. phase' \in [Task -> Phase] /\ phase'[t] = "holding"
      /\ \A u \in Task : u # t => phase'[u] = phase[u]
  BY <1>1 DEF TryNow, Go, Phase
<1>3. QueueOK'
  BY <1>2, SameQueue DEF RwInv, TypeOK, TryNow, OthersStay
<1>4. Owners' = Owners \cup {t} /\ t \notin Owners
  BY <1>2 DEF Owners, Owning
<1>5. /\ IsFiniteSet(Owners) /\ Cardinality(Owners) \in Nat /\ Cardinality(Task) \in Nat
      /\ Cardinality(Owners') <= Cardinality(Task) /\ Cardinality(Owners') \in Nat
  <2>1. Owners = OwnersIn(phase) /\ Owners' = OwnersIn(phase')
    BY DEF Owners, OwnersIn
  <2>2. QED
    BY <2>1, OwnersInFinite
<1>6. StateCountsOwners'
  <2>1. CASE t \in Writer
    <3>1. state = 0 /\ state' = -1
      BY <2>1 DEF TryNow, CanEnter
    <3>2. Owners = {}
      BY <1>1, <1>5, <3>1, FS_EmptySet DEF Counted
    <3>3. QED
      BY <1>4, <2>1, <3>1, <3>2 DEF StateCountsOwners
  <2>2. CASE t \notin Writer
    <3>1. state >= 0 /\ state' = state + 1
      BY <2>2 DEF TryNow, CanEnter
    <3>2. Owners \cap Writer = {} /\ state = Cardinality(Owners)
      BY <1>1, <3>1 DEF Counted
    <3>3. Cardinality(Owners') = Cardinality(Owners) + 1
      BY <1>4, <1>5, FS_AddElement
    <3>4. QED
      BY <1>1, <1>4, <2>2, <3>1, <3>2, <3>3 DEF StateCountsOwners
  <2>3. QED
    BY <2>1, <2>2
<1>7. state' \in -1..Cardinality(Task)
  BY <1>5, <1>6 DEF StateCountsOwners
<1>8. HeadIsBlocked'
  BY DEF HeadIsBlocked, TryNow, CanEnter
<1>9. QED
  BY <1>1, <1>2, <1>3, <1>6, <1>7, <1>8 DEF RwInv, TypeOK, ParkTypeOK, TryNow

\* Queueing up behind others, or at a lock that is taken.
LEMMA EnqueueKeepsInv ==
    ASSUME RwInv, NEW t \in Task, phase[t] = "armed", ~CanEnter(t), Go(t, "queued"),
           waiters' = Append(waiters, t), UNCHANGED <<stop, state>>
    PROVE  RwInv'
<1>1. phase' \in [Task -> Phase] /\ phase'[t] = "queued"
      /\ \A u \in Task : u # t => phase'[u] = phase[u]
  BY InvParts DEF Go, Phase
<1>2. waiters' \in Seq(Task) /\ QueueOK'
  BY <1>1, PushKeepsQueue DEF RwInv, TypeOK, OthersStay
<1>3. Owners' = Owners
  BY <1>1 DEF Owners, Owning
<1>4. StateCountsOwners'
  BY <1>3 DEF RwInv, StateCountsOwners
<1>5. HeadIsBlocked'
  <2>. state \in Int /\ state >= -1 /\ waiters \in Seq(Task)
    BY InvParts
  <2>1. CASE waiters = <<>>
    <3>1. Head(waiters') = t
      BY <2>1
    <3>2. IF t \in Writer THEN state # 0 ELSE state = -1
      BY <2>1 DEF CanEnter
    <3>3. QED
      BY <3>1, <3>2 DEF HeadIsBlocked
  <2>2. CASE waiters # <<>>
    <3>1. Head(waiters') = Head(waiters)
      BY <2>2, AppendProperties, LenProperties, EmptySeq
    <3>2. QED
      BY <2>2, <3>1 DEF HeadIsBlocked, RwInv
  <2>3. QED
    BY <2>1, <2>2
<1>6. QED
  BY <1>1, <1>2, <1>4, <1>5 DEF RwInv, TypeOK, ParkTypeOK

\* A queued task leaves, cancelled or destroyed, and fixupLocked promotes.
LEMMA LeaveKeepsInv ==
    ASSUME RwInv, NEW t \in Task, phase[t] = "queued", NEW p \in {"withdrawn", "idle"},
           Leave(t, p), stop' \in [Task -> BOOLEAN]
    PROVE  RwInv'
<1>1. PICK i \in DOMAIN waiters :
         waiters[i] = t /\ Promote([phase EXCEPT ![t] = p], RemoveAt(waiters, i), state)
  BY DEF Leave
<1>2. PICK ph : ph = [phase EXCEPT ![t] = p]
  OBVIOUS
<1>3. ph \in [Task -> Phase] /\ ph[t] = p /\ \A u \in Task : u # t => ph[u] = phase[u]
  BY <1>2, InvParts DEF Phase
<1>4. RemoveAt(waiters, i) \in Seq(Task) /\ Listed(ph, RemoveAt(waiters, i))
  BY <1>1, <1>3, InvParts, RemoveKeepsList
<1>5. OwnersIn(ph) = OwnersIn(phase)
  BY <1>3 DEF OwnersIn, Owning
<1>6. Counted(ph, state)
  BY <1>5, InvParts DEF Counted
<1>7. QED
  BY <1>1, <1>2, <1>3, <1>4, <1>6, InvParts, PromoteKeepsInv

\* releaseReader, releaseWriter, and revokeGrant on behalf of a destroyed task.
LEMMA ReleaseKeepsInv ==
    ASSUME RwInv, NEW t \in Task, phase[t] \in {"holding", "revoking"}, Release(t),
           stop' = [stop EXCEPT ![t] = FALSE]
    PROVE  RwInv'
<1>1. PICK ph : ph = [phase EXCEPT ![t] = "idle"]
  OBVIOUS
<1>2. PICK s : s = IF t \in Writer THEN 0 ELSE state - 1
  OBVIOUS
<1>3. IF s = 0 THEN Promote(ph, waiters, s) ELSE NoPromote(ph, waiters, s)
  BY <1>1, <1>2 DEF Release
<1>4. ph \in [Task -> Phase] /\ ph[t] = "idle" /\ \A u \in Task : u # t => ph[u] = phase[u]
  BY <1>1, InvParts DEF Phase
<1>5. Listed(ph, waiters)
  <2>1. \A i \in DOMAIN waiters : waiters[i] \in Task
    BY InvParts, ElementOfSeq, LenProperties
  <2>2. QED
    BY <1>4, <2>1, InvParts DEF Listed
<1>6. t \in OwnersIn(phase) /\ OwnersIn(ph) = OwnersIn(phase) \ {t}
  BY <1>4 DEF OwnersIn, Owning
<1>7. /\ IsFiniteSet(OwnersIn(phase)) /\ Cardinality(OwnersIn(phase)) \in Nat
      /\ Cardinality(OwnersIn(ph)) \in Nat
      /\ Cardinality(OwnersIn(ph)) <= Cardinality(Task) /\ Cardinality(Task) \in Nat
  BY OwnersInFinite
<1>8. Cardinality(OwnersIn(ph)) = Cardinality(OwnersIn(phase)) - 1
  BY <1>6, <1>7, FS_RemoveElement
<1>9. s = Cardinality(OwnersIn(ph)) /\ OwnersIn(ph) \cap Writer = {} /\ (s # 0 => state > 0)
  <2>1. CASE t \in Writer
    <3>1. OwnersIn(phase) = {t}
      BY <1>6, <2>1, InvParts DEF Counted
    <3>2. OwnersIn(ph) = {}
      BY <1>6, <3>1
    <3>3. QED
      BY <1>2, <2>1, <3>2, FS_EmptySet
  <2>2. CASE t \notin Writer
    <3>1. state # -1
      BY <1>6, <2>2, InvParts DEF Counted
    <3>2. OwnersIn(phase) \cap Writer = {} /\ state = Cardinality(OwnersIn(phase))
      BY <3>1, InvParts DEF Counted
    <3>3. QED
      BY <1>2, <1>6, <1>7, <1>8, <2>2, <3>2
  <2>3. QED
    BY <2>1, <2>2
<1>10. s \in Nat /\ Counted(ph, s)
  BY <1>7, <1>9 DEF Counted
<1>11. stop' \in [Task -> BOOLEAN]
  BY InvParts
<1>12. CASE s = 0
  <2>1. s \in Int /\ s >= -1 /\ Promote(ph, waiters, s) /\ waiters \in Seq(Task)
    BY <1>3, <1>10, <1>12, InvParts
  <2>2. QED
    BY <1>4, <1>5, <1>10, <1>11, <2>1, PromoteKeepsInv
<1>13. CASE s # 0
  <2>1. waiters' = waiters /\ phase' = ph /\ state' = s
    BY <1>3, <1>13 DEF NoPromote
  <2>2. QueueOK' /\ ParkTypeOK'
    BY <1>4, <1>5, <1>11, <2>1, InvParts DEF QueueOK, Listed, ParkTypeOK
  <2>3. StateCountsOwners'
    BY <1>10, <2>1 DEF StateCountsOwners, Counted, Owners, OwnersIn
  <2>4. HeadIsBlocked'
    BY <1>9, <1>13, <2>1 DEF HeadIsBlocked, RwInv
  <2>5. state' \in -1..Cardinality(Task)
    BY <1>7, <1>9, <1>10, <2>1
  <2>6. QED
    BY <2>2, <2>3, <2>4, <2>5 DEF RwInv, TypeOK
<1>14. QED
  BY <1>12, <1>13

-----------------------------------------------------------------------------
\* The invariant is inductive: one step per action.
LEMMA StepKeepsInv ==
    ASSUME RwInv, [Next]_vars
    PROVE  RwInv'
<1>1. CASE UNCHANGED vars
  BY <1>1 DEF vars, RwInv, TypeOK, ParkTypeOK, QueueOK, StateCountsOwners, HeadIsBlocked, Owners
<1>2. ASSUME NEW t \in Task, Step(t)
      PROVE  RwInv'
  <2>. stop \in [Task -> BOOLEAN] /\ phase \in [Task -> Phase]
    BY InvParts
  <2>1. CASE Lock(t)
    <3>1. CASE TryNow(t)
      BY <2>1, <3>1, TryNowKeepsInv DEF Lock
    <3>2. CASE Ends(t) /\ UNCHANGED <<waiters, state>>
      BY <2>1, <3>2, QuietKeepsInv DEF Lock, Ends, Owning, Phase
    <3>3. CASE Go(t, "arming") /\ UNCHANGED <<waiters, stop, state>>
      BY <2>1, <3>3, QuietKeepsInv DEF Lock, Owning, Phase
    <3>4. QED
      BY <2>1, <3>1, <3>2, <3>3 DEF Lock
  <2>2. CASE Park(t)
    BY <2>2, TryNowKeepsInv, EnqueueKeepsInv DEF Park
  <2>3. CASE CancelQueued(t)
    BY <2>3, LeaveKeepsInv DEF CancelQueued
  <2>4. CASE AbandonQueued(t)
    BY <2>4, LeaveKeepsInv DEF AbandonQueued
  <2>5. CASE Unlock(t)
    BY <2>5, ReleaseKeepsInv DEF Unlock
  <2>6. CASE RevokeGrant(t)
    BY <2>6, ReleaseKeepsInv DEF RevokeGrant
  <2>7. CASE ParkStep(t) /\ UNCHANGED state
    <3>1. CASE Arm(t)
      BY <2>7, <3>1, QuietKeepsInv DEF Arm, Owning, Phase
    <3>2. CASE RequestStop(t)
      BY <2>7, <3>2 DEF RequestStop, RwInv, TypeOK, ParkTypeOK, QueueOK,
                        StateCountsOwners, HeadIsBlocked, Owners
    <3>3. CASE CancelNote(t)
      BY <2>7, <3>3, QuietKeepsInv DEF CancelNote, Owning, Phase
    <3>4. CASE ParkCancelled(t)
      BY <2>7, <3>4, QuietKeepsInv DEF ParkCancelled, Ends, Owning, Phase
    <3>5. CASE WakeCancelled(t)
      BY <2>7, <3>5, QuietKeepsInv DEF WakeCancelled, Ends, Owning, Phase
    <3>6. CASE WakeGranted(t)
      BY <2>7, <3>6, QuietKeepsInv DEF WakeGranted, Owning, Phase
    <3>7. CASE AbandonGranted(t)
      BY <2>7, <3>7, QuietKeepsInv DEF AbandonGranted, Owning, Phase
    <3>8. QED
      BY <2>7, <3>1, <3>2, <3>3, <3>4, <3>5, <3>6, <3>7 DEF ParkStep
  <2>8. QED
    BY <1>2, <2>1, <2>2, <2>3, <2>4, <2>5, <2>6, <2>7 DEF Step
<1>3. QED
  BY <1>1, <1>2 DEF Next

\* The inductive invariant of AsyncRwLock holds in every reachable state.
THEOREM RwLockInvariant == Spec => []RwInv
<1>1. Init => RwInv
  <2>. SUFFICES ASSUME Init PROVE RwInv
    OBVIOUS
  <2>1. ParkTypeOK /\ QueueOK
    BY InitQueue DEF Init
  <2>2. Owners = {} /\ state = 0 /\ waiters = <<>>
    BY DEF Init, ParkInit, Owners, Owning
  <2>3. StateCountsOwners
    BY <2>2, FS_EmptySet DEF StateCountsOwners
  <2>4. state \in -1..Cardinality(Task)
    BY <2>2, TaskAssumption, FS_CardinalityType
  <2>5. QED
    BY <2>1, <2>2, <2>3, <2>4 DEF RwInv, TypeOK, HeadIsBlocked
<1>2. RwInv /\ [Next]_vars => RwInv'
  BY StepKeepsInv
<1>3. QED
  BY <1>1, <1>2, PTL DEF Spec

\* lockExclusive() is exclusive: a writer that owns the lock is its only owner,
\* also while its grant is in flight or being revoked.
WriterAlone == \A t, u \in Owners : t \in Writer => u = t

\* Neither a reader nor a second writer owns the lock beside a writer.
THEOREM RwLockExcludes == Spec => []WriterAlone
<1>1. RwInv => WriterAlone
  BY DEF RwInv, StateCountsOwners, WriterAlone
<1>2. QED
  BY <1>1, RwLockInvariant, PTL

\* promoteLocked, run by whoever leaves the lock or the list, leaves nobody at
\* the head of the list who could run.
THEOREM RwLockParksNobodyIdly == Spec => []HeadIsBlocked
<1>1. RwInv => HeadIsBlocked
  BY DEF RwInv
<1>2. QED
  BY <1>1, RwLockInvariant, PTL

-----------------------------------------------------------------------------
(* Order of service.                                                       *)

\* promoteLocked takes a task only with all that stand before it.
LEMMA PromoteTakesInOrder ==
    ASSUME NEW ph \in [Task -> Phase], NEW w \in Seq(Task), NEW s \in Int,
           Listed(ph, w), Promote(ph, w, s),
           NEW j \in DOMAIN w, phase'[w[j]] = "queued",
           NEW u \in Owners', u \notin OwnersIn(ph)
    PROVE  \E l \in 1..(j-1) : w[l] = u
<1>1. PICK n : n = Promotable(w, s)
  OBVIOUS
<1>2. phase' = [t \in Task |-> IF \E i \in 1..n : w[i] = t THEN "granted" ELSE ph[t]]
  BY <1>1 DEF Promote
<1>3. n \in 0..Len(w)
  BY <1>1, PromotableCases, Zenon
<1>4. Len(w) \in Nat /\ n \in Nat /\ j \in Nat /\ w[j] \in Task
  BY <1>3, LenProperties, ElementOfSeq
<1>5. PICK l \in 1..n : w[l] = u
  BY <1>2 DEF Owners, OwnersIn
<1>6. j \notin 1..n
  BY <1>2, <1>4
<1>7. l \in 1..(j-1)
  <2>1. j >= 1
    BY LenProperties
  <2>2. QED
    BY <1>4, <1>6, <2>1
<1>8. QED
  BY <1>5, <1>7

\* Positions in a list from which one entry was removed.
LEMMA RemovedPositions ==
    ASSUME NEW w \in Seq(Task), NEW k \in DOMAIN w, NEW i \in DOMAIN w, i # k
    PROVE  \E j \in DOMAIN RemoveAt(w, k) :
              /\ RemoveAt(w, k)[j] = w[i]
              /\ \A l \in 1..(j-1) : \E m \in 1..(i-1) : RemoveAt(w, k)[l] = w[m]
<1>1. PICK L \in Nat : L = Len(w) /\ DOMAIN w = 1..L
  BY LenProperties
<1>2. PICK v : v = RemoveAt(w, k)
  OBVIOUS
<1>3. /\ v \in Seq(Task) /\ Len(v) = L - 1
      /\ \A l \in 1..(k-1) : v[l] = w[l]
      /\ \A l \in k..(L-1) : v[l] = w[l+1]
  BY <1>1, <1>2, RemoveAtProperties
<1>4. DOMAIN v = 1..(L-1)
  BY <1>3, LenProperties
<1>5. k \in 1..L /\ i \in 1..L
  BY <1>1
<1>6. CASE i < k
  <2>1. i \in DOMAIN v /\ v[i] = w[i]
    BY <1>3, <1>4, <1>5, <1>6
  <2>2. \A l \in 1..(i-1) : v[l] = w[l]
    BY <1>3, <1>5, <1>6
  <2>3. QED
    BY <1>2, <2>1, <2>2
<1>7. CASE i > k
  <2>1. i-1 \in k..(L-1) /\ (i-1)+1 = i
    BY <1>5, <1>7
  <2>2. i-1 \in DOMAIN v /\ v[i-1] = w[i]
    BY <1>3, <1>4, <1>5, <2>1
  <2>3. ASSUME NEW l \in 1..((i-1)-1)
        PROVE  \E m \in 1..(i-1) : v[l] = w[m]
    <3>1. CASE l < k
      <4>1. l \in 1..(i-1) /\ l \in 1..(k-1)
        BY <1>5, <3>1
      <4>2. QED
        BY <1>3, <4>1
    <3>2. CASE ~(l < k)
      <4>1. l+1 \in 1..(i-1) /\ l \in k..(L-1)
        BY <1>5, <3>2
      <4>2. QED
        BY <1>3, <4>1
    <3>3. QED
      BY <3>1, <3>2
  <2>4. QED
    BY <1>2, <2>2, <2>3
<1>8. QED
  BY <1>5, <1>6, <1>7

\* No step lets a task overtake one that stays queued.
LEMMA StepKeepsOrder ==
    ASSUME RwInv, [Next]_vars
    PROVE  NobodyOvertakes
<1>. SUFFICES ASSUME NEW i \in DOMAIN waiters, phase'[waiters[i]] = "queued",
                     NEW u \in Owners', u \notin Owners
              PROVE  \E j \in 1..(i-1) : waiters[j] = u
  BY DEF NobodyOvertakes
<1>0. /\ phase \in [Task -> Phase] /\ waiters \in Seq(Task) /\ state \in Int
      /\ Listed(phase, waiters) /\ Owners = OwnersIn(phase) /\ waiters # <<>>
      /\ waiters[i] \in Task /\ u \in Task
  BY InvParts, ElementOfSeq, LenProperties DEF Owners
<1>1. CASE UNCHANGED vars
  BY <1>1 DEF vars, Owners
<1>2. ASSUME NEW t \in Task, NEW p \in {"withdrawn", "idle"}, phase[t] = "queued", Leave(t, p)
      PROVE  \E j \in 1..(i-1) : waiters[j] = u
  <2>1. PICK k \in DOMAIN waiters :
           waiters[k] = t /\ Promote([phase EXCEPT ![t] = p], RemoveAt(waiters, k), state)
    BY <1>2 DEF Leave
  <2>2. PICK ph : ph = [phase EXCEPT ![t] = p]
    OBVIOUS
  <2>3. ph \in [Task -> Phase] /\ ph[t] = p /\ \A v \in Task : v # t => ph[v] = phase[v]
    BY <1>0, <2>2 DEF Phase
  <2>4. PICK w : w = RemoveAt(waiters, k)
    OBVIOUS
  <2>5. w \in Seq(Task) /\ Listed(ph, w)
    BY <1>0, <2>1, <2>3, <2>4, RemoveKeepsList
  <2>6. Promote(ph, w, state)
    BY <2>1, <2>2, <2>4
  <2>7. i # k
    BY <2>1, <2>3, <2>6 DEF Promote
  <2>8. PICK j \in DOMAIN w : /\ w[j] = waiters[i]
                              /\ \A l \in 1..(j-1) : \E m \in 1..(i-1) : w[l] = waiters[m]
    BY <1>0, <2>4, <2>7, RemovedPositions
  <2>9. u \notin OwnersIn(ph)
    BY <1>0, <2>3 DEF OwnersIn, Owning
  <2>10. PICK l \in 1..(j-1) : w[l] = u
    BY <1>0, <2>3, <2>5, <2>6, <2>8, <2>9, PromoteTakesInOrder
  <2>11. QED
    BY <2>8, <2>10
<1>3. ASSUME NEW t \in Task, phase[t] \in {"holding", "revoking"}, Release(t)
      PROVE  \E j \in 1..(i-1) : waiters[j] = u
  <2>1. PICK ph : ph = [phase EXCEPT ![t] = "idle"]
    OBVIOUS
  <2>2. PICK s : s = IF t \in Writer THEN 0 ELSE state - 1
    OBVIOUS
  <2>3. IF s = 0 THEN Promote(ph, waiters, s) ELSE NoPromote(ph, waiters, s)
    BY <1>3, <2>1, <2>2 DEF Release
  <2>4. ph \in [Task -> Phase] /\ ph[t] = "idle" /\ \A v \in Task : v # t => ph[v] = phase[v]
    BY <1>0, <2>1 DEF Phase
  <2>5. u \notin OwnersIn(ph)
    BY <1>0, <2>4 DEF OwnersIn, Owning
  <2>6. CASE s = 0
    <3>1. Listed(ph, waiters)
      <4>1. \A l \in DOMAIN waiters : waiters[l] \in Task
        BY <1>0, ElementOfSeq, LenProperties
      <4>2. QED
        BY <1>0, <1>3, <2>4, <4>1 DEF Listed
    <3>2. Promote(ph, waiters, s) /\ s \in Int
      BY <2>3, <2>6
    <3>3. QED
      BY <1>0, <2>4, <2>5, <3>1, <3>2, PromoteTakesInOrder
  <2>7. CASE s # 0
    BY <2>3, <2>5, <2>7 DEF NoPromote, Owners, OwnersIn
  <2>8. QED
    BY <2>6, <2>7
<1>4. ASSUME NEW t \in Task, NEW p \in Phase, Go(t, p), p \in Owning => phase[t] \in Owning
      PROVE  FALSE
  <2>1. \A v \in Task : phase'[v] \in Owning => phase[v] \in Owning
    BY <1>0, <1>4 DEF Go
  <2>2. QED
    BY <2>1 DEF Owners
<1>5. ASSUME NEW t \in Task, Step(t)
      PROVE  \E j \in 1..(i-1) : waiters[j] = u
  <2>0. ~TryNow(t)
    BY <1>0 DEF TryNow, CanEnter
  <2>1. CASE Lock(t)
    BY <1>4, <2>0, <2>1 DEF Lock, Ends, Owning, Phase
  <2>2. CASE Park(t)
    BY <1>4, <2>0, <2>2 DEF Park, Owning, Phase
  <2>3. CASE CancelQueued(t)
    BY <1>2, <2>3 DEF CancelQueued
  <2>4. CASE AbandonQueued(t)
    BY <1>2, <2>4 DEF AbandonQueued
  <2>5. CASE Unlock(t)
    BY <1>3, <2>5 DEF Unlock
  <2>6. CASE RevokeGrant(t)
    BY <1>3, <2>6 DEF RevokeGrant
  <2>7. CASE ParkStep(t) /\ UNCHANGED state
    <3>1. CASE Arm(t)
      BY <1>4, <3>1 DEF Arm, Owning, Phase
    <3>2. CASE RequestStop(t)
      BY <3>2 DEF RequestStop, Owners
    <3>3. CASE CancelNote(t)
      BY <1>4, <3>3 DEF CancelNote, Owning, Phase
    <3>4. CASE ParkCancelled(t) \/ WakeCancelled(t)
      BY <1>4, <3>4 DEF ParkCancelled, WakeCancelled, Ends, Owning, Phase
    <3>5. CASE WakeGranted(t) \/ AbandonGranted(t)
      BY <1>4, <3>5 DEF WakeGranted, AbandonGranted, Owning, Phase
    <3>6. QED
      BY <2>7, <3>1, <3>2, <3>3, <3>4, <3>5 DEF ParkStep
  <2>8. QED
    BY <1>5, <2>1, <2>2, <2>3, <2>4, <2>5, <2>6, <2>7 DEF Step
<1>6. QED
  BY <1>1, <1>5 DEF Next

\* One line for readers and writers: while a task stays queued, lockShared() and
\* lockExclusive() of tasks behind it, or not in the list, do not get the lock.
THEOREM RwLockServesInOrder == Spec => [][NobodyOvertakes]_vars
<1>1. RwInv /\ [Next]_vars => [NobodyOvertakes]_vars
  BY StepKeepsOrder
<1>2. QED
  BY <1>1, RwLockInvariant, PTL DEF Spec
=============================================================================
