--------------------------- MODULE ParkBaseProofs ---------------------------
(***************************************************************************)
(* Lemmas on the wait list that the proofs about the async primitives      *)
(* share: each queue operation keeps the list and the phases in step.      *)
(***************************************************************************)
EXTENDS ParkBase, SequenceTheorems, TLAPS

-----------------------------------------------------------------------------
(* What the queue operations of WaitList do to a sequence.                 *)

\* WaitList::remove drops one entry and keeps the order of the others.
LEMMA RemoveAtProperties ==
    ASSUME NEW S, NEW s \in Seq(S), NEW k \in DOMAIN s
    PROVE  /\ RemoveAt(s, k) \in Seq(S)
           /\ Len(RemoveAt(s, k)) = Len(s) - 1
           /\ \A i \in 1..(k-1) : RemoveAt(s, k)[i] = s[i]
           /\ \A i \in k..(Len(s)-1) : RemoveAt(s, k)[i] = s[i+1]
<1>1. k \in 1..Len(s) /\ Len(s) \in Nat
  BY LenProperties
<1>2. DEFINE a == SubSeq(s, 1, k-1)
             b == SubSeq(s, k+1, Len(s))
<1>3. a \in Seq(S) /\ Len(a) = k-1 /\ \A i \in 1..(k-1) : a[i] = s[i]
  <2>1. \A i \in 1..(k-1) : s[i] \in S
    BY <1>1, ElementOfSeq
  <2>2. QED
    BY <1>1, <2>1, SubSeqProperties
<1>4. b \in Seq(S) /\ Len(b) = Len(s)-k /\ \A i \in 1..(Len(s)-k) : b[i] = s[k+i]
  <2>1. \A i \in (k+1)..Len(s) : s[i] \in S
    BY <1>1, ElementOfSeq
  <2>2. QED
    BY <1>1, <2>1, SubSeqProperties
<1>5. RemoveAt(s, k) = a \o b
  BY DEF RemoveAt
<1>. HIDE DEF a, b
<1>6. /\ a \o b \in Seq(S)
      /\ Len(a \o b) = Len(a) + Len(b)
      /\ \A i \in 1..(Len(a) + Len(b)) :
            (a \o b)[i] = IF i <= Len(a) THEN a[i] ELSE b[i - Len(a)]
  BY <1>3, <1>4, ConcatProperties
<1>7. ASSUME NEW i \in 1..(k-1)
      PROVE  (a \o b)[i] = s[i]
  <2>1. i \in 1..(Len(a) + Len(b)) /\ i <= Len(a)
    BY <1>1, <1>3, <1>4
  <2>2. QED
    BY <1>3, <1>6, <2>1
<1>8. ASSUME NEW i \in k..(Len(s)-1)
      PROVE  (a \o b)[i] = s[i+1]
  <2>1. i \in 1..(Len(a) + Len(b)) /\ ~(i <= Len(a))
    BY <1>1, <1>3, <1>4
  <2>2. (a \o b)[i] = b[i - Len(a)]
    BY <1>6, <2>1
  <2>3. i - Len(a) \in 1..(Len(s)-k) /\ k + (i - Len(a)) = i + 1
    BY <1>1, <1>3
  <2>4. b[i - Len(a)] = s[k + (i - Len(a))]
    BY <1>4, <2>3
  <2>5. QED
    BY <2>2, <2>3, <2>4
<1>9. Len(a \o b) = Len(s) - 1
  BY <1>1, <1>3, <1>4, <1>6
<1>10. QED
  BY <1>5, <1>6, <1>7, <1>8, <1>9

-----------------------------------------------------------------------------
(* Effect of the three queue operations on QueueOK.  They only need to     *)
(* know of each task whether the step makes it queued.                     *)

\* No task but t is queued, or is queued no more, by this step.
OthersStay(t) ==
    \A u \in Task : u # t => (phase'[u] = "queued" <=> phase[u] = "queued")

\* WaitList::push_back of a task that was not queued.
LEMMA PushKeepsQueue ==
    ASSUME ParkTypeOK, QueueOK, NEW t \in Task, phase[t] # "queued",
           waiters' = Append(waiters, t), phase'[t] = "queued", OthersStay(t)
    PROVE  waiters' \in Seq(Task) /\ QueueOK'
<1>1. /\ waiters' \in Seq(Task)
      /\ Len(waiters') = Len(waiters) + 1
      /\ \A i \in 1..Len(waiters) : waiters'[i] = waiters[i]
      /\ waiters'[Len(waiters) + 1] = t
  BY AppendProperties DEF ParkTypeOK
<1>2. /\ Len(waiters) \in Nat
      /\ DOMAIN waiters = 1..Len(waiters)
      /\ DOMAIN waiters' = 1..(Len(waiters) + 1)
  BY <1>1, LenProperties DEF ParkTypeOK
<1>3. \A i \in 1..Len(waiters) : waiters[i] \in Task /\ waiters[i] # t
  BY <1>2, ElementOfSeq DEF ParkTypeOK, QueueOK
<1>4. QED
  BY <1>1, <1>2, <1>3 DEF QueueOK, OthersStay

\* The list w holds exactly the tasks that are queued according to ph, once each.
Listed(ph, w) ==
    /\ \A i \in DOMAIN w : ph[w[i]] = "queued"
    /\ \A t \in Task : ph[t] = "queued" => \E i \in DOMAIN w : w[i] = t
    /\ \A i, j \in DOMAIN w : w[i] = w[j] => i = j

\* WaitList::remove of a task that is queued no more.
LEMMA RemoveKeepsList ==
    ASSUME NEW w \in Seq(Task), NEW ph, Listed(ph, w), NEW k \in DOMAIN w,
           NEW ph2, ph2[w[k]] # "queued",
           \A u \in Task : u # w[k] => (ph2[u] = "queued" <=> ph[u] = "queued")
    PROVE  RemoveAt(w, k) \in Seq(Task) /\ Listed(ph2, RemoveAt(w, k))
<1>1. PICK v : v = RemoveAt(w, k)
  OBVIOUS
<1>2. /\ v \in Seq(Task)
      /\ Len(v) = Len(w) - 1
      /\ \A i \in 1..(k-1) : v[i] = w[i]
      /\ \A i \in k..(Len(w)-1) : v[i] = w[i+1]
  BY <1>1, RemoveAtProperties
<1>3. /\ Len(w) \in Nat
      /\ DOMAIN w = 1..Len(w)
      /\ DOMAIN v = 1..(Len(w) - 1)
      /\ k \in 1..Len(w)
  BY <1>2, LenProperties
<1>4. DEFINE m(i) == IF i < k THEN i ELSE i+1
<1>5. \A i \in 1..(Len(w)-1) :
         m(i) \in 1..Len(w) /\ m(i) # k /\ v[i] = w[m(i)]
  <2>. TAKE i \in 1..(Len(w)-1)
  <2>1. CASE i < k
    BY <1>2, <1>3, <2>1
  <2>2. CASE ~(i < k)
    BY <1>2, <1>3, <2>2
  <2>3. QED
    BY <2>1, <2>2
<1>6. \A i, j \in 1..(Len(w)-1) : m(i) = m(j) => i = j
  BY <1>3
<1>7. \A j \in 1..Len(w) : j # k => \E i \in 1..(Len(w)-1) : m(i) = j
  <2>. SUFFICES ASSUME NEW j \in 1..Len(w), j # k
                PROVE  \E i \in 1..(Len(w)-1) : m(i) = j
    OBVIOUS
  <2>1. CASE j < k
    <3>1. j \in 1..(Len(w)-1) /\ m(j) = j
      BY <1>3, <2>1
    <3>2. QED
      BY <3>1
  <2>2. CASE j > k
    <3>1. j-1 \in 1..(Len(w)-1) /\ m(j-1) = j
      BY <1>3, <2>2
    <3>2. QED
      BY <3>1
  <2>3. QED
    BY <1>3, <2>1, <2>2
<1>. HIDE DEF m
<1>8. \A i \in 1..Len(w) : w[i] \in Task /\ (i # k => w[i] # w[k])
  BY <1>1, <1>3, ElementOfSeq DEF Listed
<1>9. ASSUME NEW i \in DOMAIN v
      PROVE  ph2[v[i]] = "queued"
  <2>1. m(i) \in DOMAIN w /\ m(i) # k /\ v[i] = w[m(i)]
    BY <1>3, <1>5
  <2>2. ph[w[m(i)]] = "queued" /\ w[m(i)] \in Task /\ w[m(i)] # w[k]
    BY <1>3, <1>8, <2>1 DEF Listed
  <2>3. QED
    BY <2>1, <2>2
<1>10. ASSUME NEW u \in Task, ph2[u] = "queued"
       PROVE  \E i \in DOMAIN v : v[i] = u
  <2>1. u # w[k] /\ ph[u] = "queued"
    BY <1>10
  <2>2. PICK j \in 1..Len(w) : w[j] = u
    BY <1>3, <2>1 DEF Listed
  <2>3. j # k
    BY <1>1, <2>1, <2>2
  <2>4. QED
    BY <1>3, <1>5, <1>7, <2>2, <2>3
<1>11. \A i, j \in DOMAIN v : v[i] = v[j] => i = j
  BY <1>3, <1>5, <1>6 DEF Listed
<1>12. QED
  BY <1>1, <1>2, <1>9, <1>10, <1>11 DEF Listed

\* The same as a step of the protocol.
LEMMA UnlinkKeepsQueue ==
    ASSUME ParkTypeOK, QueueOK, NEW t \in Task,
           Unlink(t), phase'[t] # "queued", OthersStay(t)
    PROVE  waiters' \in Seq(Task) /\ QueueOK'
<1>1. PICK k \in DOMAIN waiters : waiters[k] = t /\ waiters' = RemoveAt(waiters, k)
  BY DEF Unlink
<1>2. waiters \in Seq(Task) /\ Listed(phase, waiters)
  BY DEF ParkTypeOK, QueueOK, Listed
<1>3. waiters' \in Seq(Task) /\ Listed(phase', waiters')
  BY <1>1, <1>2, RemoveKeepsList DEF OthersStay
<1>4. QED
  BY <1>3 DEF QueueOK, Listed

\* WaitList::popFront.
LEMMA PopKeepsQueue ==
    ASSUME ParkTypeOK, QueueOK, waiters # <<>>, waiters' = Tail(waiters),
           phase'[Head(waiters)] # "queued", OthersStay(Head(waiters))
    PROVE  waiters' \in Seq(Task) /\ QueueOK'
<1>1. /\ Head(waiters) \in Task
      /\ waiters' \in Seq(Task)
      /\ Len(waiters') = Len(waiters) - 1
      /\ \A i \in 1..(Len(waiters) - 1) : waiters'[i] = waiters[i+1]
  BY HeadTailProperties DEF ParkTypeOK
<1>2. /\ Len(waiters) \in Nat \ {0}
      /\ DOMAIN waiters = 1..Len(waiters)
      /\ DOMAIN waiters' = 1..(Len(waiters) - 1)
      /\ Head(waiters) = waiters[1]
  BY <1>1, LenProperties, EmptySeq DEF ParkTypeOK
<1>3. \A i \in 1..Len(waiters) : waiters[i] \in Task
                                 /\ (i # 1 => waiters[i] # Head(waiters))
  BY <1>2, ElementOfSeq DEF ParkTypeOK, QueueOK
<1>4. ASSUME NEW i \in DOMAIN waiters'
      PROVE  phase'[waiters'[i]] = "queued"
  <2>1. i+1 \in DOMAIN waiters /\ i+1 # 1 /\ waiters'[i] = waiters[i+1]
    BY <1>1, <1>2
  <2>2. phase[waiters[i+1]] = "queued" /\ waiters[i+1] \in Task
        /\ waiters[i+1] # Head(waiters)
    BY <1>2, <1>3, <2>1 DEF QueueOK
  <2>3. QED
    BY <2>1, <2>2 DEF OthersStay
<1>5. ASSUME NEW u \in Task, phase'[u] = "queued"
      PROVE  \E i \in DOMAIN waiters' : waiters'[i] = u
  <2>1. u # Head(waiters) /\ phase[u] = "queued"
    BY <1>5 DEF OthersStay
  <2>2. PICK j \in 1..Len(waiters) : waiters[j] = u
    BY <1>2, <2>1 DEF QueueOK
  <2>3. j - 1 \in 1..(Len(waiters) - 1) /\ (j - 1) + 1 = j
    BY <1>2, <2>1, <2>2
  <2>4. QED
    BY <1>1, <1>2, <2>2, <2>3
<1>6. \A i, j \in DOMAIN waiters' : waiters'[i] = waiters'[j] => i = j
  BY <1>1, <1>2 DEF QueueOK
<1>7. QED
  BY <1>1, <1>4, <1>5, <1>6 DEF QueueOK

\* The head of a non-empty wait list is a queued task.
LEMMA HeadIsQueued ==
    ASSUME ParkTypeOK, QueueOK, waiters # <<>>
    PROVE  Head(waiters) \in Task /\ phase[Head(waiters)] = "queued"
<1>1. Head(waiters) \in Task /\ Head(waiters) = waiters[1] /\ 1 \in DOMAIN waiters
  BY HeadTailProperties, LenProperties, EmptySeq DEF ParkTypeOK
<1>2. QED
  BY <1>1 DEF QueueOK

\* A step that neither touches the list nor makes anyone queued or unqueued.
LEMMA SameQueue ==
    ASSUME QueueOK, UNCHANGED waiters, NEW t \in Task, OthersStay(t),
           phase'[t] = "queued" <=> phase[t] = "queued", ParkTypeOK
    PROVE  QueueOK'
<1>1. \A i \in DOMAIN waiters : waiters[i] \in Task
  BY ElementOfSeq, LenProperties DEF ParkTypeOK
<1>2. QED
  BY <1>1 DEF QueueOK, OthersStay

\* Nobody is queued at the start.
LEMMA InitQueue ==
    ASSUME ParkInit
    PROVE  ParkTypeOK /\ QueueOK
<1>1. waiters \in Seq(Task) /\ DOMAIN waiters = {}
  BY EmptySeq, LenProperties DEF ParkInit
<1>2. QED
  BY <1>1 DEF ParkInit, ParkTypeOK, QueueOK, Phase
=============================================================================
