----------------------------- MODULE PoolMoves ------------------------------
(***************************************************************************)
(* What each operation of the connection queue preserves; where users and  *)
(* connections are in module Pool, and the moves that its actions are made *)
(* of: for any sets of pools, clients and connections, and any limit.      *)
(*                                                                         *)
(* The invariant of the places is stated over parameters (w the lines, f   *)
(* the free connections, s the control states, h what users hold, n and o  *)
(* the native state and the home of connections) so that each way of       *)
(* moving a user or a connection is one lemma without primes.              *)
(***************************************************************************)
EXTENDS Pool, SequenceTheorems, FiniteSetTheorems, TLAPS

-----------------------------------------------------------------------------
(* What each operation of the connection queue preserves.                  *)

\* The inductive invariant of the queue. QueueNeverStalls needs the two others:
\* every slot in use is accounted for, and there is a slot.
QueueInv ==
    /\ QueueTypeOK
    /\ SlotsAccounted
    /\ LimitsPositive => maxActivelyConnecting # 0
    /\ LimitsPositive => QueueNeverStalls

\* The queue starts in a state that satisfies its invariant.
LEMMA QueueInitInv == QueueInit => QueueInv
  BY DEF QueueInit, QueueInv, QueueTypeOK, SlotsAccounted, QueueNeverStalls

\* Starting the first k entries of a queue keeps the slots accounted for.
LEMMA StartFirstType ==
  ASSUME QueueTypeOK,
         NEW queue \in Seq(Pools), NEW k \in 0..Len(queue), NEW used \in Nat,
         StartFirst(k, queue, used)
  PROVE  /\ queuedConnections' \in Seq(Pools)
         /\ connecting' \in Seq(Pools)
         /\ activelyConnectingCount' \in Nat
         /\ Len(queuedConnections') = Len(queue) - k
         /\ Len(connecting') = Len(connecting) + k
         /\ activelyConnectingCount' = used + k
<1>1. /\ Len(queue) \in Nat
      /\ \A i \in 1..Len(queue) : queue[i] \in Pools
  BY LenProperties, ElementOfSeq
<1>2. /\ SubSeq(queue, 1, k) \in Seq(Pools)
      /\ Len(SubSeq(queue, 1, k)) = k
  <2>1. \A i \in 1..k : queue[i] \in Pools
    BY <1>1
  <2> QED
    BY <1>1, <2>1, SubSeqProperties
<1>3. /\ SubSeq(queue, k + 1, Len(queue)) \in Seq(Pools)
      /\ Len(SubSeq(queue, k + 1, Len(queue))) = Len(queue) - k
  <2>1. \A i \in (k + 1)..Len(queue) : queue[i] \in Pools
    BY <1>1
  <2> QED
    BY <1>1, <2>1, SubSeqProperties
<1>4. connecting \in Seq(Pools)
  BY DEF QueueTypeOK
<1>5. /\ connecting \o SubSeq(queue, 1, k) \in Seq(Pools)
      /\ Len(connecting \o SubSeq(queue, 1, k)) = Len(connecting) + k
  BY <1>2, <1>4, ConcatProperties
<1> QED
  BY <1>1, <1>3, <1>5 DEF StartFirst

\* Asking for n more connections preserves the invariant, even while the limit
\* is being set: what is left in the queue has a slot in use to wait for.
LEMMA EnqueueInv ==
  ASSUME QueueInv, NEW p \in Pools, NEW n \in Nat,
         maxActivelyConnecting' \in Nat,
         LimitsPositive => maxActivelyConnecting' # 0,
         Enqueue(p, n)
  PROVE  QueueInv'
<1>0. PICK m \in Nat : m = maxActivelyConnecting'
  OBVIOUS
<1> DEFINE asked == [i \in 1..n |-> p]
           queue == queuedConnections \o asked
           k == Startable(n)
<1>1. /\ asked \in Seq(Pools)
      /\ Len(asked) = n
  BY SeqDef
<1>2. /\ queuedConnections \in Seq(Pools)
      /\ activelyConnectingCount \in Nat
      /\ settling \in Nat
      /\ Len(connecting) \in Nat
      /\ Len(queuedConnections) \in Nat
  BY LenProperties DEF QueueInv, QueueTypeOK
<1>3. /\ queue \in Seq(Pools)
      /\ Len(queue) = Len(queuedConnections) + n
  BY <1>1, <1>2, ConcatProperties
<1>4. k = IF activelyConnectingCount >= m THEN 0 ELSE Least(n, m - activelyConnectingCount)
  BY <1>0 DEF Startable
<1> HIDE DEF k
<1>. k \in 0..n
  BY <1>2, <1>4 DEF Least
<1>5. /\ queuedConnections' \in Seq(Pools)
      /\ connecting' \in Seq(Pools)
      /\ activelyConnectingCount' \in Nat
      /\ Len(queuedConnections') = Len(queuedConnections) + n - k
      /\ Len(connecting') = Len(connecting) + k
      /\ activelyConnectingCount' = activelyConnectingCount + k
      /\ settling' = settling
  <2>1. k \in 0..Len(queue)
    BY <1>2, <1>3
  <2>2. /\ StartFirst(k, queue, activelyConnectingCount)
        /\ settling' = settling
    BY DEF Enqueue, k
  <2> HIDE DEF queue
  <2>3. QueueTypeOK
    BY DEF QueueInv
  <2>4. /\ queuedConnections' \in Seq(Pools)
        /\ connecting' \in Seq(Pools)
        /\ activelyConnectingCount' \in Nat
        /\ Len(queuedConnections') = Len(queue) - k
        /\ Len(connecting') = Len(connecting) + k
        /\ activelyConnectingCount' = activelyConnectingCount + k
    BY <1>2, <1>3, <2>1, <2>2, <2>3, StartFirstType
  <2> QED
    BY <1>2, <1>3, <2>1, <2>2, <2>4
<1>6. SlotsAccounted'
  BY <1>2, <1>4, <1>5 DEF QueueInv, SlotsAccounted
<1>7. ASSUME LimitsPositive
      PROVE  QueueNeverStalls'
  <2>1. SUFFICES ASSUME queuedConnections' # <<>>,
                        connecting' = <<>>, settling' = 0
                 PROVE  FALSE
    BY <1>2, <1>5 DEF QueueNeverStalls
  <2>2. Len(queuedConnections') > 0
    BY <1>5, <2>1, EmptySeq
  <2>3. Len(connecting') = 0
    BY <2>1
  <2>4. activelyConnectingCount = 0 /\ k = 0
    BY <1>2, <1>4, <1>5, <2>1, <2>3 DEF QueueInv, SlotsAccounted
  <2>5. n = 0
    <3>1. m # 0
      BY <1>0, <1>7
    <3> QED
      BY <2>4, <1>4, <3>1 DEF Least
  <2>6. Len(queuedConnections) > 0
    BY <1>5, <2>2, <2>4, <2>5, <1>2
  <2>7. Len(connecting) = 0 /\ settling = 0
    BY <1>2, <1>5, <2>1, <2>3, <2>4
  <2>8. connecting = <<>>
    BY <2>7, EmptySeq DEF QueueInv, QueueTypeOK
  <2> QED
    BY <1>7, <2>6, <2>7, <2>8, EmptySeq DEF QueueInv, QueueNeverStalls
<1> QED
  BY <1>2, <1>5, <1>6, <1>7 DEF QueueInv, QueueTypeOK

\* The end of an attempt preserves the invariant: the slot stays in use until
\* the settled promise is dealt with.
LEMMA AttemptEndsInv ==
  ASSUME QueueInv, NEW p \in Pools, AttemptEnds(p)
  PROVE  QueueInv'
<1>1. PICK i \in 1..Len(connecting) : connecting' = RemoveAt(connecting, i)
  BY DEF AttemptEnds
<1>2. /\ connecting \in Seq(Pools)
      /\ Len(connecting) \in Nat
      /\ \A j \in 1..Len(connecting) : connecting[j] \in Pools
  BY LenProperties, ElementOfSeq DEF QueueInv, QueueTypeOK
<1> DEFINE before == SubSeq(connecting, 1, i - 1)
           after == SubSeq(connecting, i + 1, Len(connecting))
<1>3. before \in Seq(Pools) /\ Len(before) = i - 1
  <2>1. \A j \in 1..(i - 1) : connecting[j] \in Pools
    BY <1>2
  <2> QED
    BY <1>2, <2>1, SubSeqProperties
<1>4. after \in Seq(Pools) /\ Len(after) = Len(connecting) - i
  <2>1. \A j \in (i + 1)..Len(connecting) : connecting[j] \in Pools
    BY <1>2
  <2> QED
    BY <1>2, <2>1, SubSeqProperties
<1>5. /\ connecting' \in Seq(Pools)
      /\ Len(connecting') = Len(connecting) - 1
  <2>1. connecting' = before \o after
    BY <1>1 DEF RemoveAt
  <2> HIDE DEF before, after
  <2>2. /\ before \o after \in Seq(Pools)
        /\ Len(before \o after) = Len(before) + Len(after)
    BY <1>3, <1>4, ConcatProperties
  <2> QED
    BY <1>2, <1>3, <1>4, <2>1, <2>2
<1> QED
  BY <1>2, <1>5 DEF QueueInv, QueueTypeOK, SlotsAccounted, QueueNeverStalls, AttemptEnds

\* Giving a slot back preserves the invariant: dequeue() is called again.
LEMMA SlotFreedInv ==
  ASSUME QueueInv, SlotFreed
  PROVE  QueueInv'
<1> DEFINE used == activelyConnectingCount - 1
           k == IF used < maxActivelyConnecting THEN Least(1, Len(queuedConnections)) ELSE 0
<1>1. /\ queuedConnections \in Seq(Pools)
      /\ Len(queuedConnections) \in Nat
      /\ Len(connecting) \in Nat
      /\ settling \in Nat /\ settling > 0
      /\ settling' = settling - 1
      /\ maxActivelyConnecting' = maxActivelyConnecting
      /\ maxActivelyConnecting \in Nat
      /\ used = Len(connecting) + settling - 1
      /\ used \in Nat
  BY LenProperties DEF QueueInv, QueueTypeOK, SlotsAccounted, SlotFreed
<1>2. k \in 0..Len(queuedConnections)
  BY <1>1 DEF Least
<1>3. StartFirst(k, queuedConnections, used)
  BY DEF SlotFreed
<1>4. /\ queuedConnections' \in Seq(Pools)
      /\ connecting' \in Seq(Pools)
      /\ activelyConnectingCount' \in Nat
      /\ Len(queuedConnections') = Len(queuedConnections) - k
      /\ Len(connecting') = Len(connecting) + k
      /\ activelyConnectingCount' = used + k
  <2> HIDE DEF k, used
  <2>1. QueueTypeOK
    BY DEF QueueInv
  <2> QED
    BY <1>1, <1>2, <1>3, <2>1, StartFirstType
<1>5. SlotsAccounted'
  BY <1>1, <1>2, <1>4 DEF SlotsAccounted
<1>6. ASSUME LimitsPositive
      PROVE  QueueNeverStalls'
  <2>1. SUFFICES ASSUME queuedConnections' # <<>>,
                        connecting' = <<>>, settling' = 0
                 PROVE  FALSE
    BY <1>1 DEF QueueNeverStalls
  <2>2. Len(connecting') = 0 /\ Len(queuedConnections') > 0
    BY <1>4, <2>1, EmptySeq
  <2>3. k = 0 /\ used = 0
    <3> HIDE DEF k, used
    <3> QED
      BY <1>1, <1>2, <1>4, <2>1, <2>2
  <2>4. Len(queuedConnections) = 0
    <3>1. maxActivelyConnecting # 0
      BY <1>6 DEF QueueInv
    <3> QED
      BY <1>1, <2>3, <3>1 DEF Least
  <2> QED
    BY <1>4, <2>2, <2>3, <2>4
<1> QED
  BY <1>1, <1>4, <1>5, <1>6 DEF QueueInv, QueueTypeOK

-----------------------------------------------------------------------------
(* How many attempts of each pool the operations of the queue leave.       *)

\* The entries of a sequence that are p's are finitely many.
LEMMA EntriesNat ==
  ASSUME NEW t \in Seq(Pools), NEW p
  PROVE  /\ IsFiniteSet({i \in DOMAIN t : t[i] = p})
         /\ EntriesOf(p, t) \in Nat
<1>1. DOMAIN t = 1..Len(t) /\ Len(t) \in Nat
  BY LenProperties
<1>2. IsFiniteSet(DOMAIN t)
  BY <1>1, FS_Interval
<1>3. {i \in DOMAIN t : t[i] = p} \in SUBSET (DOMAIN t)
  OBVIOUS
<1>4. IsFiniteSet({i \in DOMAIN t : t[i] = p})
  BY <1>2, <1>3, FS_Subset
<1> QED
  BY <1>4, FS_CardinalityType DEF EntriesOf

\* The entries of a concatenation are those of both sequences.
LEMMA EntriesConcat ==
  ASSUME NEW t \in Seq(Pools), NEW v \in Seq(Pools), NEW p
  PROVE  EntriesOf(p, t \o v) = EntriesOf(p, t) + EntriesOf(p, v)
<1> DEFINE n == Len(t)
           m == Len(v)
           A == {i \in DOMAIN t : t[i] = p}
           B == {i \in DOMAIN v : v[i] = p}
           C == {i \in (n + 1)..(n + m) : v[i - n] = p}
           D == {i \in DOMAIN (t \o v) : (t \o v)[i] = p}
           shift == [i \in B |-> i + n]
<1>1. /\ n \in Nat /\ m \in Nat
      /\ DOMAIN t = 1..n /\ DOMAIN v = 1..m
  BY LenProperties
<1>2. /\ t \o v \in Seq(Pools) /\ Len(t \o v) = n + m
      /\ \A i \in 1..(n + m) : (t \o v)[i] = IF i <= n THEN t[i] ELSE v[i - n]
  BY ConcatProperties
<1>3. DOMAIN (t \o v) = 1..(n + m)
  BY <1>2, LenProperties
<1>4. D = A \cup C
  <2>1. ASSUME NEW i
        PROVE  i \in D <=> i \in A \cup C
    <3>1. CASE i \in 1..n
      BY <1>1, <1>2, <1>3, <3>1
    <3>2. CASE i \in (n + 1)..(n + m)
      BY <1>1, <1>2, <1>3, <3>2
    <3>3. CASE i \notin 1..n /\ i \notin (n + 1)..(n + m)
      BY <1>1, <1>3, <3>3
    <3> QED
      BY <3>1, <3>2, <3>3
  <2> HIDE DEF A, C, D
  <2> QED
    BY <2>1
<1>5. A \cap C = {}
  BY <1>1
<1>6. IsFiniteSet(A) /\ IsFiniteSet(B)
  BY EntriesNat
<1>7. shift \in Bijection(B, C)
  <2>1. \A i \in B : i + n \in C
    BY <1>1
  <2>2. \A i, j \in B : i + n = j + n => i = j
    BY <1>1
  <2>3. \A j \in C : j - n \in B /\ j - n + n = j
    BY <1>1
  <2> HIDE DEF B, C
  <2>4. shift \in [B -> C]
    BY <2>1
  <2>5. IsInjective(shift)
    BY <2>2 DEF IsInjective
  <2>6. \A j \in C : \E i \in B : shift[i] = j
    BY <2>3
  <2> QED
    BY <2>4, <2>5, <2>6 DEF Bijection, Injection, Surjection
<1> HIDE DEF A, B, C, D, shift
<1>8. IsFiniteSet(C) /\ Cardinality(C) = Cardinality(B)
  BY <1>6, <1>7, FS_Bijection DEF ExistsBijection
<1>9. Cardinality(A \cap C) = 0
  BY <1>5, FS_EmptySet
<1>10. Cardinality(D) = Cardinality(A) + Cardinality(C)
  <2>1. Cardinality(A) \in Nat /\ Cardinality(C) \in Nat
    BY <1>6, <1>8, FS_CardinalityType
  <2>2. Cardinality(A \cup C) = Cardinality(A) + Cardinality(C) - Cardinality(A \cap C)
    BY <1>6, <1>8, FS_Union
  <2> QED
    BY <1>4, <1>9, <2>1, <2>2
<1> QED
  BY <1>8, <1>10 DEF EntriesOf, A, B, D

\* n entries that are all p's.
LEMMA EntriesSame ==
  ASSUME NEW p \in Pools, NEW n \in Nat
  PROVE  /\ [i \in 1..n |-> p] \in Seq(Pools)
         /\ \A q \in Pools : EntriesOf(q, [i \in 1..n |-> p]) = IF q = p THEN n ELSE 0
<1> DEFINE t == [i \in 1..n |-> p]
<1>1. t \in Seq(Pools) /\ DOMAIN t = 1..n /\ \A i \in 1..n : t[i] = p
  BY SeqDef
<1> HIDE DEF t
<1>2. {i \in DOMAIN t : t[i] = p} = 1..n
  BY <1>1
<1>3. \A q \in Pools : q # p => {i \in DOMAIN t : t[i] = q} = {}
  BY <1>1
<1>4. Cardinality(1..n) = n
  BY FS_Interval
<1>5. \A q \in Pools : EntriesOf(q, t) = IF q = p THEN n ELSE 0
  BY <1>2, <1>3, <1>4, FS_EmptySet DEF EntriesOf
<1> QED
  BY <1>1, <1>5 DEF t

\* The attempts of p that are queued or running, in this state.
Attempts(p) == EntriesOf(p, queuedConnections) + EntriesOf(p, connecting)

\* Starting attempts moves them from the queue to those that run.
LEMMA StartFirstCounts ==
  ASSUME connecting \in Seq(Pools), NEW q,
         NEW queue \in Seq(Pools), NEW k \in 0..Len(queue), NEW used,
         StartFirst(k, queue, used)
  PROVE  Attempts(q)' = EntriesOf(q, queue) + EntriesOf(q, connecting)
<1> DEFINE first == SubSeq(queue, 1, k)
           rest == SubSeq(queue, k + 1, Len(queue))
<1>1. /\ Len(queue) \in Nat
      /\ \A i \in 1..Len(queue) : queue[i] \in Pools
  BY LenProperties, ElementOfSeq
<1>2. first \in Seq(Pools)
  <2>1. \A i \in 1..k : queue[i] \in Pools
    BY <1>1
  <2> QED
    BY <1>1, <2>1, SubSeqProperties
<1>3. rest \in Seq(Pools)
  <2>1. \A i \in (k + 1)..Len(queue) : queue[i] \in Pools
    BY <1>1
  <2> QED
    BY <1>1, <2>1, SubSeqProperties
<1>4. first \o rest = queue
  <2>1. 1 \in 1..(Len(queue) + 1) /\ k \in (1 - 1)..Len(queue) /\ Len(queue) \in k..Len(queue)
    BY <1>1
  <2>2. first \o rest = SubSeq(queue, 1, Len(queue))
    BY <2>1, ConcatAdjacentSubSeq
  <2> QED
    BY <2>2, SubSeqFull
<1>5. queuedConnections' = rest /\ connecting' = connecting \o first
  BY DEF StartFirst
<1> HIDE DEF first, rest
<1>6. /\ EntriesOf(q, connecting \o first) = EntriesOf(q, connecting) + EntriesOf(q, first)
      /\ EntriesOf(q, queue) = EntriesOf(q, first) + EntriesOf(q, rest)
  BY <1>2, <1>3, <1>4, EntriesConcat
<1>7. /\ EntriesOf(q, connecting) \in Nat /\ EntriesOf(q, first) \in Nat
      /\ EntriesOf(q, rest) \in Nat
  BY <1>2, <1>3, EntriesNat
<1>8. Attempts(q)' = EntriesOf(q, rest) + EntriesOf(q, connecting \o first)
  BY <1>5 DEF Attempts, EntriesOf
<1> QED
  BY <1>6, <1>7, <1>8

\* Asking for n more connections adds n attempts, and only to the pool that asked.
LEMMA EnqueueCounts ==
  ASSUME QueueInv, NEW p \in Pools, NEW n \in Nat,
         maxActivelyConnecting' \in Nat,
         Enqueue(p, n), NEW q \in Pools
  PROVE  Attempts(q)' = Attempts(q) + IF q = p THEN n ELSE 0
<1>0. PICK m \in Nat : m = maxActivelyConnecting'
  OBVIOUS
<1> DEFINE asked == [i \in 1..n |-> p]
           queue == queuedConnections \o asked
           k == Startable(n)
<1>1. asked \in Seq(Pools) /\ EntriesOf(q, asked) = IF q = p THEN n ELSE 0
  BY EntriesSame
<1>2. Len(asked) = n
  <2>1. Len(asked) \in Nat /\ DOMAIN asked = 1..Len(asked) /\ DOMAIN asked = 1..n
    BY <1>1, LenProperties
  <2> QED
    BY <2>1
<1>3. /\ queuedConnections \in Seq(Pools) /\ connecting \in Seq(Pools)
      /\ activelyConnectingCount \in Nat
      /\ Len(queuedConnections) \in Nat
  BY LenProperties DEF QueueInv, QueueTypeOK
<1>4. StartFirst(k, queue, activelyConnectingCount)
  BY DEF Enqueue
<1>5. k = IF activelyConnectingCount >= m THEN 0 ELSE Least(n, m - activelyConnectingCount)
  BY <1>0 DEF Startable
<1> HIDE DEF k, asked
<1>6. k \in 0..n
  BY <1>3, <1>5 DEF Least
<1>7. /\ queue \in Seq(Pools) /\ Len(queue) = Len(queuedConnections) + n
      /\ EntriesOf(q, queue) = EntriesOf(q, queuedConnections) + EntriesOf(q, asked)
  BY <1>1, <1>2, <1>3, ConcatProperties, EntriesConcat
<1> HIDE DEF queue
<1>8. Attempts(q)' = EntriesOf(q, queue) + EntriesOf(q, connecting)
  <2>1. k \in 0..Len(queue)
    BY <1>3, <1>6, <1>7
  <2> QED
    BY <1>3, <1>4, <1>7, <2>1, StartFirstCounts
<1>9. EntriesOf(q, queuedConnections) \in Nat /\ EntriesOf(q, connecting) \in Nat
  BY <1>3, EntriesNat
<1> QED
  BY <1>1, <1>7, <1>8, <1>9 DEF Attempts

\* The end of an attempt of p takes one from p's.
LEMMA AttemptEndsCounts ==
  ASSUME QueueInv, NEW p \in Pools, AttemptEnds(p), NEW q \in Pools
  PROVE  Attempts(q)' = Attempts(q) - IF q = p THEN 1 ELSE 0
<1>1. PICK i \in 1..Len(connecting) : /\ connecting[i] = p
                                      /\ connecting' = RemoveAt(connecting, i)
  BY DEF AttemptEnds
<1>2. /\ connecting \in Seq(Pools) /\ queuedConnections \in Seq(Pools)
      /\ queuedConnections' = queuedConnections
      /\ Len(connecting) \in Nat
      /\ \A j \in 1..Len(connecting) : connecting[j] \in Pools
  BY LenProperties, ElementOfSeq DEF QueueInv, QueueTypeOK, AttemptEnds
<1> DEFINE before == SubSeq(connecting, 1, i - 1)
           itself == SubSeq(connecting, i, i)
           after == SubSeq(connecting, i + 1, Len(connecting))
           upTo == SubSeq(connecting, 1, i)
<1>3. before \in Seq(Pools)
  <2>1. \A j \in 1..(i - 1) : connecting[j] \in Pools
    BY <1>2
  <2> QED
    BY <1>2, <2>1, SubSeqProperties
<1>4. after \in Seq(Pools)
  <2>1. \A j \in (i + 1)..Len(connecting) : connecting[j] \in Pools
    BY <1>2
  <2> QED
    BY <1>2, <2>1, SubSeqProperties
<1>5. upTo \in Seq(Pools)
  <2>1. \A j \in 1..i : connecting[j] \in Pools
    BY <1>2
  <2> QED
    BY <1>2, <2>1, SubSeqProperties
<1>6. itself = [j \in 1..1 |-> p]
  <2>1. /\ itself \in Seq(Pools) /\ Len(itself) = 1
        /\ \A j \in 1..1 : itself[j] = connecting[i + j - 1]
    <3>1. \A j \in i..i : connecting[j] \in Pools
      BY <1>2
    <3>2. i \in Int /\ i - i + 1 = 1
      OBVIOUS
    <3> QED
      BY <3>1, <3>2, SubSeqProperties
  <2>2. itself[1] = p
    BY <1>1, <2>1
  <2>3. [j \in 1..1 |-> p] \in Seq(Pools)
    BY SeqDef
  <2>4. Len([j \in 1..1 |-> p]) = 1
    BY <2>3, LenProperties
  <2> HIDE DEF itself
  <2> QED
    BY <2>1, <2>2, <2>3, <2>4, SeqEqual
<1>7. upTo = before \o itself /\ connecting = upTo \o after
  <2>1. before \o SubSeq(connecting, (i - 1) + 1, i) = upTo
    <3>1. 1 \in 1..(Len(connecting) + 1) /\ i - 1 \in (1 - 1)..Len(connecting)
          /\ i \in (i - 1)..Len(connecting)
      BY <1>2
    <3> QED
      BY <1>2, <3>1, ConcatAdjacentSubSeq
  <2>2. (i - 1) + 1 = i
    OBVIOUS
  <2>3. upTo \o after = SubSeq(connecting, 1, Len(connecting))
    <3>1. 1 \in 1..(Len(connecting) + 1) /\ i \in (1 - 1)..Len(connecting)
          /\ Len(connecting) \in i..Len(connecting)
      BY <1>2
    <3> QED
      BY <1>2, <3>1, ConcatAdjacentSubSeq
  <2>4. SubSeq(connecting, 1, Len(connecting)) = connecting
    BY <1>2, SubSeqFull
  <2> QED
    BY <2>1, <2>2, <2>3, <2>4
<1>8. connecting' = before \o after
  BY <1>1 DEF RemoveAt
<1> HIDE DEF before, itself, after, upTo
<1>9. itself \in Seq(Pools) /\ EntriesOf(q, itself) = IF q = p THEN 1 ELSE 0
  <2>1. PICK n \in Nat : n = 1
    OBVIOUS
  <2>2. itself = [j \in 1..n |-> p]
    BY <1>6, <2>1
  <2> QED
    BY <2>1, <2>2, EntriesSame
<1>10. /\ EntriesOf(q, connecting) = EntriesOf(q, upTo) + EntriesOf(q, after)
       /\ EntriesOf(q, upTo) = EntriesOf(q, before) + EntriesOf(q, itself)
       /\ EntriesOf(q, before \o after) = EntriesOf(q, before) + EntriesOf(q, after)
  BY <1>3, <1>4, <1>5, <1>7, <1>9, EntriesConcat
<1>11. /\ EntriesOf(q, before) \in Nat /\ EntriesOf(q, after) \in Nat
       /\ EntriesOf(q, queuedConnections) \in Nat
  BY <1>2, <1>3, <1>4, EntriesNat
<1>12. Attempts(q)' = EntriesOf(q, queuedConnections) + EntriesOf(q, before \o after)
  BY <1>2, <1>8 DEF Attempts, EntriesOf
<1> QED
  BY <1>9, <1>10, <1>11, <1>12 DEF Attempts

\* Giving a slot back starts an attempt or none, and ends none.
LEMMA SlotFreedCounts ==
  ASSUME QueueInv, SlotFreed, NEW q
  PROVE  Attempts(q)' = Attempts(q)
<1> DEFINE used == activelyConnectingCount - 1
           k == IF used < maxActivelyConnecting THEN Least(1, Len(queuedConnections)) ELSE 0
<1>1. /\ queuedConnections \in Seq(Pools) /\ connecting \in Seq(Pools)
      /\ Len(queuedConnections) \in Nat
  BY LenProperties DEF QueueInv, QueueTypeOK
<1>2. k \in 0..Len(queuedConnections)
  BY <1>1 DEF Least
<1>3. StartFirst(k, queuedConnections, used)
  BY DEF SlotFreed
<1> HIDE DEF k, used
<1> QED
  BY <1>1, <1>2, <1>3, StartFirstCounts DEF Attempts

-----------------------------------------------------------------------------
(* Where users and connections are.                                        *)

WaitStates == {"waiting", "waitingQuery"}
HoldStates == {"holding", "querying"}

PlacesType(w, f, s, h, n, o) ==
    /\ w \in [Pools -> Seq(Users)]
    /\ f \in [Pools -> Seq(Conns)]
    /\ s \in [Users -> ClientStates \cup PoolStates]
    /\ \A u \in Clients : s[u] \in ClientStates
    /\ \A p \in Pools : s[p] \in PoolStates
    /\ h \in [Users -> Conns \cup {NoConn}]
    /\ n \in [Conns -> NativeStates]
    /\ o \in [Conns -> Pools]

\* Who waits: a user is at most once in one line, a pool only in its own; and
\* until a pool is ready nobody is in its line but its own init().
LinesInv(w, s) ==
    /\ \A p \in Pools :
         /\ IsInjective(w[p])
         /\ \A u \in ToSet(w[p]) : s[u] \in WaitStates /\ (u \in Pools => u = p)
         /\ s[p] # "ready" => ToSet(w[p]) \subseteq {p}
    /\ \A p, q \in Pools : p # q => ToSet(w[p]) \cap ToSet(w[q]) = {}

\* Who holds a connection, and that no other user does.
HeldInv(s, h, n, o) ==
    /\ \A u \in Users : (h[u] # NoConn) <=> (s[u] \in HoldStates)
    /\ \A u \in Users : h[u] # NoConn => n[h[u]] = "open"
    /\ \A u, v \in Users : h[u] = h[v] /\ h[u] # NoConn => u = v
    /\ \A p \in Pools : s[p] = "holding" => o[h[p]] = p

\* Which connections are free, and that nobody holds those.
FreeInv(f, h, n, o) ==
    \A p \in Pools :
        /\ IsInjective(f[p])
        /\ \A c \in ToSet(f[p]) :
             n[c] = "open" /\ o[c] = p /\ \A u \in Users : h[u] # c

Places(w, f, s, h, n, o) ==
    /\ PlacesType(w, f, s, h, n, o)
    /\ LinesInv(w, s)
    /\ HeldInv(s, h, n, o)
    /\ FreeInv(f, h, n, o)
    /\ \A p \in Pools : w[p] # <<>> => f[p] = <<>>

\* c is open, belongs to p and is neither free nor held.
Loose(c, p, f, h, n, o) ==
    /\ c \in Conns
    /\ n[c] = "open"
    /\ o[c] = p
    /\ c \notin ToSet(f[p])
    /\ \A u \in Users : h[u] # c

-----------------------------------------------------------------------------
(* Sequences without duplicates, as the sets of their entries.             *)

\* Elementary facts about the entries of a sequence.
LEMMA SeqSet ==
  ASSUME NEW S, NEW t \in Seq(S)
  PROVE  /\ ToSet(t) \subseteq S
         /\ ToSet(t) = {} <=> t = <<>>
         /\ t # <<>> => Head(t) \in ToSet(t) /\ Last(t) \in ToSet(t)
<1>1. /\ Len(t) \in Nat /\ DOMAIN t = 1..Len(t)
      /\ \A i \in 1..Len(t) : t[i] \in S
  BY LenProperties, ElementOfSeq
<1>2. t # <<>> => /\ 1 \in DOMAIN t /\ Len(t) \in DOMAIN t
                  /\ Head(t) = t[1] /\ Last(t) = t[Len(t)]
  BY <1>1, EmptySeq DEF Last
<1>3. t = <<>> => DOMAIN t = {}
  BY <1>1
<1> QED
  BY <1>1, <1>2, <1>3 DEF ToSet

\* Shifting a sequence without duplicates removes its head from its entries.
LEMMA TailSet ==
  ASSUME NEW S, NEW t \in Seq(S), t # <<>>, IsInjective(t)
  PROVE  /\ Tail(t) \in Seq(S)
         /\ ToSet(Tail(t)) = ToSet(t) \ {Head(t)}
         /\ IsInjective(Tail(t))
<1>1. /\ Len(t) \in Nat /\ Len(t) > 0 /\ DOMAIN t = 1..Len(t)
      /\ Head(t) = t[1]
      /\ Tail(t) \in Seq(S)
      /\ DOMAIN Tail(t) = 1..(Len(t) - 1)
      /\ \A i \in 1..(Len(t) - 1) : Tail(t)[i] = t[i + 1]
  BY LenProperties, EmptySeq, HeadTailProperties
<1>2. \A i \in DOMAIN Tail(t) : /\ i + 1 \in DOMAIN t /\ i + 1 # 1
                                /\ Tail(t)[i] = t[i + 1]
  BY <1>1
<1>3. \A i \in DOMAIN t : i # 1 => i - 1 \in DOMAIN Tail(t) /\ Tail(t)[i - 1] = t[i]
  <2>1. ASSUME NEW i \in DOMAIN t, i # 1
        PROVE  i - 1 \in DOMAIN Tail(t) /\ i - 1 + 1 = i
    BY <1>1, <2>1
  <2> QED
    BY <1>1, <2>1
<1>4. 1 \in DOMAIN t
  BY <1>1
<1>5. \A i, j \in DOMAIN Tail(t) : i + 1 = j + 1 => i = j
  BY <1>1
<1>6. ToSet(Tail(t)) \subseteq ToSet(t) \ {Head(t)}
  BY <1>1, <1>2, <1>4 DEF ToSet, IsInjective
<1>7. ToSet(t) \ {Head(t)} \subseteq ToSet(Tail(t))
  <2>1. ASSUME NEW i \in DOMAIN t, t[i] # Head(t)
        PROVE  t[i] \in ToSet(Tail(t))
    <3>1. i - 1 \in DOMAIN Tail(t) /\ Tail(t)[i - 1] = t[i]
      BY <1>1, <1>3, <2>1
    <3> QED
      BY <3>1 DEF ToSet
  <2> QED
    BY <2>1 DEF ToSet
<1>8. IsInjective(Tail(t))
  BY <1>2, <1>5 DEF IsInjective
<1> QED
  BY <1>1, <1>6, <1>7, <1>8

\* Popping a sequence without duplicates removes its last entry.
LEMMA FrontSet ==
  ASSUME NEW S, NEW t \in Seq(S), t # <<>>, IsInjective(t)
  PROVE  /\ Front(t) \in Seq(S)
         /\ ToSet(Front(t)) = ToSet(t) \ {Last(t)}
         /\ IsInjective(Front(t))
<1> DEFINE k == Len(t) - 1
<1>1. /\ Len(t) \in Nat /\ Len(t) > 0 /\ DOMAIN t = 1..Len(t)
      /\ \A i \in 1..Len(t) : t[i] \in S
  BY LenProperties, EmptySeq, ElementOfSeq
<1>2. k \in Nat /\ k + 1 = Len(t)
  BY <1>1
<1>3. Front(t) = SubSeq(t, 1, k) /\ Last(t) = t[Len(t)]
  BY DEF Front, Last
<1> HIDE DEF k
<1>4. \A i \in 1..k : t[i] \in S /\ 1 + i - 1 = i
  BY <1>1, <1>2
<1>5. /\ Front(t) \in Seq(S)
      /\ Len(Front(t)) = k
      /\ \A i \in 1..k : Front(t)[i] = t[1 + i - 1]
  BY <1>2, <1>3, <1>4, SubSeqProperties
<1>6. DOMAIN Front(t) = 1..k
  BY <1>5, LenProperties
<1>7. \A i \in DOMAIN Front(t) : Front(t)[i] = t[i] /\ i \in DOMAIN t /\ i # Len(t)
  BY <1>1, <1>2, <1>4, <1>5, <1>6
<1>8. \A i \in DOMAIN t : i # Len(t) => i \in DOMAIN Front(t)
  BY <1>1, <1>2, <1>6
<1>9. Len(t) \in DOMAIN t
  BY <1>1
<1>10. ToSet(Front(t)) = ToSet(t) \ {Last(t)}
  <2>1. ASSUME NEW x \in ToSet(Front(t))  PROVE x \in ToSet(t) \ {Last(t)}
    BY <1>3, <1>7, <1>9, <2>1 DEF ToSet, IsInjective
  <2>2. ASSUME NEW x \in ToSet(t) \ {Last(t)}  PROVE x \in ToSet(Front(t))
    BY <1>3, <1>7, <1>8, <2>2 DEF ToSet
  <2> QED
    BY <2>1, <2>2
<1>11. IsInjective(Front(t))
  BY <1>7 DEF IsInjective
<1> QED
  BY <1>5, <1>10, <1>11

\* Pushing a new entry at either end adds it to the entries.
LEMMA PushSet ==
  ASSUME NEW S, NEW t \in Seq(S), NEW e \in S, e \notin ToSet(t), IsInjective(t)
  PROVE  /\ Append(t, e) \in Seq(S) /\ Append(t, e) # <<>>
         /\ ToSet(Append(t, e)) = ToSet(t) \cup {e}
         /\ IsInjective(Append(t, e))
         /\ Cons(e, t) \in Seq(S)
         /\ ToSet(Cons(e, t)) = ToSet(t) \cup {e}
         /\ IsInjective(Cons(e, t))
<1> DEFINE a == Append(t, e)
           b == Cons(e, t)
           k == Len(t)
<1>1. /\ k \in Nat /\ DOMAIN t = 1..k
      /\ a \in Seq(S) /\ Len(a) = k + 1 /\ DOMAIN a = 1..(k + 1)
      /\ \A i \in 1..k : a[i] = t[i]
      /\ a[k + 1] = e
  BY LenProperties, AppendProperties
<1>2. b = <<e>> \o t /\ <<e>> \in Seq(S) /\ Len(<<e>>) = 1 /\ <<e>>[1] = e
  BY DEF Cons
<1>3. /\ b \in Seq(S) /\ Len(b) = 1 + k
      /\ \A i \in 1..(1 + k) : b[i] = IF i <= 1 THEN <<e>>[i] ELSE t[i - 1]
  BY <1>2, ConcatProperties
<1>4. DOMAIN b = 1..(k + 1)
  BY <1>1, <1>3, LenProperties
<1> HIDE DEF a, b, k
<1>5. /\ \A i \in DOMAIN a : (i \in DOMAIN t /\ a[i] = t[i]) \/ (i = k + 1 /\ a[i] = e)
      /\ \A i \in DOMAIN t : i \in DOMAIN a /\ a[i] = t[i]
      /\ k + 1 \in DOMAIN a
  BY <1>1
<1>6. /\ \A i \in DOMAIN b : (i - 1 \in DOMAIN t /\ b[i] = t[i - 1]) \/ (i = 1 /\ b[i] = e)
      /\ 1 \in DOMAIN b /\ b[1] = e
  BY <1>1, <1>2, <1>3, <1>4
<1>7. \A i \in DOMAIN t : i + 1 \in DOMAIN b /\ b[i + 1] = t[i]
  <2>1. ASSUME NEW i \in DOMAIN t
        PROVE  i + 1 \in 1..(k + 1) /\ ~(i + 1 <= 1) /\ i + 1 - 1 = i
    BY <1>1
  <2> QED
    BY <1>1, <1>3, <1>4, <2>1
<1>8. \A i, j \in DOMAIN b : i - 1 = j - 1 => i = j
  BY <1>1, <1>4
<1>9. /\ ToSet(a) = ToSet(t) \cup {e}
      /\ IsInjective(a)
  BY <1>1, <1>5 DEF ToSet, IsInjective
<1>10. ToSet(b) = ToSet(t) \cup {e}
  BY <1>6, <1>7 DEF ToSet
<1>11. IsInjective(b)
  BY <1>6, <1>8 DEF ToSet, IsInjective
<1>12. a # <<>>
  BY <1>5
<1> QED
  BY <1>1, <1>3, <1>9, <1>10, <1>11, <1>12 DEF a, b

-----------------------------------------------------------------------------
(* Moves.                                                                  *)

\* A loose connection joins the free ones of its pool, at either end.
LEMMA BecomesFree ==
  ASSUME NEW w, NEW f, NEW s, NEW h, NEW n, NEW o, NEW p \in Pools, NEW c,
         Places(w, f, s, h, n, o), Loose(c, p, f, h, n, o), w[p] = <<>>,
         NEW g, g = [f EXCEPT ![p] = Append(@, c)] \/ g = [f EXCEPT ![p] = Cons(c, @)]
  PROVE  Places(w, g, s, h, n, o)
<1>1. /\ f \in [Pools -> Seq(Conns)] /\ f[p] \in Seq(Conns)
      /\ c \in Conns /\ n[c] = "open" /\ o[c] = p
      /\ c \notin ToSet(f[p]) /\ IsInjective(f[p])
      /\ \A u \in Users : h[u] # c
  BY DEF Places, PlacesType, Loose, FreeInv
<1>2. g[p] = Append(f[p], c) \/ g[p] = Cons(c, f[p])
  BY <1>1
<1>3. /\ g[p] \in Seq(Conns)
      /\ ToSet(g[p]) = ToSet(f[p]) \cup {c}
      /\ IsInjective(g[p])
  <2>1. /\ Append(f[p], c) \in Seq(Conns) /\ Cons(c, f[p]) \in Seq(Conns)
        /\ ToSet(Append(f[p], c)) = ToSet(f[p]) \cup {c}
        /\ ToSet(Cons(c, f[p])) = ToSet(f[p]) \cup {c}
        /\ IsInjective(Append(f[p], c)) /\ IsInjective(Cons(c, f[p]))
    BY <1>1, PushSet
  <2> QED
    BY <1>2, <2>1
<1>4. g \in [Pools -> Seq(Conns)] /\ \A q \in Pools : q # p => g[q] = f[q]
  BY <1>1, <1>3
<1>5. FreeInv(g, h, n, o)
  BY <1>1, <1>3, <1>4 DEF Places, FreeInv
<1> QED
  BY <1>4, <1>5 DEF Places, PlacesType

\* A user at the head of a line leaves it.
LEMMA LeavesLine ==
  ASSUME NEW w, NEW s, NEW p \in Pools, NEW new,
         w \in [Pools -> Seq(Users)], s \in [Users -> ClientStates \cup PoolStates],
         LinesInv(w, s), w[p] # <<>>
  PROVE  LET u == Head(w[p])
             v == [w EXCEPT ![p] = Tail(@)]
         IN  /\ u \in Users /\ s[u] \in WaitStates /\ (u \in Pools => u = p)
             /\ v \in [Pools -> Seq(Users)]
             /\ \A q \in Pools : v[q] # <<>> => w[q] # <<>>
             /\ LinesInv(v, [s EXCEPT ![u] = new])
<1> DEFINE u == Head(w[p])
           v == [w EXCEPT ![p] = Tail(@)]
           r == [s EXCEPT ![u] = new]
<1>1. w[p] \in Seq(Users) /\ IsInjective(w[p])
  BY DEF LinesInv
<1>2. /\ u \in Users /\ u \in ToSet(w[p])
      /\ s[u] \in WaitStates /\ (u \in Pools => u = p)
  BY <1>1, SeqSet DEF LinesInv
<1>3. /\ Tail(w[p]) \in Seq(Users)
      /\ ToSet(Tail(w[p])) = ToSet(w[p]) \ {u}
      /\ IsInjective(Tail(w[p]))
  BY <1>1, TailSet
<1>4. /\ v \in [Pools -> Seq(Users)]
      /\ v[p] = Tail(w[p])
      /\ \A q \in Pools : q # p => v[q] = w[q]
  BY <1>3
<1>5. \A q \in Pools : v[q] # <<>> => w[q] # <<>>
  BY <1>4
<1>6. \A x \in Users : x # u => r[x] = s[x]
  OBVIOUS
<1> HIDE DEF u, v, r
<1>7. \A q \in Pools : u \notin ToSet(v[q]) /\ ToSet(v[q]) \subseteq ToSet(w[q])
  BY <1>2, <1>3, <1>4 DEF LinesInv
<1>8. \A q \in Pools : ToSet(w[q]) \subseteq Users
  BY SeqSet
<1>9. \A q \in Pools : IsInjective(v[q])
  BY <1>3, <1>4 DEF LinesInv
<1>10. \A q \in Pools : \A x \in ToSet(v[q]) : r[x] \in WaitStates /\ (x \in Pools => x = q)
  BY <1>6, <1>7, <1>8 DEF LinesInv
<1>11. \A q \in Pools : r[q] # "ready" => ToSet(v[q]) \subseteq {q}
  <2> SUFFICES ASSUME NEW q \in Pools, r[q] # "ready"
               PROVE  ToSet(v[q]) \subseteq {q}
    OBVIOUS
  <2>1. CASE q = u
    <3>1. s[q] # "ready"
      BY <1>2, <2>1 DEF WaitStates
    <3> QED
      BY <1>7, <3>1 DEF LinesInv
  <2>2. CASE q # u
    BY <1>6, <1>7, <2>2 DEF LinesInv, Users
  <2> QED
    BY <2>1, <2>2
<1>12. \A q, x \in Pools : q # x => ToSet(v[q]) \cap ToSet(v[x]) = {}
  BY <1>7 DEF LinesInv
<1>13. LinesInv(v, r)
  BY <1>9, <1>10, <1>11, <1>12 DEF LinesInv
<1> QED
  BY <1>2, <1>4, <1>5, <1>13 DEF u, v, r

\* A loose connection goes to the user that has waited longest on its pool.
LEMMA GoesToWaiting ==
  ASSUME NEW w, NEW f, NEW s, NEW h, NEW n, NEW o, NEW p \in Pools, NEW c,
         Places(w, f, s, h, n, o), Loose(c, p, f, h, n, o), w[p] # <<>>,
         NEW u, u = Head(w[p]),
         NEW new, new = IF s[u] = "waitingQuery" THEN "querying" ELSE "holding"
  PROVE  Places([w EXCEPT ![p] = Tail(@)], f, [s EXCEPT ![u] = new], [h EXCEPT ![u] = c], n, o)
<1> DEFINE v == [w EXCEPT ![p] = Tail(@)]
           r == [s EXCEPT ![u] = new]
           k == [h EXCEPT ![u] = c]
<1>1. /\ PlacesType(w, f, s, h, n, o)
      /\ LinesInv(w, s) /\ HeldInv(s, h, n, o) /\ FreeInv(f, h, n, o)
      /\ \A q \in Pools : w[q] # <<>> => f[q] = <<>>
  BY DEF Places
<1>2. /\ u \in Users /\ s[u] \in WaitStates /\ (u \in Pools => u = p)
      /\ v \in [Pools -> Seq(Users)]
      /\ \A q \in Pools : v[q] # <<>> => w[q] # <<>>
      /\ LinesInv(v, r)
  BY <1>1, LeavesLine DEF PlacesType
<1>3. /\ s \in [Users -> ClientStates \cup PoolStates]
      /\ h \in [Users -> Conns \cup {NoConn}]
      /\ c \in Conns /\ n[c] = "open" /\ o[c] = p /\ c # NoConn
      /\ \A x \in Users : h[x] # c
      /\ c \notin ToSet(f[p])
  BY <1>1, NoConnAssumption DEF PlacesType, Loose
<1>4. /\ \A x \in Users : r[x] = IF x = u THEN new ELSE s[x]
      /\ \A x \in Users : k[x] = IF x = u THEN c ELSE h[x]
      /\ r \in [Users -> ClientStates \cup PoolStates]
      /\ k \in [Users -> Conns \cup {NoConn}]
  BY <1>2, <1>3 DEF ClientStates, PoolStates
<1>5. new \in HoldStates /\ (u \in Pools => new = "holding") /\ (u \in Clients => new \in ClientStates)
  <2>1. u \in Pools => s[u] \in PoolStates
    BY <1>1 DEF PlacesType
  <2> QED
    BY <2>1 DEF HoldStates, ClientStates, PoolStates
<1> HIDE DEF v, r, k
<1>6. PlacesType(v, f, r, k, n, o)
  <2>1. \A x \in Clients : r[x] \in ClientStates
    BY <1>1, <1>4, <1>5 DEF PlacesType, Users
  <2>2. \A q \in Pools : r[q] \in PoolStates
    BY <1>1, <1>4, <1>5 DEF PlacesType, Users, PoolStates
  <2> QED
    BY <1>1, <1>2, <1>4, <2>1, <2>2 DEF PlacesType
<1>7. HeldInv(r, k, n, o)
  <2>1. \A x \in Users : (k[x] # NoConn) <=> (r[x] \in HoldStates)
    BY <1>1, <1>3, <1>4, <1>5 DEF HeldInv
  <2>2. \A x \in Users : k[x] # NoConn => n[k[x]] = "open"
    BY <1>1, <1>3, <1>4 DEF HeldInv
  <2>3. \A x, y \in Users : k[x] = k[y] /\ k[x] # NoConn => x = y
    BY <1>1, <1>3, <1>4 DEF HeldInv
  <2>4. \A q \in Pools : r[q] = "holding" => o[k[q]] = q
    BY <1>1, <1>2, <1>3, <1>4 DEF HeldInv, Users
  <2> QED
    BY <2>1, <2>2, <2>3, <2>4 DEF HeldInv
<1>8. FreeInv(f, k, n, o)
  BY <1>1, <1>3, <1>4 DEF FreeInv
<1>9. \A q \in Pools : v[q] # <<>> => f[q] = <<>>
  BY <1>1, <1>2
<1> QED
  BY <1>2, <1>6, <1>7, <1>8, <1>9 DEF Places, v, r, k

\* A user gives up what it holds: the connection is loose.
LEMMA GivesUp ==
  ASSUME NEW w, NEW f, NEW s, NEW h, NEW n, NEW o, NEW u \in Users,
         Places(w, f, s, h, n, o), s[u] \in HoldStates,
         NEW after, u \in Pools => after = "ready", u \notin Pools => after = "idle"
  PROVE  /\ Places(w, f, [s EXCEPT ![u] = after], [h EXCEPT ![u] = NoConn], n, o)
         /\ Loose(h[u], o[h[u]], f, [h EXCEPT ![u] = NoConn], n, o)
         /\ o[h[u]] \in Pools
<1> DEFINE r == [s EXCEPT ![u] = after]
           k == [h EXCEPT ![u] = NoConn]
<1>1. /\ PlacesType(w, f, s, h, n, o)
      /\ LinesInv(w, s) /\ HeldInv(s, h, n, o) /\ FreeInv(f, h, n, o)
  BY DEF Places
<1>2. /\ s \in [Users -> ClientStates \cup PoolStates]
      /\ h \in [Users -> Conns \cup {NoConn}]
      /\ h[u] \in Conns /\ n[h[u]] = "open" /\ o[h[u]] \in Pools
  BY <1>1, NoConnAssumption DEF PlacesType, HeldInv
<1>3. /\ \A x \in Users : r[x] = IF x = u THEN after ELSE s[x]
      /\ \A x \in Users : k[x] = IF x = u THEN NoConn ELSE h[x]
      /\ r \in [Users -> ClientStates \cup PoolStates]
      /\ k \in [Users -> Conns \cup {NoConn}]
  <2>1. after \in ClientStates \cup PoolStates
    BY DEF ClientStates, PoolStates
  <2> QED
    BY <1>2, <2>1
<1> HIDE DEF r, k
<1>4. PlacesType(w, f, r, k, n, o)
  <2>1. \A x \in Clients : r[x] \in ClientStates
    BY <1>1, <1>3, UsersAssumption DEF PlacesType, Users, ClientStates
  <2>2. \A q \in Pools : r[q] \in PoolStates
    BY <1>1, <1>3 DEF PlacesType, Users, PoolStates
  <2> QED
    BY <1>1, <1>3, <2>1, <2>2 DEF PlacesType
<1>5. \A q \in Pools : u \notin ToSet(w[q]) /\ ToSet(w[q]) \subseteq Users
  <2>1. \A q \in Pools : ToSet(w[q]) \subseteq Users
    BY <1>1, SeqSet DEF PlacesType
  <2> QED
    BY <1>1, <2>1 DEF LinesInv, HoldStates, WaitStates
<1>6. LinesInv(w, r)
  <2>1. \A q \in Pools : \A x \in ToSet(w[q]) : r[x] = s[x]
    BY <1>3, <1>5
  <2>2. ASSUME NEW q \in Pools, r[q] # "ready"
        PROVE  s[q] # "ready"
    BY <1>3, <2>2 DEF Users
  <2> QED
    BY <1>1, <2>1, <2>2 DEF LinesInv
<1>7. HeldInv(r, k, n, o)
  <2>1. \A x \in Users : (k[x] # NoConn) <=> (r[x] \in HoldStates)
    BY <1>1, <1>3 DEF HeldInv, HoldStates
  <2>2. \A x \in Users : k[x] # NoConn => n[k[x]] = "open"
    BY <1>1, <1>3 DEF HeldInv
  <2>3. \A x, y \in Users : k[x] = k[y] /\ k[x] # NoConn => x = y
    BY <1>1, <1>3 DEF HeldInv
  <2>4. \A q \in Pools : r[q] = "holding" => o[k[q]] = q
    BY <1>1, <1>3 DEF HeldInv, Users
  <2> QED
    BY <2>1, <2>2, <2>3, <2>4 DEF HeldInv
<1>8. FreeInv(f, k, n, o)
  BY <1>1, <1>3, NoConnAssumption, SeqSet DEF FreeInv, PlacesType
<1>9. Loose(h[u], o[h[u]], f, k, n, o)
  <2>1. \A x \in Users : k[x] # h[u]
    BY <1>1, <1>2, <1>3, NoConnAssumption DEF HeldInv
  <2> QED
    BY <1>1, <1>2, <2>1 DEF Loose, FreeInv
<1> QED
  BY <1>1, <1>2, <1>4, <1>6, <1>7, <1>8, <1>9 DEF Places, r, k

\* What init() holds is of its own pool, and nobody else can have asked yet.
LEMMA InitHolds ==
  ASSUME NEW w, NEW f, NEW s, NEW h, NEW n, NEW o, NEW p \in Pools,
         Places(w, f, s, h, n, o), s[p] \in HoldStates
  PROVE  o[h[p]] = p /\ w[p] = <<>>
<1>1. /\ PlacesType(w, f, s, h, n, o)
      /\ LinesInv(w, s) /\ HeldInv(s, h, n, o)
  BY DEF Places
<1>2. s[p] = "holding"
  BY <1>1 DEF PlacesType, PoolStates, HoldStates
<1>3. w[p] \in Seq(Users) /\ p \notin ToSet(w[p]) /\ ToSet(w[p]) \subseteq {p}
  BY <1>1, <1>2 DEF LinesInv, PlacesType, WaitStates
<1>4. w[p] = <<>>
  BY <1>3, SeqSet
<1> QED
  BY <1>1, <1>2, <1>4 DEF HeldInv

\* Who is about to ask holds nothing and is in no line.
LEMMA AskerHasNothing ==
  ASSUME NEW w, NEW f, NEW s, NEW h, NEW n, NEW o, NEW u \in Users,
         Places(w, f, s, h, n, o), s[u] \in {"idle", "new"}
  PROVE  /\ h[u] = NoConn
         /\ \A q \in Pools : u \notin ToSet(w[q]) /\ ToSet(w[q]) \subseteq Users
<1>1. PlacesType(w, f, s, h, n, o) /\ LinesInv(w, s) /\ HeldInv(s, h, n, o)
  BY DEF Places
<1>2. \A q \in Pools : ToSet(w[q]) \subseteq Users
  BY <1>1, SeqSet DEF PlacesType
<1>3. \A q \in Pools : u \notin ToSet(w[q])
  BY <1>1 DEF LinesInv, WaitStates
<1>4. h[u] = NoConn
  BY <1>1 DEF HeldInv, HoldStates
<1> QED
  BY <1>2, <1>3, <1>4

\* The connection that a pool would hand out is open, its own, and nobody has it;
\* and then nobody waits.
LEMMA FreeIsAvailable ==
  ASSUME NEW w, NEW f, NEW s, NEW h, NEW n, NEW o, NEW p \in Pools,
         Places(w, f, s, h, n, o), f[p] # <<>>
  PROVE  /\ w[p] = <<>>
         /\ Last(f[p]) \in ToSet(f[p]) /\ Last(f[p]) \in Conns
         /\ n[Last(f[p])] = "open" /\ o[Last(f[p])] = p
         /\ \A x \in Users : h[x] # Last(f[p])
<1>1. FreeInv(f, h, n, o) /\ f[p] \in Seq(Conns)
  BY DEF Places, PlacesType
<1>2. Last(f[p]) \in ToSet(f[p]) /\ Last(f[p]) \in Conns
  BY <1>1, SeqSet
<1> QED
  BY <1>1, <1>2 DEF Places, FreeInv

\* A user joins the line of a pool that has no free connection.
LEMMA JoinsLine ==
  ASSUME NEW w, NEW f, NEW s, NEW h, NEW n, NEW o, NEW u \in Users, NEW p \in Pools,
         Places(w, f, s, h, n, o), f[p] = <<>>,
         \/ u \in Clients /\ s[u] = "idle" /\ s[p] = "ready"
         \/ u = p /\ s[p] = "new",
         NEW new \in WaitStates, u \in Pools => new = "waiting"
  PROVE  Places([w EXCEPT ![p] = Append(@, u)], f, [s EXCEPT ![u] = new], h, n, o)
<1> DEFINE v == [w EXCEPT ![p] = Append(@, u)]
           r == [s EXCEPT ![u] = new]
<1>1. /\ PlacesType(w, f, s, h, n, o)
      /\ LinesInv(w, s) /\ HeldInv(s, h, n, o) /\ FreeInv(f, h, n, o)
      /\ \A q \in Pools : w[q] # <<>> => f[q] = <<>>
  BY DEF Places
<1>2. s[u] \in {"idle", "new"}
  OBVIOUS
<1>3. /\ h[u] = NoConn
      /\ \A q \in Pools : u \notin ToSet(w[q]) /\ ToSet(w[q]) \subseteq Users
  BY <1>2, AskerHasNothing
<1>4. /\ w \in [Pools -> Seq(Users)] /\ w[p] \in Seq(Users) /\ IsInjective(w[p])
      /\ s \in [Users -> ClientStates \cup PoolStates]
  BY <1>1 DEF PlacesType, LinesInv
<1>5. /\ Append(w[p], u) \in Seq(Users)
      /\ ToSet(Append(w[p], u)) = ToSet(w[p]) \cup {u}
      /\ IsInjective(Append(w[p], u))
  BY <1>3, <1>4, PushSet
<1>6. /\ v \in [Pools -> Seq(Users)]
      /\ v[p] = Append(w[p], u)
      /\ \A q \in Pools : q # p => v[q] = w[q]
      /\ \A x \in Users : r[x] = IF x = u THEN new ELSE s[x]
      /\ r \in [Users -> ClientStates \cup PoolStates]
  BY <1>4, <1>5 DEF WaitStates, ClientStates, PoolStates
<1> HIDE DEF v, r
<1>7. PlacesType(v, f, r, h, n, o)
  <2>1. \A x \in Clients : r[x] \in ClientStates
    BY <1>1, <1>6 DEF PlacesType, Users, ClientStates, WaitStates
  <2>2. \A q \in Pools : r[q] \in PoolStates
    BY <1>1, <1>6 DEF PlacesType, Users, PoolStates
  <2> QED
    BY <1>1, <1>6, <2>1, <2>2 DEF PlacesType
<1>8. LinesInv(v, r)
  <2>1. \A q \in Pools : IsInjective(v[q])
    BY <1>1, <1>5, <1>6 DEF LinesInv
  <2> DEFINE entry(q, x) == x \in ToSet(w[q]) \/ (q = p /\ x = u)
  <2>2. ASSUME NEW q \in Pools, NEW x \in ToSet(v[q])
        PROVE  entry(q, x)
    BY <1>5, <1>6, <2>2
  <2>3. ASSUME NEW q \in Pools, NEW x, entry(q, x)
        PROVE  r[x] \in WaitStates /\ (x \in Pools => x = q)
    <3>1. CASE x \in ToSet(w[q])
      <4>1. x \in Users /\ x # u
        BY <1>3, <3>1
      <4> QED
        BY <1>1, <1>6, <3>1, <4>1 DEF LinesInv
    <3>2. CASE q = p /\ x = u
      BY <1>6, <3>2, UsersAssumption
    <3> QED
      BY <2>3, <3>1, <3>2
  <2>4. ASSUME NEW q \in Pools, NEW x, entry(q, x), r[q] # "ready"
        PROVE  x = q
    <3>1. q \in Users
      BY DEF Users
    <3>2. CASE q = u
      BY <1>1, <1>2, <2>4, <3>2, UsersAssumption DEF LinesInv
    <3>3. CASE q # u
      <4>1. s[q] # "ready"
        BY <1>6, <2>4, <3>1, <3>3
      <4> QED
        BY <1>1, <2>4, <3>3, <4>1 DEF LinesInv
    <3> QED
      BY <3>2, <3>3
  <2>5. ASSUME NEW q \in Pools, NEW z \in Pools, NEW x, entry(q, x), entry(z, x)
        PROVE  q = z
    BY <1>1, <1>3, <2>5 DEF LinesInv
  <2> HIDE DEF entry
  <2>6. \A q \in Pools : \A x \in ToSet(v[q]) : r[x] \in WaitStates /\ (x \in Pools => x = q)
    BY <2>2, <2>3
  <2>7. \A q \in Pools : r[q] # "ready" => ToSet(v[q]) \subseteq {q}
    BY <2>2, <2>4
  <2>8. \A q, z \in Pools : q # z => ToSet(v[q]) \cap ToSet(v[z]) = {}
    BY <2>2, <2>5
  <2> QED
    BY <2>1, <2>6, <2>7, <2>8 DEF LinesInv
<1>9. HeldInv(r, h, n, o)
  <2>1. \A x \in Users : (h[x] # NoConn) <=> (r[x] \in HoldStates)
    BY <1>1, <1>3, <1>6 DEF HeldInv, HoldStates, WaitStates
  <2>2. \A q \in Pools : r[q] = "holding" => o[h[q]] = q
    BY <1>1, <1>6 DEF HeldInv, Users, WaitStates
  <2> QED
    BY <1>1, <2>1, <2>2 DEF HeldInv
<1>10. \A q \in Pools : v[q] # <<>> => f[q] = <<>>
  BY <1>1, <1>6
<1> QED
  BY <1>1, <1>7, <1>8, <1>9, <1>10 DEF Places, v, r

\* A user takes the last free connection of a pool that has one.
LEMMA TakesFree ==
  ASSUME NEW w, NEW f, NEW s, NEW h, NEW n, NEW o, NEW u \in Users, NEW p \in Pools,
         Places(w, f, s, h, n, o), f[p] # <<>>,
         \/ u \in Clients /\ s[u] = "idle"
         \/ u = p /\ s[p] = "new",
         NEW new \in HoldStates, u \in Pools => new = "holding"
  PROVE  Places(w, [f EXCEPT ![p] = Front(@)], [s EXCEPT ![u] = new],
                [h EXCEPT ![u] = Last(f[p])], n, o)
<1> DEFINE c == Last(f[p])
           g == [f EXCEPT ![p] = Front(@)]
           r == [s EXCEPT ![u] = new]
           k == [h EXCEPT ![u] = c]
<1>1. /\ PlacesType(w, f, s, h, n, o)
      /\ LinesInv(w, s) /\ HeldInv(s, h, n, o) /\ FreeInv(f, h, n, o)
      /\ \A q \in Pools : w[q] # <<>> => f[q] = <<>>
  BY DEF Places
<1>2. s[u] \in {"idle", "new"}
  OBVIOUS
<1>3. /\ h[u] = NoConn
      /\ \A q \in Pools : u \notin ToSet(w[q]) /\ ToSet(w[q]) \subseteq Users
  BY <1>2, AskerHasNothing
<1>4. /\ f \in [Pools -> Seq(Conns)] /\ f[p] \in Seq(Conns) /\ IsInjective(f[p])
      /\ s \in [Users -> ClientStates \cup PoolStates]
      /\ h \in [Users -> Conns \cup {NoConn}]
  BY <1>1 DEF PlacesType, FreeInv
<1>5. /\ c \in ToSet(f[p]) /\ c \in Conns /\ c # NoConn
      /\ n[c] = "open" /\ o[c] = p
      /\ \A x \in Users : h[x] # c
  BY <1>1, <1>4, SeqSet, NoConnAssumption DEF FreeInv
<1>6. /\ Front(f[p]) \in Seq(Conns)
      /\ ToSet(Front(f[p])) = ToSet(f[p]) \ {c}
      /\ IsInjective(Front(f[p]))
  BY <1>4, FrontSet
<1> HIDE DEF c
<1>7. /\ g \in [Pools -> Seq(Conns)]
      /\ g[p] = Front(f[p])
      /\ \A q \in Pools : q # p => g[q] = f[q]
      /\ \A x \in Users : r[x] = IF x = u THEN new ELSE s[x]
      /\ r \in [Users -> ClientStates \cup PoolStates]
      /\ \A x \in Users : k[x] = IF x = u THEN c ELSE h[x]
      /\ k \in [Users -> Conns \cup {NoConn}]
  BY <1>4, <1>5, <1>6 DEF HoldStates, ClientStates, PoolStates
<1> HIDE DEF g, r, k
<1>8. PlacesType(w, g, r, k, n, o)
  <2>1. \A x \in Clients : r[x] \in ClientStates
    BY <1>1, <1>7 DEF PlacesType, Users, ClientStates, HoldStates
  <2>2. \A q \in Pools : r[q] \in PoolStates
    BY <1>1, <1>7 DEF PlacesType, Users, PoolStates
  <2> QED
    BY <1>1, <1>7, <2>1, <2>2 DEF PlacesType
<1>9. LinesInv(w, r)
  <2>1. \A q \in Pools : \A x \in ToSet(w[q]) : r[x] = s[x]
    BY <1>3, <1>7
  <2>2. ASSUME NEW q \in Pools, r[q] # "ready"
        PROVE  s[q] # "ready"
    BY <1>2, <1>7, <2>2 DEF Users
  <2> QED
    BY <1>1, <2>1, <2>2 DEF LinesInv
<1>10. HeldInv(r, k, n, o)
  <2>1. \A x \in Users : (k[x] # NoConn) <=> (r[x] \in HoldStates)
    BY <1>1, <1>5, <1>7 DEF HeldInv
  <2>2. \A x \in Users : k[x] # NoConn => n[k[x]] = "open"
    BY <1>1, <1>5, <1>7 DEF HeldInv
  <2>3. \A x, y \in Users : k[x] = k[y] /\ k[x] # NoConn => x = y
    BY <1>1, <1>5, <1>7 DEF HeldInv
  <2>4. \A q \in Pools : r[q] = "holding" => o[k[q]] = q
    BY <1>1, <1>5, <1>7, UsersAssumption DEF HeldInv, Users
  <2> QED
    BY <2>1, <2>2, <2>3, <2>4 DEF HeldInv
<1>11. FreeInv(g, k, n, o)
  <2>1. \A q \in Pools : IsInjective(g[q]) /\ ToSet(g[q]) \subseteq ToSet(f[q])
    BY <1>1, <1>6, <1>7 DEF FreeInv
  <2>2. \A q \in Pools : c \notin ToSet(g[q])
    <3>1. c \notin ToSet(g[p])
      BY <1>6, <1>7
    <3>2. ASSUME NEW q \in Pools, q # p, c \in ToSet(g[q])
          PROVE  FALSE
      BY <1>1, <1>5, <2>1, <3>2 DEF FreeInv
    <3> QED
      BY <3>1, <3>2
  <2>3. ASSUME NEW q \in Pools, NEW x \in ToSet(g[q]), NEW y \in Users
        PROVE  k[y] # x
    <3>1. x \in ToSet(f[q]) /\ x # c
      BY <2>1, <2>2
    <3>2. h[y] # x
      BY <1>1, <3>1 DEF FreeInv
    <3> QED
      BY <1>7, <3>1, <3>2
  <2> QED
    BY <1>1, <2>1, <2>3 DEF FreeInv
<1>12. \A q \in Pools : w[q] # <<>> => g[q] = <<>>
  BY <1>1, <1>7
<1>13. Places(w, g, r, k, n, o)
  BY <1>8, <1>9, <1>10, <1>11, <1>12 DEF Places
<1> QED
  BY <1>13 DEF c, g, r, k

\* The user that has waited longest on a pool is answered with an error.
LEMMA IsRefused ==
  ASSUME NEW w, NEW f, NEW s, NEW h, NEW n, NEW o, NEW p \in Pools,
         Places(w, f, s, h, n, o), w[p] # <<>>,
         NEW u, u = Head(w[p]), NEW new \in AfterError(u)
  PROVE  Places([w EXCEPT ![p] = Tail(@)], f, [s EXCEPT ![u] = new], h, n, o)
<1> DEFINE v == [w EXCEPT ![p] = Tail(@)]
           r == [s EXCEPT ![u] = new]
<1>1. /\ PlacesType(w, f, s, h, n, o)
      /\ LinesInv(w, s) /\ HeldInv(s, h, n, o) /\ FreeInv(f, h, n, o)
      /\ \A q \in Pools : w[q] # <<>> => f[q] = <<>>
  BY DEF Places
<1>2. /\ u \in Users /\ s[u] \in WaitStates /\ (u \in Pools => u = p)
      /\ v \in [Pools -> Seq(Users)]
      /\ \A q \in Pools : v[q] # <<>> => w[q] # <<>>
      /\ LinesInv(v, r)
  BY <1>1, LeavesLine DEF PlacesType
<1>3. IF u \in Clients THEN new = "idle" ELSE new \in {"failed", "ready"}
  BY DEF AfterError
<1>4. s \in [Users -> ClientStates \cup PoolStates]
  BY <1>1 DEF PlacesType
<1>5. /\ \A x \in Users : r[x] = IF x = u THEN new ELSE s[x]
      /\ r \in [Users -> ClientStates \cup PoolStates]
  BY <1>2, <1>3, <1>4 DEF ClientStates, PoolStates
<1> HIDE DEF v, r
<1>6. PlacesType(v, f, r, h, n, o)
  <2>1. \A x \in Clients : r[x] \in ClientStates
    BY <1>1, <1>3, <1>5 DEF PlacesType, Users, ClientStates
  <2>2. \A q \in Pools : r[q] \in PoolStates
    BY <1>1, <1>3, <1>5, UsersAssumption DEF PlacesType, Users, PoolStates
  <2> QED
    BY <1>1, <1>2, <1>5, <2>1, <2>2 DEF PlacesType
<1>7. HeldInv(r, h, n, o)
  <2>1. \A x \in Users : (h[x] # NoConn) <=> (r[x] \in HoldStates)
    BY <1>1, <1>2, <1>3, <1>5 DEF HeldInv, HoldStates, WaitStates
  <2>2. \A q \in Pools : r[q] = "holding" => o[h[q]] = q
    BY <1>1, <1>3, <1>5 DEF HeldInv, Users
  <2> QED
    BY <1>1, <2>1, <2>2 DEF HeldInv
<1>8. \A q \in Pools : v[q] # <<>> => f[q] = <<>>
  BY <1>1, <1>2
<1> QED
  BY <1>1, <1>2, <1>6, <1>7, <1>8 DEF Places, v, r

\* Native connections change state or home, but none that is free or held.
LEMMA NativeMoves ==
  ASSUME NEW w, NEW f, NEW s, NEW h, NEW n, NEW o,
         Places(w, f, s, h, n, o),
         NEW m \in [Conns -> NativeStates], NEW l \in [Conns -> Pools],
         \A c \in Conns :
             \/ m[c] = n[c] /\ l[c] = o[c]
             \/ n[c] # "open"
             \/ \A p \in Pools : \A u \in Users : c \notin ToSet(f[p]) /\ h[u] # c
  PROVE  Places(w, f, s, h, m, l)
<1>1. /\ PlacesType(w, f, s, h, n, o)
      /\ LinesInv(w, s) /\ HeldInv(s, h, n, o) /\ FreeInv(f, h, n, o)
  BY DEF Places
<1>2. \A u \in Users : h[u] # NoConn => h[u] \in Conns
  BY <1>1 DEF PlacesType
<1>3. \A u \in Users : h[u] # NoConn => m[h[u]] = n[h[u]] /\ l[h[u]] = o[h[u]]
  <2>1. ASSUME NEW u \in Users, h[u] # NoConn
        PROVE  m[h[u]] = n[h[u]] /\ l[h[u]] = o[h[u]]
    <3>1. \/ m[h[u]] = n[h[u]] /\ l[h[u]] = o[h[u]]
          \/ \A p \in Pools : \A x \in Users : h[u] \notin ToSet(f[p]) /\ h[x] # h[u]
      BY <1>1, <1>2, <2>1 DEF HeldInv
    <3>2. o[h[u]] \in Pools
      BY <1>1, <1>2, <2>1 DEF PlacesType
    <3> QED
      BY <3>1, <3>2
  <2> QED
    BY <2>1
<1>4. ASSUME NEW p \in Pools, NEW c \in ToSet(f[p])
      PROVE  m[c] = "open" /\ l[c] = p
  <2>1. c \in Conns
    BY <1>1, SeqSet DEF PlacesType
  <2>2. n[c] = "open" /\ o[c] = p
    BY <1>1 DEF FreeInv
  <2>3. \/ m[c] = n[c] /\ l[c] = o[c]
        \/ Users = {}
    BY <2>1, <2>2
  <2>4. p \in Users
    BY DEF Users
  <2> QED
    BY <2>2, <2>3, <2>4
<1>5. HeldInv(s, h, m, l)
  <2>1. \A p \in Pools : s[p] = "holding" => h[p] # NoConn
    BY <1>1 DEF HeldInv, Users, HoldStates
  <2> QED
    BY <1>1, <1>3, <2>1 DEF HeldInv, Users
<1>6. FreeInv(f, h, m, l)
  BY <1>1, <1>4 DEF FreeInv
<1> QED
  BY <1>1, <1>5, <1>6 DEF Places, PlacesType

\* A pool forgets its free connections.
LEMMA FreeEmptied ==
  ASSUME NEW w, NEW f, NEW s, NEW h, NEW n, NEW o, NEW p \in Pools,
         Places(w, f, s, h, n, o)
  PROVE  /\ Places(w, [f EXCEPT ![p] = <<>>], s, h, n, o)
         /\ \A c \in ToSet(f[p]) : \A q \in Pools : \A u \in Users :
              c \notin ToSet([f EXCEPT ![p] = <<>>][q]) /\ h[u] # c
<1> DEFINE g == [f EXCEPT ![p] = <<>>]
<1>1. /\ PlacesType(w, f, s, h, n, o)
      /\ LinesInv(w, s) /\ HeldInv(s, h, n, o) /\ FreeInv(f, h, n, o)
      /\ \A q \in Pools : w[q] # <<>> => f[q] = <<>>
  BY DEF Places
<1>2. f \in [Pools -> Seq(Conns)]
  BY <1>1 DEF PlacesType
<1>3. <<>> \in Seq(Conns) /\ ToSet(<<>>) = {} /\ IsInjective(<<>>)
  <2>1. <<>> \in Seq(Conns) /\ DOMAIN <<>> = {}
    OBVIOUS
  <2> QED
    BY <2>1, SeqSet DEF IsInjective
<1>4. /\ g \in [Pools -> Seq(Conns)]
      /\ g[p] = <<>>
      /\ \A q \in Pools : q # p => g[q] = f[q]
  BY <1>2, <1>3
<1> HIDE DEF g
<1>5. FreeInv(g, h, n, o)
  <2>1. \A q \in Pools : IsInjective(g[q]) /\ ToSet(g[q]) \subseteq ToSet(f[q])
    <3>1. IsInjective(g[p]) /\ ToSet(g[p]) = {}
      BY <1>3, <1>4
    <3> QED
      BY <1>1, <1>4, <3>1 DEF FreeInv
  <2> QED
    BY <1>1, <2>1 DEF FreeInv
<1>6. \A q \in Pools : w[q] # <<>> => g[q] = <<>>
  BY <1>1, <1>4
<1>7. ASSUME NEW c \in ToSet(f[p]), NEW q \in Pools, NEW u \in Users
      PROVE  c \notin ToSet(g[q]) /\ h[u] # c
  <2>1. o[c] = p /\ h[u] # c
    BY <1>1 DEF FreeInv
  <2>2. q # p => \A x \in ToSet(g[q]) : o[x] = q
    BY <1>1, <1>4 DEF FreeInv
  <2> QED
    BY <1>3, <1>4, <2>1, <2>2
<1> QED
  BY <1>1, <1>4, <1>5, <1>6, <1>7 DEF Places, PlacesType, g
=============================================================================
