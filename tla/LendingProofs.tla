--------------------------- MODULE LendingProofs ---------------------------
(***************************************************************************)
(* Proofs about module Lending, for any pools, users and connections.      *)
(***************************************************************************)
EXTENDS Lending, TLAPS

LendTypes == /\ line \in [Pools -> Seq(Users)]
             /\ lent \in [Users -> Conns \cup {NoConn}]

\* A connection has one user, who waits has none, and nobody waits twice.
OneUserEach == \A u, v \in Users : lent[u] # NoConn /\ lent[u] = lent[v] => u = v
WaitersHaveNone == \A p \in Pools : \A i \in 1..Len(line[p]) : lent[line[p][i]] = NoConn
WaitOnce == \A p, q \in Pools : \A i \in 1..Len(line[p]), k \in 1..Len(line[q]) :
               line[p][i] = line[q][k] => p = q /\ i = k
LendInv == OneUserEach /\ WaitersHaveNone /\ WaitOnce

\* The first in a line: a user, without a connection; behind it are others.
LEMMA FirstInLine ==
    ASSUME LendTypes, LendInv, NEW p \in Pools, line[p] # <<>>
    PROVE  /\ Head(line[p]) \in Users
           /\ lent[Head(line[p])] = NoConn
           /\ Tail(line[p]) \in Seq(Users)
           /\ \A i \in 1..Len(Tail(line[p])) : Tail(line[p])[i] = line[p][i + 1]
           /\ Len(Tail(line[p])) = Len(line[p]) - 1
           /\ \A q \in Pools : \A i \in 1..Len(line[q]) :
                 line[q][i] = Head(line[p]) => q = p /\ i = 1
<1>1. line[p] \in Seq(Users) /\ Len(line[p]) > 0 /\ Head(line[p]) = line[p][1]
  BY DEF LendTypes
<1>2. 1 \in 1..Len(line[p])
  BY <1>1
<1>3. Head(line[p]) \in Users /\ lent[Head(line[p])] = NoConn
  BY <1>1, <1>2 DEF LendInv, WaitersHaveNone
<1>4. /\ Tail(line[p]) \in Seq(Users)
      /\ \A i \in 1..Len(Tail(line[p])) : Tail(line[p])[i] = line[p][i + 1]
      /\ Len(Tail(line[p])) = Len(line[p]) - 1
  BY <1>1
<1>5. \A q \in Pools : \A i \in 1..Len(line[q]) : line[q][i] = Head(line[p]) => q = p /\ i = 1
  BY <1>1, <1>2 DEF LendInv, WaitOnce
<1> QED
  BY <1>3, <1>4, <1>5

\* Serving the first in line, when its connection is nobody else's.
LEMMA ServedInLine ==
    ASSUME LendTypes, LendInv, NEW p \in Pools, line[p] # <<>>,
           line' = [line EXCEPT ![p] = Tail(@)]
    PROVE  /\ line' \in [Pools -> Seq(Users)]
           /\ WaitOnce'
           /\ \A q \in Pools : \A i \in 1..Len(line'[q]) :
                 /\ line'[q][i] # Head(line[p])
                 /\ line'[q][i] \in Users
                 /\ lent[line'[q][i]] = NoConn
<1>1. /\ Tail(line[p]) \in Seq(Users)
      /\ \A i \in 1..Len(Tail(line[p])) : Tail(line[p])[i] = line[p][i + 1]
      /\ Len(Tail(line[p])) = Len(line[p]) - 1
      /\ \A q \in Pools : \A i \in 1..Len(line[q]) : line[q][i] = Head(line[p]) => q = p /\ i = 1
  BY FirstInLine
<1>2. line' \in [Pools -> Seq(Users)]
  BY <1>1 DEF LendTypes
<1>3. line'[p] = Tail(line[p]) /\ \A q \in Pools : q # p => line'[q] = line[q]
  BY DEF LendTypes
<1>4. \A q \in Pools : line[q] \in Seq(Users) /\ Len(line[q]) \in Nat
  BY DEF LendTypes
<1>5. ASSUME NEW q \in Pools, NEW i \in 1..Len(line'[q])
      PROVE  \E k \in 1..Len(line[q]) : /\ line'[q][i] = line[q][k]
                                        /\ k = IF q = p THEN i + 1 ELSE i
  <2>1. CASE q = p
    <3>1. i \in 1..(Len(line[p]) - 1) /\ line'[q][i] = line[q][i + 1]
      BY <2>1, <1>1, <1>3
    <3>2. i + 1 \in 1..Len(line[q])
      BY <3>1, <2>1, <1>4
    <3> QED
      BY <3>1, <3>2, <2>1
  <2>2. CASE q # p
    BY <2>2, <1>3
  <2> QED
    BY <2>1, <2>2
<1>6. WaitOnce'
  <2> SUFFICES ASSUME NEW q \in Pools, NEW r \in Pools, NEW i \in 1..Len(line'[q]),
                      NEW k \in 1..Len(line'[r]), line'[q][i] = line'[r][k]
               PROVE  q = r /\ i = k
    BY DEF WaitOnce
  <2>1. PICK m \in 1..Len(line[q]) : line'[q][i] = line[q][m] /\ m = IF q = p THEN i + 1 ELSE i
    BY <1>5
  <2>2. PICK n \in 1..Len(line[r]) : line'[r][k] = line[r][n] /\ n = IF r = p THEN k + 1 ELSE k
    BY <1>5
  <2>3. q = r /\ m = n
    BY <2>1, <2>2 DEF LendInv, WaitOnce
  <2>4. i \in Nat /\ k \in Nat
    BY <1>2
  <2> QED
    BY <2>1, <2>2, <2>3, <2>4
<1>7. ASSUME NEW q \in Pools, NEW i \in 1..Len(line'[q])
      PROVE  line'[q][i] # Head(line[p]) /\ line'[q][i] \in Users /\ lent[line'[q][i]] = NoConn
  <2>1. PICK m \in 1..Len(line[q]) : line'[q][i] = line[q][m] /\ m = IF q = p THEN i + 1 ELSE i
    BY <1>5
  <2>2. m # 1 \/ q # p
    BY <2>1, <1>2
  <2> QED
    BY <2>1, <2>2, <1>1, <1>4 DEF LendInv, WaitersHaveNone
<1> QED
  BY <1>2, <1>6, <1>7

\* The steps of Lending keep its invariant.
LEMMA LendingKept ==
    ASSUME LendTypes, LendInv, NoConn \notin Conns, [LendingNext]_lendingVars
    PROVE  LendTypes' /\ LendInv'
<1>1. ASSUME NEW p \in Pools, NEW u \in Users, Ask(p, u)
      PROVE  LendTypes' /\ LendInv'
  <2>1. line' = [line EXCEPT ![p] = Append(@, u)] /\ lent' = lent /\ lent[u] = NoConn
    BY <1>1 DEF Ask
  <2>2. /\ line[p] \in Seq(Users)
        /\ line'[p] = Append(line[p], u)
        /\ \A q \in Pools : q # p => line'[q] = line[q]
        /\ \A q \in Pools : line[q] \in Seq(Users) /\ Len(line[q]) \in Nat
    BY <2>1 DEF LendTypes
  <2>3. LendTypes'
    BY <2>1, <2>2 DEF LendTypes
  <2>4. \A q \in Pools : \A i \in 1..Len(line[q]) : line[q][i] # u
    BY <1>1 DEF Ask, Waits
  <2>5. ASSUME NEW q \in Pools, NEW i \in 1..Len(line'[q])
        PROVE  \/ i \in 1..Len(line[q]) /\ line'[q][i] = line[q][i]
               \/ q = p /\ i = Len(line[p]) + 1 /\ line'[q][i] = u
    BY <2>2
  <2>6. WaitOnce'
    <3> SUFFICES ASSUME NEW q \in Pools, NEW r \in Pools, NEW i \in 1..Len(line'[q]),
                        NEW k \in 1..Len(line'[r]), line'[q][i] = line'[r][k]
                 PROVE  q = r /\ i = k
      BY DEF WaitOnce
    <3>1. \/ i \in 1..Len(line[q]) /\ line'[q][i] = line[q][i]
          \/ q = p /\ i = Len(line[p]) + 1 /\ line'[q][i] = u
      BY <2>5
    <3>2. \/ k \in 1..Len(line[r]) /\ line'[r][k] = line[r][k]
          \/ r = p /\ k = Len(line[p]) + 1 /\ line'[r][k] = u
      BY <2>5
    <3> QED
      BY <3>1, <3>2, <2>4 DEF LendInv, WaitOnce
  <2>7. WaitersHaveNone'
    BY <2>1, <2>5 DEF LendInv, WaitersHaveNone
  <2> QED
    BY <2>1, <2>3, <2>6, <2>7 DEF LendInv, OneUserEach
<1>2. ASSUME NEW p \in Pools, NEW u \in Users, HandOver(p, u)
      PROVE  LendTypes' /\ LendInv'
  <2> DEFINE first == Head(line[p])
  <2>1. /\ line[p] # <<>> /\ lent[u] # NoConn
        /\ line' = [line EXCEPT ![p] = Tail(@)]
        /\ lent' = [lent EXCEPT ![u] = NoConn, ![first] = lent[u]]
    BY <1>2 DEF HandOver
  <2>2. first \in Users /\ lent[first] = NoConn
    BY <2>1, FirstInLine
  <2>3. /\ line' \in [Pools -> Seq(Users)]
        /\ WaitOnce'
        /\ \A q \in Pools : \A i \in 1..Len(line'[q]) :
              /\ line'[q][i] # first
              /\ line'[q][i] \in Users
              /\ lent[line'[q][i]] = NoConn
    BY <2>1, ServedInLine
  <2>4. /\ lent'[u] = NoConn /\ lent'[first] = lent[u]
        /\ \A v \in Users \ {u, first} : lent'[v] = lent[v]
    BY <2>1, <2>2 DEF LendTypes
  <2>5. LendTypes'
    BY <2>1, <2>2, <2>3 DEF LendTypes
  <2>6. OneUserEach'
    BY <2>1, <2>2, <2>4 DEF LendInv, OneUserEach
  <2>7. WaitersHaveNone'
    BY <2>3, <2>4 DEF WaitersHaveNone
  <2> QED
    BY <2>3, <2>5, <2>6, <2>7 DEF LendInv
<1>3. ASSUME NEW p \in Pools, NEW u \in Users, NEW c \in Conns, LendAtOnce(p, u, c)
      PROVE  LendTypes' /\ LendInv'
  <2>1. /\ lent' = [lent EXCEPT ![u] = c] /\ line' = line
        /\ \A v \in Users : lent[v] # c
        /\ \A q \in Pools : \A i \in 1..Len(line[q]) : line[q][i] # u
    BY <1>3 DEF LendAtOnce, Available, Waits
  <2>2. LendTypes'
    BY <2>1 DEF LendTypes
  <2>3. OneUserEach'
    BY <2>1 DEF LendTypes, LendInv, OneUserEach
  <2>4. \A q \in Pools : \A i \in 1..Len(line[q]) : line[q][i] \in Users
    BY DEF LendTypes
  <2>5. WaitersHaveNone'
    BY <2>1, <2>4 DEF LendTypes, LendInv, WaitersHaveNone
  <2> QED
    BY <2>1, <2>2, <2>3, <2>5 DEF LendInv, WaitOnce
<1>4. ASSUME NEW p \in Pools, NEW c \in Conns, Serve(p, c)
      PROVE  LendTypes' /\ LendInv'
  <2> DEFINE first == Head(line[p])
  <2>1. /\ line[p] # <<>> /\ \A v \in Users : lent[v] # c
        /\ line' = [line EXCEPT ![p] = Tail(@)]
        /\ lent' = [lent EXCEPT ![first] = c]
    BY <1>4 DEF Serve, Available
  <2>2. first \in Users /\ lent[first] = NoConn
    BY <2>1, FirstInLine
  <2>3. /\ line' \in [Pools -> Seq(Users)]
        /\ WaitOnce'
        /\ \A q \in Pools : \A i \in 1..Len(line'[q]) :
              /\ line'[q][i] # first
              /\ line'[q][i] \in Users
              /\ lent[line'[q][i]] = NoConn
    BY <2>1, ServedInLine
  <2>4. lent'[first] = c /\ \A v \in Users \ {first} : lent'[v] = lent[v]
    BY <2>1, <2>2 DEF LendTypes
  <2>5. LendTypes'
    BY <2>1, <2>2, <2>3 DEF LendTypes
  <2>6. OneUserEach'
    BY <2>1, <2>2, <2>4 DEF LendInv, OneUserEach
  <2>7. WaitersHaveNone'
    BY <2>3, <2>4 DEF WaitersHaveNone
  <2> QED
    BY <2>3, <2>5, <2>6, <2>7 DEF LendInv
<1>5. ASSUME NEW p \in Pools, Refuse(p)
      PROVE  LendTypes' /\ LendInv'
  <2>1. line[p] # <<>> /\ line' = [line EXCEPT ![p] = Tail(@)] /\ lent' = lent
    BY <1>5 DEF Refuse
  <2>2. /\ line' \in [Pools -> Seq(Users)]
        /\ WaitOnce'
        /\ \A q \in Pools : \A i \in 1..Len(line'[q]) : lent[line'[q][i]] = NoConn
    BY <2>1, ServedInLine
  <2> QED
    BY <2>1, <2>2 DEF LendTypes, LendInv, OneUserEach, WaitersHaveNone
<1>6. ASSUME NEW u \in Users, Return(u)
      PROVE  LendTypes' /\ LendInv'
  <2>1. lent' = [lent EXCEPT ![u] = NoConn] /\ line' = line
    BY <1>6 DEF Return
  <2>2. \A q \in Pools : \A i \in 1..Len(line[q]) : line[q][i] \in Users
    BY DEF LendTypes
  <2> QED
    BY <2>1, <2>2 DEF LendTypes, LendInv, OneUserEach, WaitersHaveNone, WaitOnce
<1>7. CASE UNCHANGED lendingVars
  BY <1>7 DEF lendingVars, LendTypes, LendInv, OneUserEach, WaitersHaveNone, WaitOnce
<1> QED
  BY <1>1, <1>2, <1>3, <1>4, <1>5, <1>6, <1>7 DEF LendingNext

\* A connection is lent to one user at a time, and nobody waits twice or waits with
\* a connection (Pool.js, which implements Lending: module PoolRefines).
THEOREM LendingSafe == ASSUME NoConn \notin Conns PROVE LendingSpec => [](LendTypes /\ LendInv)
<1>1. LendingInit => LendTypes /\ LendInv
  BY DEF LendingInit, LendTypes, LendInv, OneUserEach, WaitersHaveNone, WaitOnce
<1>2. LendTypes /\ LendInv /\ [LendingNext]_lendingVars => (LendTypes /\ LendInv)'
  BY LendingKept
<1> QED
  BY <1>1, <1>2, PTL DEF LendingSpec
=============================================================================
