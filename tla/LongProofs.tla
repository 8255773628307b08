----------------------------- MODULE LongProofs ----------------------------
(***************************************************************************)
(* Proofs about module LongData: for all values the loop is right for, and *)
(* every size of the first buffer, what it stores is the value, and a      *)
(* driver that tells the size is asked at most twice. SQL_NO_DATA, which   *)
(* would end the loop early, is never reached.                             *)
(***************************************************************************)
EXTENDS LongData, TLAPS

\* The driver has only values that the code's loop is right for (LongData says which).
HandledOnly == \A c \in Columns : Handled(c)

Even(n) == n % 2 = 0

\* The first n bytes of the value are where they belong.
Holds(n) == n <= capacity /\ \A i \in 1..n : content[i] = i

LongType ==
    /\ column \in Columns
    /\ at \in Stages \ {"noData"}
    /\ capacity \in Nat
    /\ content \in [1..capacity -> Nat]
    /\ size \in Int
    /\ indicator \in Int
    /\ given \in Nat
    /\ taken \in Nat
    /\ calls \in Nat

\* Wide characters are never split.
WholeCharacters == column.kind = "wide" /\ column.length # NullData =>
                       Even(capacity) /\ Even(size) /\ Even(given) /\ Even(taken)

\* Between the chunk and the growing of the buffer: the chunk is not in size yet,
\* and something is left.
AtGrow == at = "grow" =>
    /\ column.length # NullData
    /\ size \in Nat
    /\ taken = size + given
    /\ taken < column.length
    /\ Holds(taken)
    /\ column.total =>
          /\ calls = 1
          /\ size = 0
          /\ indicator = column.length
          /\ column.kind = "binary" => given = capacity
    /\ ~column.total => indicator = NoTotal /\ column.kind # "binary"

\* Before the next chunk; if the size is known there is room for all the rest.
AtMore == at = "more" =>
    /\ column.length # NullData
    /\ size = taken
    /\ taken < column.length
    /\ Holds(taken)
    /\ column.total => calls = 1 /\ Left <= Room(capacity - size)
    /\ ~column.total => column.kind # "binary"

AtEnds ==
    /\ at = "first" => size = 0 /\ given = 0 /\ taken = 0 /\ capacity = 0
    /\ at = "done" /\ column.length # NullData => size = column.length /\ Holds(size)
    /\ at \in Stages \ {"grow", "more"} => AskedTwiceAtMost

LongInv == LongType /\ WholeCharacters /\ AtGrow /\ AtMore /\ AtEnds

-----------------------------------------------------------------------------
(* Arithmetic of even numbers.                                             *)

\* A terminator keeps what is left of wide text even.
LEMMA EvenRest ==
    ASSUME NEW a \in Int, NEW b \in Int, a % 2 = 0, b % 2 = 0
    PROVE  (a + 2 - b) % 2 = 0
BY SMT

LEMMA EvenDouble == ASSUME NEW a \in Int PROVE Even(a * 2) /\ Even((a \div 2) * 2 - 2)
BY SMT DEF Even

\* The sum of two even numbers is even.
LEMMA EvenSum == ASSUME NEW a \in Int, NEW b \in Int, Even(a), Even(b) PROVE Even(a + b)
BY SMTT(20) DEF Even

LEMMA EvenHalf == ASSUME NEW a \in Int, Even(a) PROVE (a \div 2) * 2 = a
BY SMT DEF Even

-----------------------------------------------------------------------------
(* What the driver gives for a buffer.                                     *)

LEMMA TerminatorValue ==
    ASSUME column.kind \in Kinds
    PROVE  /\ column.kind = "binary" => Terminator = 0
           /\ column.kind = "char" => Terminator = 1
           /\ column.kind = "wide" => Terminator = 2
BY DEF Terminator, Kinds

\* There is room for the value's bytes beside the terminator, and no more than that.
LEMMA RoomBounds ==
    ASSUME column.kind \in Kinds, NEW space \in Int
    PROVE  /\ Room(space) \in Nat
           /\ space >= 0 => Room(space) <= space
           /\ Room(space) > 0 => Room(space) <= space - Terminator
<1>1. CASE column.kind = "binary" BY <1>1, TerminatorValue, SMT DEF Room
<1>2. CASE column.kind = "char" BY <1>2, TerminatorValue, SMT DEF Room
<1>3. CASE column.kind = "wide" BY <1>3, TerminatorValue, SMT DEF Room
<1>q. QED BY <1>1, <1>2, <1>3 DEF Kinds

\* All of that room is usable, if wide characters are not split.
LEMMA RoomExact ==
    ASSUME column.kind \in Kinds, NEW space \in Int, space > Terminator,
           column.kind = "wide" => Even(space)
    PROVE  Room(space) = space - Terminator
<1>1. CASE column.kind = "wide" BY <1>1, TerminatorValue, EvenHalf, SMT DEF Room
<1>2. CASE column.kind # "wide" BY <1>2, TerminatorValue, SMT DEF Room, Kinds
<1>q. QED BY <1>1, <1>2

\* The types of the value's parts.
LEMMA ColumnType ==
    ASSUME column \in Columns
    PROVE  /\ column.kind \in Kinds
           /\ column.length \in Nat \/ column.length = NullData
           /\ column.length \in Int
           /\ column.total \in BOOLEAN
           /\ column.initial \in Nat \ {0}
BY ColumnsAssumption DEF NullData

\* Chunks keep wide characters whole.
LEMMA ChunkEven ==
    ASSUME column \in Columns, Handled(column), column.kind = "wide",
           column.length # NullData, taken \in Nat, Even(taken), NEW space \in Int
    PROVE  Even(Left) /\ Even(Room(space)) /\ Even(Chunk(space))
<1>1. Even(column.length) /\ column.length \in Int
  BY ColumnType DEF Handled, Even
<1>2. Even(Left) /\ Left \in Int
  <2>1. column.length % 2 = 0 /\ taken % 2 = 0 BY <1>1 DEF Even
  <2>2. (column.length - taken) % 2 = 0 BY <1>1, <2>1, SMT
  <2>q. QED BY <1>1, <2>2 DEF Left, Even
<1>3. Even(Room(space))
  <2>1. Terminator = 2 BY ColumnType, TerminatorValue
  <2>2. CASE space <= 2
    <3>1. Room(space) = 0 BY <2>1, <2>2, SMT DEF Room
    <3>q. QED BY <3>1 DEF Even
  <2>3. CASE space > 2
    <3>1. Room(space) = (space \div 2) * 2 - 2 BY <2>1, <2>3, SMT DEF Room
    <3>q. QED BY <3>1, EvenDouble
  <2>q. QED BY <2>2, <2>3
<1>q. QED BY <1>2, <1>3 DEF Chunk

-----------------------------------------------------------------------------
(* One lemma per step.                                                     *)

\* The first buffer is enough for a value the loop is right for if and only if the
\* code takes it to be.
LEMMA FirstFits ==
    ASSUME column \in Columns, Handled(column), column.length # NullData
    PROVE  column.length <= Room(column.initial) <=> column.length < column.initial
<1> DEFINE B == column.initial
           L == column.length
<1>1. L \in Nat /\ B \in Nat \ {0} /\ column.kind \in Kinds BY ColumnType
<1>2. /\ Room(B) \in Nat
      /\ Room(B) <= B
      /\ Room(B) > 0 => Room(B) <= B - Terminator
  BY <1>1, RoomBounds
<1>3. B > Terminator /\ (column.kind = "wide" => Even(B)) => Room(B) = B - Terminator
  BY <1>1, RoomExact
<1>4. CASE column.kind = "binary"
  <2>1. L # B BY <1>4 DEF Handled
  <2>2. Room(B) = B BY <1>1, <1>3, <1>4, TerminatorValue
  <2>q. QED BY <1>1, <2>1, <2>2
<1>5. CASE column.kind = "char"
  <2>1. Terminator = 1 BY <1>1, <1>5, TerminatorValue
  <2>2. CASE B = 1 BY <1>1, <1>2, <2>1, <2>2
  <2>3. CASE B > 1
    <3>1. Room(B) = B - 1 BY <1>3, <1>5, <2>1, <2>3
    <3>q. QED BY <1>1, <3>1
  <2>q. QED BY <1>1, <2>2, <2>3
<1>6. CASE column.kind = "wide"
  <2>1. Terminator = 2 BY <1>1, <1>6, TerminatorValue
  <2>2. L % 2 = 0 /\ B % 2 = 0 BY <1>6 DEF Handled
  <2>3. L < B <=> L <= B - 2 BY <1>1, <2>2, SMT
  <2>4. CASE B > 2
    <3>1. Room(B) = B - 2 BY <1>3, <1>6, <2>1, <2>2, <2>4 DEF Even
    <3>q. QED BY <2>3, <3>1
  <2>5. CASE B = 2 BY <1>1, <1>2, <2>1, <2>3, <2>5
  <2>q. QED BY <1>1, <2>2, <2>4, <2>5, SMT
<1>q. QED BY <1>1, <1>4, <1>5, <1>6 DEF Kinds

\* A chunk that is written behind what the buffer holds extends it.
LEMMA ReceiveHolds ==
    ASSUME column \in Columns, taken \in Nat, NEW n \in Nat, NEW space \in Nat,
           NEW buffer \in [1..n -> Nat], taken + space <= n, Left \in Nat,
           \A i \in 1..taken : buffer[i] = i,
           Receive(taken, space, buffer)
    PROVE  /\ content' \in [1..n -> Nat]
           /\ taken' <= n
           /\ \A i \in 1..taken' : content'[i] = i
<1>1. Room(space) \in Nat /\ Room(space) <= space
  BY ColumnType, RoomBounds
<1>2. Chunk(space) \in Nat /\ Chunk(space) <= space
  BY <1>1 DEF Chunk
<1>3. taken' = taken + Chunk(space) BY DEF Receive
<1>4. DOMAIN buffer = 1..n OBVIOUS
<1>5. content' = [i \in 1..n |-> IF taken < i /\ i <= taken + Chunk(space)
                                   THEN taken + i - taken ELSE buffer[i]]
  BY <1>4 DEF Receive
<1>6. \A i \in 1..n : taken < i /\ i <= taken + Chunk(space) => taken + i - taken = i
  OBVIOUS
<1>7. content' \in [1..n -> Nat] BY <1>5, <1>6
<1>8. \A i \in 1..taken' : content'[i] = i
  <2>1. SUFFICES ASSUME NEW i \in 1..taken' PROVE content'[i] = i OBVIOUS
  <2>2. i \in 1..n BY <1>2, <1>3
  <2>3. CASE i <= taken BY <1>5, <2>2, <2>3
  <2>4. CASE i > taken BY <1>2, <1>3, <1>5, <2>2, <2>4
  <2>q. QED BY <2>3, <2>4
<1>9. taken' <= n BY <1>2, <1>3
<1>q. QED BY <1>7, <1>8, <1>9

\* What the driver tells of a chunk, and what is left behind it.
LEMMA ReceiveCounts ==
    ASSUME column \in Columns, column.length # NullData, taken \in Nat, Left \in Nat,
           NEW space \in Nat,
           given' = Chunk(space), taken' = taken + Chunk(space), indicator' = Told(space)
    PROVE  /\ given' \in Nat
           /\ taken' \in Nat
           /\ taken' = taken + given'
           /\ Left > Room(space) => taken' < column.length
           /\ Left <= Room(space) => taken' = column.length /\ indicator' = Left
           /\ column.total => indicator' = Left
           /\ ~column.total /\ Left > Room(space) => indicator' = NoTotal
           /\ indicator' \in Int
<1>1. Room(space) \in Nat BY ColumnType, RoomBounds
<1>2. column.length \in Int /\ Left = column.length - taken BY ColumnType DEF Left
<1>3. Chunk(space) \in Nat BY <1>1 DEF Chunk
<1>4. CASE Left > Room(space)
  <2>1. Chunk(space) = Room(space) BY <1>1, <1>4 DEF Chunk
  <2>2. Told(space) = IF column.total THEN Left ELSE NoTotal BY <1>1, <1>4 DEF Told
  <2>q. QED BY <1>1, <1>2, <1>4, <2>1, <2>2 DEF NoTotal
<1>5. CASE Left <= Room(space)
  <2>1. Chunk(space) = Left /\ Told(space) = Left BY <1>5 DEF Chunk, Told
  <2>q. QED BY <1>1, <1>2, <1>5, <2>1
<1>q. QED BY <1>1, <1>4, <1>5

LEMMA FirstStep ==
    ASSUME HandledOnly, LongInv, FirstChunk
    PROVE  LongInv'
<1> DEFINE B == column.initial
           L == column.length
<1>1. /\ column \in Columns /\ column' = column /\ Handled(column)
      /\ size = 0 /\ given = 0 /\ taken = 0
      /\ capacity' = B /\ calls' = 1
  BY DEF LongInv, LongType, AtEnds, HandledOnly, FirstChunk
<1>2. /\ column.kind \in Kinds /\ B \in Nat \ {0} /\ column.total \in BOOLEAN
      /\ L \in Nat \/ L = NullData
  BY <1>1, ColumnType
<1>3. Untouched(B) \in [1..B -> Nat] BY <1>2 DEF Untouched
<1>4. CASE L = NullData
  <2>1. /\ at' = "done" /\ size' = NullData /\ indicator' = NullData
        /\ content' = Untouched(B) /\ given' = 0 /\ taken' = 0
    BY <1>1, <1>4 DEF FirstChunk
  <2>2. LongType' BY <1>1, <1>2, <1>3, <2>1 DEF LongType, Stages, NullData
  <2>q. QED
    BY <1>1, <1>4, <2>1, <2>2
    DEF LongInv, WholeCharacters, AtGrow, AtMore, AtEnds, AskedTwiceAtMost
<1>5. CASE L # NullData
  <2>1. Receive(0, B, Untouched(B)) BY <1>1, <1>5 DEF FirstChunk
  <2>2. Left = L /\ L \in Nat BY <1>1, <1>2, <1>5 DEF Left
  <2>3. /\ content' \in [1..B -> Nat] /\ taken' <= B
        /\ \A i \in 1..taken' : content'[i] = i
    <3>1. Receive(taken, B, Untouched(B)) BY <1>1, <2>1
    <3>2. taken \in Nat /\ taken + B <= B /\ B \in Nat /\ Left \in Nat BY <1>1, <1>2, <2>2
    <3>3. \A i \in 1..taken : Untouched(B)[i] = i BY <1>1
    <3>q. QED BY <1>1, <1>3, <3>1, <3>2, <3>3, ReceiveHolds
  <2>4. /\ given' = Chunk(B)
        /\ given' \in Nat
        /\ taken' = given'
        /\ L > Room(B) => taken' < L
        /\ L <= Room(B) => taken' = L /\ indicator' = L
        /\ column.total => indicator' = L
        /\ ~column.total /\ L > Room(B) => indicator' = NoTotal
        /\ indicator' \in Int
    <3>1. given' = Chunk(B) /\ taken' = taken + Chunk(B) /\ indicator' = Told(B)
      BY <1>1, <2>1 DEF Receive
    <3>2. taken \in Nat /\ B \in Nat BY <1>1, <1>2
    <3>q. QED BY <1>1, <1>5, <2>2, <3>1, <3>2, ReceiveCounts
  <2>5. L <= Room(B) <=> L < B BY <1>1, <1>5, FirstFits
  <2>6. Room(B) \in Nat BY <1>2, RoomBounds
  <2>7. column.kind = "wide" => Even(B) /\ Even(given')
    BY <1>1, <1>2, <1>5, <2>4, ChunkEven DEF Handled, Even
  <2>8. CASE indicator' = NoTotal \/ indicator' >= B
    <3>1. at' = "grow" /\ size' = 0 BY <1>1, <1>5, <2>8 DEF FirstChunk
    <3>2. L > Room(B)
      <4>1. SUFFICES ASSUME L <= Room(B) PROVE FALSE BY <1>2, <2>2, <2>6
      <4>2. indicator' = L /\ L < B BY <2>4, <2>5, <4>1
      <4>q. QED BY <1>2, <2>2, <2>8, <4>2 DEF NoTotal
    <3>3. column.kind = "binary" => column.total BY <1>1, <1>5 DEF Handled
    <3>4. LongType' BY <1>1, <1>2, <2>3, <2>4, <3>1 DEF LongType, Stages
    <3>5. WholeCharacters' BY <1>1, <2>4, <2>7, <3>1 DEF WholeCharacters, Even
    <3>6. Holds(taken)' BY <1>1, <2>3 DEF Holds
    <3>7. column.kind = "binary" => given' = B
      <4>1. SUFFICES ASSUME column.kind = "binary" PROVE Room(B) = B
        BY <1>2, <2>2, <2>4, <2>6, <3>2 DEF Chunk
      <4>q. QED BY <1>2, <4>1, TerminatorValue, RoomExact
    <3>8. AtGrow'
      BY <1>1, <1>2, <1>5, <2>4, <3>1, <3>2, <3>3, <3>6, <3>7 DEF AtGrow
    <3>q. QED BY <3>1, <3>4, <3>5, <3>8 DEF LongInv, AtMore, AtEnds
  <2>9. CASE ~(indicator' = NoTotal \/ indicator' >= B)
    <3>1. at' = "done" /\ size' = indicator' BY <1>1, <1>5, <2>9 DEF FirstChunk
    <3>2. L <= Room(B)
      <4>1. SUFFICES ASSUME L > Room(B) PROVE FALSE BY <1>2, <2>2, <2>6
      <4>2. indicator' = L BY <1>2, <2>4, <2>9, <4>1
      <4>3. L >= B BY <1>2, <2>2, <2>5, <2>6, <4>1
      <4>q. QED BY <1>2, <2>2, <2>9, <4>2, <4>3
    <3>3. indicator' = L /\ taken' = L BY <2>4, <3>2
    <3>4. LongType' BY <1>1, <1>2, <2>3, <2>4, <3>1 DEF LongType, Stages
    <3>5. WholeCharacters' BY <1>1, <2>4, <2>7, <3>1, <3>3 DEF WholeCharacters, Even
    <3>6. AtEnds'
      BY <1>1, <2>3, <3>1, <3>3 DEF AtEnds, Holds, AskedTwiceAtMost
    <3>q. QED BY <3>1, <3>4, <3>5, <3>6 DEF LongInv, AtGrow, AtMore
  <2>q. QED BY <2>8, <2>9
<1>q. QED BY <1>4, <1>5

LEMMA GrowStep ==
    ASSUME HandledOnly, LongInv, GrowBuffer
    PROVE  LongInv'
<1> DEFINE L == column.length
<1>1. /\ column \in Columns /\ Handled(column) /\ column' = column
      /\ capacity \in Nat /\ content \in [1..capacity -> Nat]
      /\ size \in Nat /\ given \in Nat /\ taken \in Nat /\ calls \in Nat /\ indicator \in Int
      /\ indicator' = indicator /\ given' = given /\ taken' = taken /\ calls' = calls
      /\ at' = "more" /\ capacity' = NewCapacity /\ size' = size + Returned
      /\ content' = [i \in 1..NewCapacity |-> IF i <= capacity THEN content[i] ELSE 0]
      /\ L # NullData /\ taken = size + given /\ taken < L /\ Holds(taken)
      /\ column.total => /\ calls = 1 /\ size = 0 /\ indicator = L
                         /\ column.kind = "binary" => given = capacity
      /\ ~column.total => indicator = NoTotal /\ column.kind # "binary"
  BY DEF LongInv, LongType, AtGrow, HandledOnly, GrowBuffer
<1>2. column.kind \in Kinds /\ column.total \in BOOLEAN /\ L \in Nat
  BY <1>1, ColumnType
<1>3. size' = taken
  <2>1. CASE column.kind = "binary"
    <3>1. indicator = L /\ size = 0 /\ given = capacity /\ given < L BY <1>1, <1>2, <2>1
    <3>2. ~(size + indicator <= capacity) BY <1>1, <1>2, <3>1
    <3>3. Returned = capacity - size BY <2>1, <3>2 DEF Returned
    <3>q. QED BY <1>1, <3>1, <3>3
  <2>2. CASE column.kind # "binary"
    <3>1. Returned = given BY <2>2 DEF Returned
    <3>q. QED BY <1>1, <3>1
  <2>q. QED BY <2>1, <2>2
<1>4. ~column.total => NewCapacity = capacity * 2 BY <1>1 DEF NewCapacity
<1>5. ASSUME column.total
      PROVE  /\ column.kind = "binary" => NewCapacity = L
             /\ column.kind = "char" => NewCapacity = L * 4 + 1
             /\ column.kind = "wide" => NewCapacity = L + 2
  <2>1. indicator = L /\ size = 0 /\ indicator # NoTotal BY <1>1, <1>2, <1>5 DEF NoTotal
  <2>2. CASE column.kind = "char"
    <3>1. NewCapacity = size + indicator * MaxUtf8Bytes + 1 BY <2>1, <2>2 DEF NewCapacity
    <3>q. QED BY <1>2, <2>1, <2>2, <3>1 DEF MaxUtf8Bytes
  <2>3. CASE column.kind # "char"
    <3>1. NewCapacity = size + indicator + Terminator BY <2>1, <2>3 DEF NewCapacity
    <3>q. QED BY <1>2, <2>1, <2>3, <3>1, TerminatorValue
  <2>q. QED BY <2>2, <2>3
<1>6. NewCapacity \in Nat /\ taken <= NewCapacity
  <2>1. CASE column.total BY <1>1, <1>2, <1>5, <2>1 DEF Kinds
  <2>2. CASE ~column.total BY <1>1, <1>4, <2>2 DEF Holds
  <2>q. QED BY <2>1, <2>2
<1>7. content' \in [1..NewCapacity -> Nat] /\ \A i \in 1..taken : content'[i] = i
  <2>1. taken <= capacity /\ \A i \in 1..taken : content[i] = i BY <1>1 DEF Holds
  <2>2. \A i \in 1..NewCapacity : i <= capacity => content[i] \in Nat BY <1>1, <1>6
  <2>3. \A i \in 1..taken : i \in 1..NewCapacity /\ i <= capacity BY <1>1, <1>6, <2>1
  <2>q. QED BY <1>1, <2>1, <2>2, <2>3
<1>8. ASSUME column.total
      PROVE  L - taken <= Room(NewCapacity - taken)
  <2>1. CASE column.kind = "binary"
    <3>1. Terminator = 0 BY <1>2, <2>1, TerminatorValue
    <3>2. NewCapacity - taken \in Int /\ NewCapacity - taken > Terminator
      BY <1>1, <1>2, <1>5, <1>8, <2>1, <3>1
    <3>3. Room(NewCapacity - taken) = NewCapacity - taken - Terminator
      BY <1>2, <2>1, <3>2, RoomExact
    <3>q. QED BY <1>1, <1>2, <1>5, <1>8, <2>1, <3>1, <3>3
  <2>2. CASE column.kind = "char"
    <3>1. Terminator = 1 BY <1>2, <2>2, TerminatorValue
    <3>2. NewCapacity - taken \in Int /\ NewCapacity - taken > Terminator
      BY <1>1, <1>2, <1>5, <1>8, <2>2, <3>1
    <3>3. Room(NewCapacity - taken) = NewCapacity - taken - Terminator
      BY <1>2, <2>2, <3>2, RoomExact
    <3>q. QED BY <1>1, <1>2, <1>5, <1>8, <2>2, <3>1, <3>3
  <2>3. CASE column.kind = "wide"
    <3>1. Terminator = 2 BY <1>2, <2>3, TerminatorValue
    <3>2. NewCapacity = L + 2 BY <1>5, <1>8, <2>3
    <3>3. NewCapacity - taken \in Int /\ NewCapacity - taken > Terminator
      BY <1>1, <1>2, <3>1, <3>2
    <3>4. L % 2 = 0 /\ taken % 2 = 0
      BY <1>1, <2>3 DEF Handled, LongInv, WholeCharacters, Even
    <3>5. (L + 2 - taken) % 2 = 0
      <4>1. L \in Int /\ taken \in Int BY <1>1, <1>2
      <4>q. QED BY <3>4, <4>1, EvenRest
    <3>6. Even(NewCapacity - taken)
      <4>1. NewCapacity - taken = L + 2 - taken BY <1>1, <1>2, <3>2
      <4>q. QED BY <3>5, <4>1 DEF Even
    <3>7. Room(NewCapacity - taken) = NewCapacity - taken - Terminator
      BY <1>2, <3>3, <3>6, RoomExact
    <3>q. QED BY <1>1, <1>2, <3>1, <3>2, <3>7
  <2>q. QED BY <1>2, <2>1, <2>2, <2>3 DEF Kinds
<1>9. LongType' BY <1>1, <1>3, <1>6, <1>7 DEF LongType, Stages
<1>10. WholeCharacters'
  <2>1. SUFFICES ASSUME column.kind = "wide"
                 PROVE  Even(NewCapacity) /\ Even(taken) /\ Even(given)
    BY <1>1, <1>3 DEF WholeCharacters
  <2>2. Even(capacity) /\ Even(taken) /\ Even(given)
    BY <1>1, <2>1 DEF LongInv, WholeCharacters
  <2>3. CASE column.total
    <3>1. L % 2 = 0 BY <1>1, <2>1 DEF Handled
    <3>2. (L + 2) % 2 = 0 BY <1>2, <3>1, SMT
    <3>q. QED BY <1>5, <2>1, <2>2, <2>3, <3>2 DEF Even
  <2>4. CASE ~column.total BY <1>1, <1>4, <2>2, <2>4, EvenDouble
  <2>q. QED BY <1>2, <2>2, <2>3, <2>4
<1>11. AtMore'
  <2>1. Holds(taken)' BY <1>1, <1>6, <1>7 DEF Holds
  <2>2. column.total => Left' <= Room(capacity - size)'
    <3>1. Left' = L - taken BY <1>1 DEF Left
    <3>2. Room(capacity - size)' = Room(NewCapacity - taken)
      BY <1>1, <1>3 DEF Room, Terminator
    <3>q. QED BY <1>8, <3>1, <3>2
  <2>q. QED BY <1>1, <1>3, <2>1, <2>2 DEF AtMore
<1>q. QED BY <1>1, <1>9, <1>10, <1>11 DEF LongInv, AtGrow, AtEnds

LEMMA MoreStep ==
    ASSUME HandledOnly, LongInv, NextChunk
    PROVE  LongInv'
<1> DEFINE L == column.length
           S == capacity - size
<1>1. /\ column \in Columns /\ Handled(column) /\ column' = column
      /\ capacity \in Nat /\ content \in [1..capacity -> Nat]
      /\ size \in Nat /\ taken \in Nat /\ calls \in Nat
      /\ capacity' = capacity /\ calls' = IF calls < CountedCalls THEN calls + 1 ELSE calls
      /\ L # NullData /\ size = taken /\ taken < L /\ Holds(taken)
      /\ column.total => calls = 1 /\ Left <= Room(S)
      /\ ~column.total => column.kind # "binary"
  BY DEF LongInv, LongType, AtMore, HandledOnly, NextChunk
<1>2. column.kind \in Kinds /\ column.total \in BOOLEAN /\ L \in Nat
  BY <1>1, ColumnType
<1>3. S \in Nat /\ taken + S <= capacity /\ Left = L - taken /\ Left \in Nat /\ Left > 0
  BY <1>1, <1>2 DEF Holds, Left
<1>4. /\ Receive(taken, S, content)
      /\ IF indicator' # NoTotal /\ indicator' <= S - Terminator
           THEN at' = "done" /\ size' = size + indicator'
           ELSE at' = "grow" /\ size' = size
  BY <1>1, <1>3 DEF NextChunk
<1>5. /\ content' \in [1..capacity -> Nat]
      /\ taken' <= capacity
      /\ \A i \in 1..taken' : content'[i] = i
  <2>1. \A i \in 1..taken : content[i] = i BY <1>1 DEF Holds
  <2>q. QED BY <1>1, <1>3, <1>4, <2>1, ReceiveHolds
<1>6. /\ given' = Chunk(S)
      /\ given' \in Nat
      /\ taken' \in Nat
      /\ taken' = taken + given'
      /\ Left > Room(S) => taken' < L
      /\ Left <= Room(S) => taken' = L /\ indicator' = Left
      /\ ~column.total /\ Left > Room(S) => indicator' = NoTotal
      /\ indicator' \in Int
  <2>1. given' = Chunk(S) /\ taken' = taken + Chunk(S) /\ indicator' = Told(S)
    BY <1>4 DEF Receive
  <2>q. QED BY <1>1, <1>3, <2>1, ReceiveCounts
<1>7. /\ Room(S) \in Nat
      /\ Room(S) > 0 => Room(S) <= S - Terminator
  BY <1>2, <1>3, RoomBounds
<1>8. Terminator \in Nat BY <1>2, TerminatorValue DEF Kinds
<1>9. calls' \in Nat /\ (column.total => calls' = 2) BY <1>1 DEF CountedCalls
<1>10. ASSUME column.kind = "wide"
       PROVE  Even(capacity) /\ Even(size) /\ Even(given') /\ Even(taken')
  <2>1. Even(capacity) /\ Even(size) /\ Even(taken)
    BY <1>1, <1>10 DEF LongInv, WholeCharacters
  <2>2. Even(given') BY <1>1, <1>3, <1>6, <1>10, <2>1, ChunkEven
  <2>3. Even(taken') BY <1>1, <1>6, <2>1, <2>2, EvenSum
  <2>q. QED BY <2>1, <2>2, <2>3
<1>11. CASE Left <= Room(S)
  <2>1. indicator' = Left /\ taken' = L BY <1>6, <1>11
  <2>2. indicator' # NoTotal /\ indicator' <= S - Terminator
    BY <1>3, <1>7, <1>8, <1>11, <2>1 DEF NoTotal
  <2>3. at' = "done" /\ size' = L BY <1>1, <1>2, <1>3, <1>4, <2>1, <2>2
  <2>4. LongType' BY <1>1, <1>2, <1>5, <1>6, <1>9, <2>3 DEF LongType, Stages
  <2>5. WholeCharacters' BY <1>1, <1>10, <2>1, <2>3 DEF WholeCharacters
  <2>6. AtEnds'
    BY <1>1, <1>5, <1>9, <2>1, <2>3 DEF AtEnds, Holds, AskedTwiceAtMost
  <2>q. QED BY <2>3, <2>4, <2>5, <2>6 DEF LongInv, AtGrow, AtMore
<1>12. CASE Left > Room(S)
  <2>1. ~column.total BY <1>1, <1>3, <1>7, <1>12
  <2>2. indicator' = NoTotal /\ taken' < L BY <1>6, <1>12, <2>1
  <2>3. at' = "grow" /\ size' = size BY <1>4, <2>2
  <2>4. LongType' BY <1>1, <1>2, <1>5, <1>6, <1>9, <2>3 DEF LongType, Stages
  <2>5. WholeCharacters' BY <1>1, <1>10, <2>3 DEF WholeCharacters
  <2>6. Holds(taken)' BY <1>1, <1>5 DEF Holds
  <2>7. AtGrow' BY <1>1, <1>6, <2>1, <2>2, <2>3, <2>6 DEF AtGrow
  <2>q. QED BY <2>3, <2>4, <2>5, <2>7 DEF LongInv, AtMore, AtEnds
<1>q. QED BY <1>3, <1>7, <1>11, <1>12

LEMMA FailStep ==
    ASSUME LongInv, FailsHere
    PROVE  LongInv'
<1>1. /\ at' \in {"error", "noMemory"}
      /\ UNCHANGED <<column, capacity, content, size, indicator, given, taken, calls>>
  BY DEF FailsHere
<1>2. AskedTwiceAtMost'
  <2>1. at \in {"first", "grow", "more"} BY DEF FailsHere
  <2>2. at = "first" => AskedTwiceAtMost BY DEF LongInv, AtEnds, Stages
  <2>3. at \in {"grow", "more"} /\ column.total => calls = 1
    BY DEF LongInv, AtGrow, AtMore
  <2>q. QED BY <1>1, <2>1, <2>2, <2>3 DEF AskedTwiceAtMost
<1>3. LongType' BY <1>1 DEF LongInv, LongType, Stages
<1>4. WholeCharacters' BY <1>1 DEF LongInv, WholeCharacters
<1>q. QED BY <1>1, <1>2, <1>3, <1>4 DEF LongInv, AtGrow, AtMore, AtEnds

-----------------------------------------------------------------------------

\* The invariant is inductive.
THEOREM LongSafe == HandledOnly => (LongSpec => []LongInv)
<1> SUFFICES ASSUME HandledOnly PROVE LongSpec => []LongInv OBVIOUS
<1>1. LongInit => LongInv
  <2>1. SUFFICES ASSUME LongInit PROVE LongInv OBVIOUS
  <2>2. /\ column \in Columns /\ at = "first" /\ capacity = 0 /\ content = Untouched(0)
        /\ size = 0 /\ indicator = 0 /\ given = 0 /\ taken = 0 /\ calls = 0
    BY <2>1 DEF LongInit
  <2>3. Untouched(0) \in [1..0 -> Nat] BY DEF Untouched
  <2>4. LongType BY <2>2, <2>3 DEF LongType, Stages
  <2>5. WholeCharacters BY <2>2 DEF WholeCharacters, Even
  <2>q. QED BY <2>2, <2>4, <2>5 DEF LongInv, AtGrow, AtMore, AtEnds, AskedTwiceAtMost
<1>2. LongInv /\ [ReceiveStep]_longVars => LongInv'
  <2>1. SUFFICES ASSUME LongInv, [ReceiveStep]_longVars PROVE LongInv' OBVIOUS
  <2>2. CASE FirstChunk BY <2>1, <2>2, FirstStep
  <2>3. CASE GrowBuffer BY <2>1, <2>3, GrowStep
  <2>4. CASE NextChunk BY <2>1, <2>4, MoreStep
  <2>5. CASE FailsHere BY <2>1, <2>5, FailStep
  <2>6. CASE UNCHANGED longVars
    BY <2>1, <2>6
    DEF longVars, LongInv, LongType, WholeCharacters, AtGrow, AtMore, AtEnds,
        AskedTwiceAtMost, Holds, Left, Room, Terminator
  <2>q. QED BY <2>1, <2>2, <2>3, <2>4, <2>5, <2>6 DEF ReceiveStep
<1>q. QED BY <1>1, <1>2, PTL DEF LongSpec

\* The types of the fetch of a value.
THEOREM LongTyped == HandledOnly => (LongSpec => []LongTypeOK)
<1>1. LongInv => LongTypeOK BY DEF LongInv, LongType, LongTypeOK
<1>q. QED BY <1>1, LongSafe, PTL

LEMMA WholeAtEnd == LongInv => ValueWhole
<1>1. SUFFICES ASSUME LongInv, at \in {"done", "noData"}, column.length # NullData
               PROVE  /\ size = column.length
                      /\ \A i \in 1..size : i \in DOMAIN content /\ content[i] = i
  BY DEF ValueWhole
<1>2. at = "done" BY <1>1 DEF LongInv, LongType
<1>3. size = column.length /\ Holds(size) BY <1>1, <1>2 DEF LongInv, AtEnds
<1>4. capacity \in Nat /\ DOMAIN content = 1..capacity /\ column.length \in Nat
  BY <1>1, ColumnType DEF LongInv, LongType
<1>q. QED BY <1>3, <1>4 DEF Holds

LEMMA FewCalls == LongInv => AskedTwiceAtMost
<1>1. SUFFICES ASSUME LongInv PROVE AskedTwiceAtMost OBVIOUS
<1>2. at \in Stages BY <1>1 DEF LongInv, LongType
<1>3. CASE at \notin {"grow", "more"} BY <1>1, <1>2, <1>3 DEF LongInv, AtEnds
<1>4. CASE at \in {"grow", "more"}
  BY <1>1, <1>4 DEF LongInv, AtGrow, AtMore, AskedTwiceAtMost
<1>q. QED BY <1>3, <1>4

\* Of every value the loop is right for, the buffer holds every byte in its place when
\* the loop ends, and the size is the value's.
THEOREM ValueAlwaysWhole == HandledOnly => (LongSpec => []ValueWhole)
BY WholeAtEnd, LongSafe, PTL

\* A driver that tells the size of such a value is asked at most twice.
THEOREM AlwaysAskedTwiceAtMost == HandledOnly => (LongSpec => []AskedTwiceAtMost)
BY FewCalls, LongSafe, PTL

=============================================================================
