----------------------------- MODULE FetchProofs ----------------------------
(***************************************************************************)
(* Proofs about module Fetch, for all result sets, drivers, fetch sizes    *)
(* and sequences of calls: the program never gets a row twice, out of      *)
(* order or in part; a query that is answered without an error is answered *)
(* with all rows; and noData comes after the last row. The values of LONG  *)
(* columns are those the loop of module LongData is right for              *)
(* (HandledOnly): for the others the properties are false.                 *)
(***************************************************************************)
EXTENDS Fetch, LongProofs

-----------------------------------------------------------------------------
(* The inductive invariant.                                                *)

InBlock == work.phase \in {"rows", "column"}
Fetching == work.phase \in {"fetch", "rows", "column"}

\* The last row that was stored or passed over.
Reached == IF InBlock THEN Row - 1 ELSE position

\* A cursor was opened and not closed, or rows are fetched without one.
Going ==
    \/ cursor
    \/ Fetching
    \/ work.phase = "answer" /\ work.call = "execute" /\ data.useCursor /\ ~work.failed

Rising(s) == \A i, k \in 1..Len(s) : i < k => s[i].row < s[k].row
Upto(s, n) == \A i \in 1..Len(s) : s[i].row <= n /\ s[i].whole
Numbers(s) == {s[i].row : i \in 1..Len(s)}
Complete(s, n) == Len(s) = n /\ \A i \in 1..n : s[i] = [row |-> i, whole |-> TRUE]

\* Who calls what: a cursor is fetched from and closed, and without one rows are fetched
\* one by one by the execution itself.
CallsInv ==
    /\ Idle => work = NoWork
    /\ work.call = "execute" => ~cursor
    /\ work.call \in {"fetch", "close"} => cursor
    /\ cursor => data.useCursor
    /\ data.fetchSize >= 1
    /\ ~data.useCursor => data.fetchSize = 1
    /\ work.call = "fetch" => program.fetches
    /\ program.executions = 0 => Idle /\ ~cursor
    /\ Fetching => work.call = "fetch" \/ (work.call = "execute" /\ ~data.useCursor)
    /\ work.phase = "closing" => work.call = "execute" /\ ~data.useCursor /\ ~work.failed
    /\ work.phase = "answer" => work.call # "none"

\* What the data says of the driver's result set.
OpenInv == Going =>
    /\ driver.simple => data.fetchSize = 1 /\ data.fetched = 1
    /\ data.hasColumns => open
    /\ ~(work.call = "close" /\ ~work.failed) => data.hasColumns = result.hasColumns

\* Rows of an execution that failed stay stored, but then its result set is open, and
\* nothing else can be executed.
KeptInv == data.stored # <<>> =>
    \/ open
    \/ work.phase = "answer" /\ work.call = "execute" /\ ~data.useCursor /\ ~work.failed

\* The block that is being stored.
BlockInv == InBlock =>
    /\ data.hasColumns
    /\ work.index \in 1..data.fetched + 1
    /\ work.phase = "column" => work.index <= data.fetched /\ result.rows[Row].readable
    /\ data.fetched \in 1..position
    /\ data.fetched <= data.fetchSize
    /\ data.fetched < data.fetchSize => position = Len(result.rows)
    /\ data.fetchSize = 1 => result.rows[position].readable

OrderInv == Rising(Got) /\ Upto(Got, Reached)

\* Until something fails every readable row is stored or delivered.
ReadInv ==
    (cursor \/ work.call = "execute") /\ work.call # "close" /\ ~work.failed /\ ~program.erred =>
        Numbers(Got) = {n \in Readable : n <= Reached}

\* What a query without a cursor has stored; nothing is stored between the calls of a
\* cursor.
AllInv ==
    /\ AllRowsOrError
    /\ Idle /\ cursor /\ ~program.erred => data.stored = <<>>
    /\ work.phase = "answer" /\ work.call = "execute" /\ data.useCursor /\ ~work.failed =>
          data.stored = <<>>
    /\ work.call = "execute" /\ ~data.useCursor /\ ~work.failed =>
          /\ program.delivered = <<>>
          /\ Complete(data.stored, Reached)
          /\ work.phase \in {"closing", "answer"} => position = Len(result.rows)

\* The end of the first execution's rows, on a driver that counts rows.
EndInv == data.end /\ program.executions <= 1 /\ ~driver.simple =>
    /\ program.executions = 1
    /\ position = Len(result.rows)
    /\ data.useCursor => program.fetches

FetchInv == TypeOK /\ CallsInv /\ OpenInv /\ KeptInv /\ BlockInv
RowsInv == OrderInv /\ ReadInv /\ AllInv /\ EndInv

-----------------------------------------------------------------------------
(* Sequences of stored rows.                                               *)

LEMMA RowType ==
  ASSUME NEW r \in StoredRow
  PROVE  r.row \in Nat /\ r.whole \in BOOLEAN
BY DEF StoredRow

\* Where the rows of two sequences are in their concatenation.
LEMMA Concatenated ==
  ASSUME NEW d \in Seq(StoredRow), NEW s \in Seq(StoredRow)
  PROVE  /\ d \o s \in Seq(StoredRow)
         /\ Len(d) \in Nat /\ Len(s) \in Nat
         /\ Len(d \o s) = Len(d) + Len(s)
         /\ \A i \in 1..Len(d) : (d \o s)[i] = d[i]
         /\ \A i \in 1..Len(s) : (d \o s)[Len(d) + i] = s[i]
         /\ \A i \in 1..Len(d) : d[i] \in StoredRow
         /\ \A i \in 1..Len(s) : s[i] \in StoredRow
OBVIOUS

\* Both parts of rows in order are in order.
LEMMA PartsInOrder ==
  ASSUME NEW d \in Seq(StoredRow), NEW s \in Seq(StoredRow), NEW n \in Int,
         Rising(d \o s), Upto(d \o s, n)
  PROVE  Rising(d) /\ Upto(d, n) /\ Rising(s) /\ Upto(s, n)
<1>1. Rising(d) /\ Upto(d, n)
  <2>1. \A i \in 1..Len(d) : i \in 1..Len(d \o s) /\ (d \o s)[i] = d[i]
    BY Concatenated
  <2> QED
    BY <2>1 DEF Rising, Upto
<1>2. Rising(s) /\ Upto(s, n)
  <2> DEFINE place(i) == Len(d) + i
  <2>1. \A i \in 1..Len(s) : place(i) \in 1..Len(d \o s) /\ (d \o s)[place(i)] = s[i]
    BY Concatenated
  <2>2. \A i, k \in 1..Len(s) : i < k => place(i) < place(k)
    BY Concatenated
  <2> HIDE DEF place
  <2> QED
    BY <2>1, <2>2 DEF Rising, Upto
<1> QED
  BY <1>1, <1>2

LEMMA UptoMore ==
  ASSUME NEW s \in Seq(StoredRow), NEW n \in Int, NEW m \in Int, n <= m, Upto(s, n)
  PROVE  Upto(s, m)
BY Concatenated, RowType DEF Upto

LEMMA NoRows ==
  ASSUME NEW n
  PROVE  Rising(<<>>) /\ Upto(<<>>, n) /\ Numbers(<<>>) = {} /\ Complete(<<>>, 0)
BY DEF Rising, Upto, Numbers, Complete

\* What is appended to them.
LEMMA Appended ==
  ASSUME NEW s \in Seq(StoredRow), NEW r \in StoredRow
  PROVE  /\ Append(s, r) \in Seq(StoredRow)
         /\ Len(s) \in Nat
         /\ Len(Append(s, r)) = Len(s) + 1
         /\ \A i \in 1..Len(s) : Append(s, r)[i] = s[i] /\ s[i] \in StoredRow
         /\ Append(s, r)[Len(s) + 1] = r
OBVIOUS

\* A later row keeps the order.
LEMMA AppendInOrder ==
  ASSUME NEW s \in Seq(StoredRow), NEW r \in StoredRow, NEW n \in Int,
         Rising(s), Upto(s, n), r.row = n + 1, r.whole
  PROVE  /\ Rising(Append(s, r)) /\ Upto(Append(s, r), n + 1)
         /\ Numbers(Append(s, r)) = Numbers(s) \cup {n + 1}
<1> DEFINE t == Append(s, r)
<1>1. /\ Len(s) \in Nat /\ Len(t) = Len(s) + 1
      /\ \A i \in 1..Len(s) : t[i] = s[i] /\ s[i] \in StoredRow
      /\ t[Len(s) + 1] = r
  BY Appended
<1> HIDE DEF t
<1>2. \A i \in 1..Len(t) : i \in 1..Len(s) \/ i = Len(s) + 1
  BY <1>1
<1>3. \A i \in 1..Len(s) : s[i].row \in Nat /\ s[i].row <= n /\ s[i].whole
  BY <1>1, RowType DEF Upto
<1>4. Upto(t, n + 1)
  BY <1>1, <1>2, <1>3 DEF Upto
<1>5. Rising(t)
  <2> SUFFICES ASSUME NEW i \in 1..Len(t), NEW k \in 1..Len(t), i < k
               PROVE  t[i].row < t[k].row
    BY DEF Rising
  <2>1. i \in 1..Len(s)
    BY <1>1
  <2>2. CASE k \in 1..Len(s)
    BY <1>1, <2>1, <2>2 DEF Rising
  <2>3. CASE k = Len(s) + 1
    BY <1>1, <1>3, <2>1, <2>3
  <2> QED
    BY <1>2, <2>2, <2>3
<1>6. Numbers(t) = Numbers(s) \cup {n + 1}
  <2>1. \A x \in Numbers(t) : x \in Numbers(s) \cup {n + 1}
    BY <1>1, <1>2 DEF Numbers
  <2>2. \A i \in 1..Len(s) : i \in 1..Len(t)
    BY <1>1
  <2>3. Len(s) + 1 \in 1..Len(t)
    BY <1>1
  <2>4. Numbers(s) \subseteq Numbers(t)
    BY <1>1, <2>2 DEF Numbers
  <2>5. n + 1 \in Numbers(t)
    BY <1>1, <2>3 DEF Numbers
  <2> QED
    BY <2>1, <2>4, <2>5
<1> QED
  BY <1>4, <1>5, <1>6 DEF t

LEMMA AppendComplete ==
  ASSUME NEW s \in Seq(StoredRow), NEW n \in Nat, Complete(s, n)
  PROVE  Complete(Append(s, [row |-> n + 1, whole |-> TRUE]), n + 1)
<1> DEFINE r == [row |-> n + 1, whole |-> TRUE]
<1>1. r \in StoredRow
  BY DEF StoredRow
<1> HIDE DEF r
<1>2. /\ Len(Append(s, r)) = Len(s) + 1
      /\ \A i \in 1..Len(s) : Append(s, r)[i] = s[i]
      /\ Append(s, r)[Len(s) + 1] = r
  BY <1>1, Appended
<1>3. \A i \in 1..n + 1 : i \in 1..n \/ i = n + 1
  OBVIOUS
<1>4. \A i \in 1..n + 1 : Append(s, r)[i] = [row |-> i, whole |-> TRUE]
  BY <1>2, <1>3 DEF Complete, r
<1> QED
  BY <1>2, <1>4 DEF Complete, r

\* What is appended to the stored rows is appended to the rows that the program got.
LEMMA AppendedToBoth ==
  ASSUME NEW d \in Seq(StoredRow), NEW s \in Seq(StoredRow), NEW r \in StoredRow
  PROVE  d \o Append(s, r) = Append(d \o s, r)
OBVIOUS

-----------------------------------------------------------------------------
(* Types.                                                                  *)

LEMMA DataFields ==
  ASSUME NEW d \in DataType
  PROVE  /\ d.hasColumns \in BOOLEAN /\ d.useCursor \in BOOLEAN /\ d.end \in BOOLEAN
         /\ d.fetchSize \in Nat /\ d.fetched \in Nat /\ d.stored \in Seq(StoredRow)
BY DEF DataType

LEMMA WorkFields ==
  ASSUME NEW w \in WorkType
  PROVE  /\ w.call \in {"none", "execute", "fetch", "close"}
         /\ w.phase \in {"idle", "fetch", "rows", "column", "closing", "answer"}
         /\ w.index \in Nat /\ w.failed \in BOOLEAN
BY DEF WorkType

LEMMA ProgramFields ==
  ASSUME NEW p \in ProgramType
  PROVE  /\ p.executions \in 0..MaxExecutions /\ p.fetches \in BOOLEAN /\ p.erred \in BOOLEAN
         /\ p.delivered \in Seq(StoredRow)
         /\ p.executions \in Nat
<1>1. p.executions \in 0..MaxExecutions /\ p.fetches \in BOOLEAN /\ p.erred \in BOOLEAN
      /\ p.delivered \in Seq(StoredRow)
  BY DEF ProgramType
<1> QED
  BY <1>1, OptionsAssumption

LEMMA ResultFields ==
  ASSUME NEW r \in Results
  PROVE  /\ r.hasColumns \in BOOLEAN
         /\ Len(r.rows) \in Nat
         /\ \A n \in 1..Len(r.rows) : r.rows[n].readable \in BOOLEAN
                                      /\ r.rows[n].long \in Columns \cup {Bound}
         /\ ~r.hasColumns => Len(r.rows) = 0
<1> DEFINE RowSet == [readable : BOOLEAN, long : Columns \cup {Bound}]
<1>1. /\ r.hasColumns \in BOOLEAN
      /\ r.rows \in Seq(RowSet)
      /\ ~r.hasColumns => r.rows = <<>>
  BY RowsAssumption
<1>2. \A x \in RowSet : x.readable \in BOOLEAN /\ x.long \in Columns \cup {Bound}
  OBVIOUS
<1> HIDE DEF RowSet
<1>3. Len(r.rows) \in Nat /\ \A n \in 1..Len(r.rows) : r.rows[n] \in RowSet
  BY <1>1
<1>4. ~r.hasColumns => Len(r.rows) = 0
  BY <1>1
<1> QED
  BY <1>1, <1>2, <1>3, <1>4

\* All of this of the present state.
LEMMA Fields ==
  ASSUME TypeOK
  PROVE  /\ driver.block \in BOOLEAN /\ driver.simple \in BOOLEAN /\ prepared \in BOOLEAN
         /\ result.hasColumns \in BOOLEAN /\ Len(result.rows) \in Nat
         /\ position \in 0..Len(result.rows) /\ position \in Nat
         /\ open \in BOOLEAN /\ cursor \in BOOLEAN
         /\ data.hasColumns \in BOOLEAN /\ data.useCursor \in BOOLEAN /\ data.end \in BOOLEAN
         /\ data.fetchSize \in Nat /\ data.fetched \in Nat /\ data.stored \in Seq(StoredRow)
         /\ work.call \in {"none", "execute", "fetch", "close"}
         /\ work.phase \in {"idle", "fetch", "rows", "column", "closing", "answer"}
         /\ work.index \in Nat /\ work.failed \in BOOLEAN
         /\ program.executions \in Nat /\ program.fetches \in BOOLEAN
         /\ program.erred \in BOOLEAN /\ program.delivered \in Seq(StoredRow)
<1>1. driver \in Drivers /\ prepared \in BOOLEAN /\ result \in Results
      /\ position \in 0..Len(result.rows) /\ open \in BOOLEAN /\ cursor \in BOOLEAN
      /\ data \in DataType /\ work \in WorkType /\ program \in ProgramType
  BY DEF TypeOK
<1>2. driver.block \in BOOLEAN /\ driver.simple \in BOOLEAN
  BY <1>1, OptionsAssumption
<1>3. result.hasColumns \in BOOLEAN /\ Len(result.rows) \in Nat
  BY <1>1, ResultFields
<1>4. position \in Nat
  BY <1>1, <1>3
<1> QED
  BY <1>1, <1>2, <1>3, <1>4, DataFields, WorkFields, ProgramFields

LEMMA GotType ==
  ASSUME TypeOK
  PROVE  Got \in Seq(StoredRow)
BY Fields, Concatenated DEF Got

\* The row the loop is at is one of the block.
LEMMA RowInBlock ==
  ASSUME TypeOK, BlockInv, InBlock, work.index <= data.fetched
  PROVE  Row \in 1..position /\ Row \in 1..Len(result.rows) /\ Row \in Nat
BY Fields DEF BlockInv, Row

-----------------------------------------------------------------------------
(* The column, which is turned to for one value after another.             *)

LEMMA LongUnchanged ==
  ASSUME LongInv, UNCHANGED longVars
  PROVE  LongInv'
BY DEF longVars, LongInv, LongType, WholeCharacters, AtGrow, AtMore, AtEnds,
       AskedTwiceAtMost, Holds, Left, Room, Terminator

LEMMA StartStep ==
  ASSUME NEW c \in Columns, NEW stage \in {"first", "idle"}, StartColumn(c, stage)
  PROVE  LongInv'
<1>1. /\ column' = c /\ at' = stage /\ capacity' = 0 /\ content' = Untouched(0) /\ size' = 0
      /\ indicator' = 0 /\ given' = 0 /\ taken' = 0 /\ calls' = 0
  BY DEF StartColumn
<1>2. Untouched(0) \in [1..0 -> Nat]
  BY DEF Untouched
<1>3. LongType'
  BY <1>1, <1>2 DEF LongType, Stages
<1>4. WholeCharacters'
  BY <1>1 DEF WholeCharacters, Even
<1> QED
  BY <1>1, <1>3, <1>4 DEF LongInv, AtGrow, AtMore, AtEnds, AskedTwiceAtMost

LEMMA LongSteps ==
  ASSUME HandledOnly, LongInv, ReceiveStep
  PROVE  LongInv'
BY FirstStep, GrowStep, MoreStep, FailStep DEF ReceiveStep

LEMMA LongTypes == LongInv => LongTypeOK
BY DEF LongInv, LongType, LongTypeOK

\* Only a value that is not bound is fetched in chunks.
LEMMA LongOfRow ==
  ASSUME TypeOK, BlockInv, work.phase = "rows", work.index <= data.fetched, Unbound(Row)
  PROVE  result.rows[Row].long \in Columns
<1>1. Row \in 1..Len(result.rows)
  BY RowInBlock DEF InBlock
<1>2. result.rows[Row].long \in Columns \cup {Bound}
  BY <1>1, ResultFields DEF TypeOK
<1> QED
  BY <1>2 DEF Unbound

LEMMA LongKept ==
  ASSUME HandledOnly, TypeOK, BlockInv, LongInv, [Next]_allVars
  PROVE  LongInv'
<1>1. CASE UNCHANGED allVars
  BY <1>1, LongUnchanged DEF allVars
<1>2. ASSUME NEW r \in Results, NEW c \in BOOLEAN, NEW n \in FetchSizes \cup {1}, Execute(r, c, n)
      PROVE  LongInv'
  BY <1>2, LongUnchanged DEF Execute
<1>3. CASE CursorFetch
  BY <1>3, LongUnchanged DEF CursorFetch
<1>4. CASE CursorClose
  BY <1>4, LongUnchanged DEF CursorClose
<1>5. CASE FetchBlock
  BY <1>5, LongUnchanged DEF FetchBlock
<1>6. CASE FetchFails
  BY <1>6, LongUnchanged DEF FetchFails
<1>7. CASE StoreRow
  <2>1. CASE result.rows[Row].readable /\ Unbound(Row)
    <3>1. work.phase = "rows" /\ work.index <= data.fetched
          /\ StartColumn(result.rows[Row].long, "first")
      BY <1>7, <2>1 DEF StoreRow
    <3>2. result.rows[Row].long \in Columns
      BY <2>1, <3>1, LongOfRow
    <3> QED
      BY <3>1, <3>2, StartStep
  <2>2. CASE ~(result.rows[Row].readable /\ Unbound(Row))
    BY <1>7, <2>2, LongUnchanged DEF StoreRow
  <2> QED
    BY <2>1, <2>2
<1>8. CASE ReceiveColumn
  BY <1>8, LongSteps DEF ReceiveColumn
<1>9. CASE ColumnEnds
  <2>1. StartColumn(column, "idle") /\ column \in Columns
    BY <1>9 DEF ColumnEnds, LongInv, LongType
  <2> QED
    BY <2>1, StartStep
<1>10. CASE BlockEnds
  BY <1>10, LongUnchanged DEF BlockEnds
<1>11. CASE CloseAfterRows
  BY <1>11, LongUnchanged DEF CloseAfterRows
<1>12. CASE Answer
  BY <1>12, LongUnchanged DEF Answer
<1> QED
  BY <1>1, <1>2, <1>3, <1>4, <1>5, <1>6, <1>7, <1>8, <1>9, <1>10, <1>11, <1>12 DEF Next, Worker

-----------------------------------------------------------------------------
(* One lemma per step: what is known before it, and that it keeps the      *)
(* invariant.                                                              *)

Inv == FetchInv /\ RowsInv

\* What is stored of a block ends before its last row.
LEMMA ReachedBounds ==
  ASSUME TypeOK, BlockInv
  PROVE  /\ Reached \in Nat /\ Reached <= position
         /\ ~InBlock => Reached = position
         /\ InBlock => Row = Reached + 1
         /\ InBlock /\ work.index > data.fetched => Reached = position
<1>2. CASE InBlock
  <2>1. Reached = Row - 1
    BY <1>2 DEF Reached
  <2> QED
    BY <1>2, <2>1, Fields DEF BlockInv, Row
<1>3. CASE ~InBlock
  BY <1>3, Fields DEF Reached
<1> QED
  BY <1>2, <1>3

\* Nothing is stored, and maybe more rows are passed over.
LEMMA OrderKept ==
  ASSUME TypeOK, OrderInv, Got' = Got, Reached \in Nat, Reached' \in Int, Reached <= Reached'
  PROVE  OrderInv'
<1>1. Rising(Got) /\ Upto(Got, Reached) /\ Got \in Seq(StoredRow)
  BY GotType DEF OrderInv
<1>2. PICK n \in Nat : n = Reached
  OBVIOUS
<1>3. PICK m \in Int : m = Reached'
  OBVIOUS
<1>4. PICK s \in Seq(StoredRow) : s = Got
  BY <1>1
<1>5. Upto(s, m)
  BY <1>1, <1>2, <1>3, <1>4, UptoMore
<1> QED
  BY <1>1, <1>3, <1>4, <1>5 DEF OrderInv

\* SQLFetch, SQLSetPos or SQLGetData failed.
LEMMA FailedKeeps ==
  ASSUME Inv, Fetching, Fails, LongTypeOK', data' = data,
         position' \in position..Len(result.rows),
         UNCHANGED <<driver, prepared, result, open, cursor, program>>
  PROVE  Inv'
<1>1. /\ TypeOK /\ CallsInv /\ OpenInv /\ KeptInv /\ BlockInv
      /\ OrderInv /\ EndInv
  BY DEF Inv, FetchInv, RowsInv
<1>2. /\ work'.phase = "answer" /\ work'.failed = TRUE /\ work'.call = work.call
      /\ work' \in WorkType
  BY <1>1 DEF Fails, TypeOK, WorkType
<1>3. work.call \in {"fetch", "execute"}
  BY <1>1 DEF CallsInv
<1>4. work.phase \notin {"idle", "answer", "closing"}
  BY DEF Fetching
<1>5. TypeOK'
  BY <1>1, <1>2, Fields DEF TypeOK
<1>6. CallsInv'
  BY <1>1, <1>2, <1>3 DEF CallsInv, Idle, Fetching
<1>7. OpenInv'
  <2>1. Going
    BY DEF Going
  <2> QED
    BY <1>1, <1>3, <2>1 DEF OpenInv
<1>8. KeptInv'
  BY <1>1, <1>4 DEF KeptInv
<1>9. BlockInv'
  BY <1>2 DEF BlockInv, InBlock
<1>10. OrderInv'
  <2>1. Reached \in Nat /\ Reached <= position /\ position \in Nat /\ position' \in Int
        /\ position <= position'
    BY <1>1, ReachedBounds, Fields
  <2>2. Reached' = position'
    BY <1>2 DEF Reached, InBlock
  <2>3. Got' = Got
    BY DEF Got
  <2> QED
    BY <1>1, <2>1, <2>2, <2>3, OrderKept
<1>11. ReadInv' /\ AllInv'
  BY <1>2 DEF ReadInv, AllInv, AllRowsOrError, Idle
<1>12. EndInv'
  BY <1>1, Fields DEF EndInv
<1> QED
  BY <1>5, <1>6, <1>7, <1>8, <1>9, <1>10, <1>11, <1>12 DEF Inv, FetchInv, RowsInv

LEMMA FetchBlockKeeps ==
  ASSUME Inv, FetchBlock, LongTypeOK'
  PROVE  Inv'
<1>1. /\ TypeOK /\ CallsInv /\ OpenInv /\ KeptInv /\ BlockInv
      /\ OrderInv /\ ReadInv /\ AllInv /\ EndInv
  BY DEF Inv, FetchInv, RowsInv
<1>2. /\ work.phase = "fetch"
      /\ UNCHANGED <<driver, prepared, result, open, cursor, program>>
  BY DEF FetchBlock
<1>3. Fetching /\ Going /\ ~InBlock /\ ~Idle /\ Reached = position
  BY <1>2 DEF Fetching, Going, InBlock, Idle, Reached
<1>4. /\ work.call \in {"fetch", "execute"}
      /\ work.call = "execute" => ~data.useCursor /\ ~cursor
      /\ work.call = "fetch" => data.useCursor /\ cursor /\ program.fetches
      /\ program.executions # 0
      /\ data.fetchSize >= 1
  BY <1>1, <1>3 DEF CallsInv
<1>5. CASE ~data.hasColumns \/ Remaining = 0
  <2>1. data' = [data EXCEPT !.end = TRUE] /\ Goes(AfterNoData) /\ position' = position
    BY <1>5 DEF FetchBlock
  <2>2. /\ data'.hasColumns = data.hasColumns /\ data'.useCursor = data.useCursor
        /\ data'.fetchSize = data.fetchSize /\ data'.fetched = data.fetched
        /\ data'.stored = data.stored
        /\ data' \in DataType
    BY <1>1, <2>1 DEF TypeOK, DataType
  <2>3. /\ work'.phase = AfterNoData /\ work'.call = work.call /\ work'.failed = work.failed
        /\ work' \in WorkType
    BY <1>1, <2>1 DEF TypeOK, WorkType, Goes, AfterNoData
  <2>4. /\ work'.phase \in {"answer", "closing"}
        /\ work'.phase = "closing" => ~data.useCursor /\ ~work.failed
    BY <2>3 DEF AfterNoData
  <2>5. position = Len(result.rows)
    <3>1. CASE ~data.hasColumns
      <4>1. ~result.hasColumns
        BY <1>1, <1>3, <1>4, <3>1, Fields DEF OpenInv
      <4> QED
        BY <1>1, <4>1, ResultFields, Fields DEF TypeOK
    <3>2. CASE Remaining = 0
      BY <1>1, <3>2, Fields DEF Remaining
    <3> QED
      BY <1>5, <3>1, <3>2
  <2>6. TypeOK'
    BY <1>1, <1>2, <2>1, <2>2, <2>3 DEF TypeOK
  <2>7. CallsInv'
    BY <1>1, <1>2, <1>4, <2>2, <2>3, <2>4 DEF CallsInv, Idle, Fetching
  <2>8. OpenInv'
    BY <1>1, <1>2, <1>3, <1>4, <2>2, <2>3 DEF OpenInv
  <2>9. KeptInv'
    BY <1>1, <1>2, <2>2 DEF KeptInv
  <2>10. BlockInv' /\ Reached' = position /\ ~Idle'
    BY <2>1, <2>4 DEF BlockInv, InBlock, Reached, Idle
  <2>11. Got' = Got /\ Readable' = Readable
    BY <1>2, <2>2 DEF Got, Readable
  <2>12. OrderInv'
    BY <1>1, <1>3, <2>10, <2>11, OrderKept, Fields
  <2>13. ReadInv'
    BY <1>1, <1>2, <1>3, <2>3, <2>10, <2>11 DEF ReadInv
  <2>14. AllInv'
    BY <1>1, <1>2, <1>3, <1>4, <2>1, <2>2, <2>3, <2>5, <2>10 DEF AllInv, AllRowsOrError
  <2>15. EndInv'
    <3>1. program.executions <= 1 => program.executions = 1
      BY <1>1, <1>4, Fields
    <3> QED
      BY <1>2, <1>4, <2>1, <2>2, <2>5, <3>1 DEF EndInv
  <2> QED
    BY <2>6, <2>7, <2>8, <2>9, <2>10, <2>12, <2>13, <2>14, <2>15 DEF Inv, FetchInv, RowsInv
<1>6. CASE ~(~data.hasColumns \/ Remaining = 0)
  <2>1. /\ position \in Nat /\ Len(result.rows) \in Nat /\ Remaining \in Nat \ {0}
        /\ Remaining = Len(result.rows) - position
    BY <1>1, <1>6, Fields DEF Remaining
  <2>2. BlockSize \in 1..Remaining /\ BlockSize <= data.fetchSize
        /\ (BlockSize < data.fetchSize => BlockSize = Remaining)
    BY <1>1, <1>4, <2>1, Fields DEF BlockSize
  <2>3. position' = position + BlockSize
    BY <1>6 DEF FetchBlock
  <2>4. position' \in position..Len(result.rows) /\ position' \in Nat
    BY <2>1, <2>2, <2>3
  <2>5. CASE (position + 1)..(position + BlockSize) \cap Readable = {}
    <3>1. Fails /\ data' = data
      BY <1>6, <2>5 DEF FetchBlock
    <3> QED
      BY <1>2, <1>3, <2>4, <3>1, FailedKeeps
  <2>6. CASE (position + 1)..(position + BlockSize) \cap Readable # {}
    <3>1. /\ data' = [data EXCEPT !.fetched = IF driver.simple THEN @ ELSE BlockSize]
          /\ work' = [work EXCEPT !.phase = "rows", !.index = 1]
      BY <1>6, <2>6 DEF FetchBlock
    <3>2. driver.simple => data.fetchSize = 1 /\ data.fetched = 1 /\ BlockSize = 1
      BY <1>1, <1>3, <2>2 DEF OpenInv
    <3>3. data' = [data EXCEPT !.fetched = BlockSize]
      BY <1>1, <3>1, <3>2 DEF TypeOK, DataType
    <3>4. BlockSize \in Nat
      BY <2>1, <2>2
    <3>5. /\ data'.hasColumns = data.hasColumns /\ data'.useCursor = data.useCursor
          /\ data'.fetchSize = data.fetchSize /\ data'.fetched = BlockSize
          /\ data'.stored = data.stored /\ data'.end = data.end
          /\ data' \in DataType
      BY <1>1, <3>3, <3>4 DEF TypeOK, DataType
    <3>6. /\ work'.phase = "rows" /\ work'.call = work.call /\ work'.failed = work.failed
          /\ work'.index = 1
          /\ work' \in WorkType
      BY <1>1, <3>1 DEF TypeOK, WorkType
    <3>7. TypeOK'
      BY <1>1, <1>2, <2>1, <2>4, <3>5, <3>6 DEF TypeOK
    <3>8. CallsInv'
      BY <1>1, <1>2, <1>4, <3>5, <3>6 DEF CallsInv, Idle, Fetching
    <3>9. OpenInv'
      BY <1>1, <1>2, <1>3, <3>2, <3>5, <3>6 DEF OpenInv
    <3>10. KeptInv'
      BY <1>1, <1>2, <3>5 DEF KeptInv
    <3>11. BlockInv'
      <4>1. data.hasColumns
        BY <1>6
      <4>2. data.fetchSize = 1 => result.rows[position'].readable
        <5> SUFFICES ASSUME data.fetchSize = 1
                     PROVE  result.rows[position + 1].readable
          BY <2>1, <2>2, <2>3
        <5>1. BlockSize = 1
          BY <2>1, <2>2
        <5>2. PICK n \in (position + 1)..(position + 1) : n \in Readable
          BY <2>6, <5>1
        <5>3. n = position + 1
          BY <2>1, <5>2
        <5> QED
          BY <5>2, <5>3 DEF Readable
      <4>3. data'.fetched < data'.fetchSize => position' = Len(result.rows)
        BY <2>1, <2>2, <2>3, <3>5
      <4>4. work'.index \in 1..data'.fetched + 1 /\ data'.fetched \in 1..position'
        BY <2>1, <2>2, <2>3, <3>5, <3>6
      <4>5. data'.fetched <= data'.fetchSize
        BY <2>2, <3>5
      <4> QED
        BY <1>2, <3>5, <3>6, <4>1, <4>2, <4>3, <4>4, <4>5 DEF BlockInv
    <3>12. Reached' = position /\ ~Idle'
      BY <2>1, <2>2, <2>3, <3>5, <3>6 DEF Reached, Row, InBlock, Idle
    <3>13. Got' = Got /\ Readable' = Readable
      BY <1>2, <3>5 DEF Got, Readable
    <3>14. OrderInv'
      BY <1>1, <1>3, <2>1, <3>12, <3>13, OrderKept
    <3>15. ReadInv'
      BY <1>1, <1>2, <1>3, <3>6, <3>12, <3>13 DEF ReadInv
    <3>16. AllInv'
      BY <1>1, <1>2, <1>3, <3>5, <3>6, <3>12 DEF AllInv, AllRowsOrError
    <3>17. EndInv'
      BY <1>1, <1>2, <2>1, <2>4, <3>5, Fields DEF EndInv
    <3> QED
      BY <3>7, <3>8, <3>9, <3>10, <3>11, <3>14, <3>15, <3>16, <3>17 DEF Inv, FetchInv, RowsInv
  <2> QED
    BY <2>5, <2>6
<1> QED
  BY <1>5, <1>6

LEMMA FetchFailsKeeps ==
  ASSUME Inv, FetchFails, LongTypeOK'
  PROVE  Inv'
<1>1. Fetching /\ Fails
  BY DEF FetchFails, Fetching
<1>2. UNCHANGED <<driver, prepared, result, position, open, data, cursor, program>>
  BY DEF FetchFails
<1>3. position' \in position..Len(result.rows)
  BY <1>2, Fields DEF Inv, FetchInv
<1> QED
  BY <1>1, <1>2, <1>3, FailedKeeps

\* Nothing changes but the buffer of a column, or nothing at all.
LEMMA UnchangedKeeps ==
  ASSUME Inv, UNCHANGED fetchVars, LongTypeOK'
  PROVE  Inv'
<1>1. FetchInv'
  BY DEF fetchVars, Inv, FetchInv, TypeOK, CallsInv, OpenInv, KeptInv, BlockInv, Idle, Fetching,
         Going, InBlock, Row
<1>2. RowsInv'
  BY DEF fetchVars, Inv, RowsInv, OrderInv, ReadInv, AllInv, EndInv, AllRowsOrError, Got, Reached,
         Readable, Idle, InBlock, Row
<1> QED
  BY <1>1, <1>2 DEF Inv

\* A readable row is stored.
LEMMA StoredKeeps ==
  ASSUME Inv, InBlock, work.index <= data.fetched, result.rows[Row].readable,
         data' = [data EXCEPT !.stored = Stored(TRUE)],
         work' = [work EXCEPT !.phase = "rows", !.index = @ + 1],
         UNCHANGED <<driver, prepared, result, position, open, cursor, program>>, LongTypeOK'
  PROVE  Inv'
<1>1. /\ TypeOK /\ CallsInv /\ OpenInv /\ KeptInv /\ BlockInv
      /\ OrderInv /\ ReadInv /\ AllInv /\ EndInv
  BY DEF Inv, FetchInv, RowsInv
<1>2. Row \in Nat /\ Row = Reached + 1 /\ Row \in 1..Len(result.rows) /\ Reached \in Nat
  BY <1>1, RowInBlock, ReachedBounds
<1>3. PICK r \in StoredRow : r = [row |-> Row, whole |-> TRUE]
  BY <1>2 DEF StoredRow
<1>4. r.row = Row /\ r.whole
  BY <1>3
<1>5. data.stored \in Seq(StoredRow) /\ Append(data.stored, r) \in Seq(StoredRow)
  BY <1>1, Fields, Appended
<1>6. /\ data'.hasColumns = data.hasColumns /\ data'.useCursor = data.useCursor
      /\ data'.fetchSize = data.fetchSize /\ data'.fetched = data.fetched
      /\ data'.end = data.end /\ data'.stored = Append(data.stored, r)
      /\ data' \in DataType
  <2>1. data' = [data EXCEPT !.stored = Append(data.stored, r)]
    BY <1>3 DEF Stored
  <2> QED
    BY <1>1, <1>5, <2>1 DEF TypeOK, DataType
<1>7. /\ work'.phase = "rows" /\ work'.call = work.call /\ work'.failed = work.failed
      /\ work'.index = work.index + 1
      /\ work' \in WorkType
  <2>1. work \in WorkType /\ work.index + 1 \in Nat
    BY <1>1, Fields DEF TypeOK
  <2> QED
    BY <2>1 DEF WorkType
<1>8. Fetching /\ Going
  BY DEF InBlock, Fetching, Going
<1>9. TypeOK'
  BY <1>1, <1>6, <1>7 DEF TypeOK
<1>10. CallsInv'
  <2>1. ~Idle
    BY DEF InBlock, Idle
  <2> QED
    BY <1>1, <1>6, <1>7, <1>8, <2>1 DEF CallsInv, Idle, Fetching
<1>11. OpenInv'
  BY <1>1, <1>6, <1>7, <1>8 DEF OpenInv
<1>12. KeptInv'
  BY <1>1, <1>8 DEF OpenInv, KeptInv, BlockInv
<1>13. BlockInv'
  <2>1. work'.index \in 1..data'.fetched + 1
    BY <1>1, <1>6, <1>7, Fields DEF BlockInv
  <2> QED
    BY <1>1, <1>6, <1>7, <2>1 DEF BlockInv
<1>14. Reached' = Reached + 1 /\ ~Idle'
  <2>1. Row' = Row + 1
    BY <1>1, <1>6, <1>7, Fields DEF Row
  <2> QED
    BY <1>2, <1>7, <2>1 DEF Reached, InBlock, Idle
<1>15. Got' = Append(Got, r)
  BY <1>1, <1>6, Fields, AppendedToBoth DEF Got
<1>16. Readable' = Readable
  BY DEF Readable
<1>17. /\ OrderInv'
       /\ Numbers(Got') = Numbers(Got) \cup {Reached + 1}
  <2>1. PICK n \in Nat : n = Reached
    BY <1>2
  <2>2. PICK s \in Seq(StoredRow) : s = Got
    BY <1>1, GotType
  <2>3. Rising(s) /\ Upto(s, n) /\ r.row = n + 1 /\ r.whole
    BY <1>1, <1>2, <1>4, <2>1, <2>2 DEF OrderInv
  <2>4. /\ Rising(Append(s, r)) /\ Upto(Append(s, r), n + 1)
        /\ Numbers(Append(s, r)) = Numbers(s) \cup {n + 1}
    BY <2>3, AppendInOrder
  <2>5. Got' = Append(s, r) /\ Reached' = n + 1
    BY <1>14, <1>15, <2>1, <2>2
  <2>6. OrderInv'
    BY <2>4, <2>5 DEF OrderInv
  <2> QED
    BY <2>1, <2>2, <2>4, <2>5, <2>6
<1>18. ReadInv'
  <2> SUFFICES ASSUME Numbers(Got) = {n \in Readable : n <= Reached}
               PROVE  Numbers(Got') = {n \in Readable : n <= Reached + 1}
    BY <1>1, <1>7, <1>14, <1>16 DEF ReadInv
  <2>1. Reached + 1 \in Readable
    BY <1>2 DEF Readable
  <2>2. Readable \subseteq Nat
    BY <1>1, Fields DEF Readable
  <2>3. \A n \in Nat : n <= Reached + 1 <=> n <= Reached \/ n = Reached + 1
    BY <1>2
  <2> QED
    BY <1>17, <2>1, <2>2, <2>3
<1>19. AllInv'
  <2> SUFFICES ASSUME work.call = "execute", ~data.useCursor, ~work.failed
               PROVE  /\ program.delivered = <<>>
                      /\ Complete(Append(data.stored, r), Reached + 1)
    BY <1>6, <1>7, <1>14 DEF AllInv, AllRowsOrError
  <2>1. program.delivered = <<>> /\ Complete(data.stored, Reached)
    BY <1>1 DEF AllInv
  <2>2. PICK n \in Nat : n = Reached
    BY <1>2
  <2>3. PICK s \in Seq(StoredRow) : s = data.stored
    BY <1>5
  <2>4. r = [row |-> n + 1, whole |-> TRUE]
    BY <1>2, <1>3, <2>2
  <2>5. Complete(s, n)
    BY <2>1, <2>2, <2>3
  <2>6. Complete(Append(s, r), n + 1)
    BY <2>4, <2>5, AppendComplete
  <2> QED
    BY <2>1, <2>2, <2>3, <2>6
<1>20. EndInv'
  BY <1>1, <1>6 DEF EndInv
<1> QED
  BY <1>9, <1>10, <1>11, <1>12, <1>13, <1>17, <1>18, <1>19, <1>20 DEF Inv, FetchInv, RowsInv

LEMMA StoreRowKeeps ==
  ASSUME Inv, StoreRow, LongTypeOK'
  PROVE  Inv'
<1>1. /\ TypeOK /\ CallsInv /\ OpenInv /\ KeptInv /\ BlockInv
      /\ OrderInv /\ ReadInv /\ AllInv /\ EndInv
  BY DEF Inv, FetchInv, RowsInv
<1>2. /\ work.phase = "rows" /\ work.index <= data.fetched
      /\ UNCHANGED <<driver, prepared, result, position, open, cursor, program>>
  BY DEF StoreRow
<1>3. Fetching /\ Going /\ InBlock /\ ~Idle
  BY <1>2 DEF Fetching, Going, InBlock, Idle
<1>4. Row \in Nat /\ Row = Reached + 1 /\ Row \in 1..position /\ Reached \in Nat
  BY <1>1, <1>2, <1>3, RowInBlock, ReachedBounds
<1>5. CASE result.rows[Row].readable /\ Unbound(Row)
  <2>1. data' = data /\ work' = [work EXCEPT !.phase = "column"]
    BY <1>5 DEF StoreRow, Goes
  <2>2. /\ work'.phase = "column" /\ work'.call = work.call /\ work'.failed = work.failed
        /\ work'.index = work.index
        /\ work' \in WorkType
    BY <1>1, <2>1 DEF TypeOK, WorkType
  <2>3. TypeOK'
    BY <1>1, <1>2, <2>1, <2>2 DEF TypeOK
  <2>4. CallsInv'
    BY <1>1, <1>2, <1>3, <2>1, <2>2 DEF CallsInv, Idle, Fetching
  <2>5. OpenInv'
    BY <1>1, <1>2, <1>3, <2>1, <2>2 DEF OpenInv
  <2>6. KeptInv'
    BY <1>1, <1>2, <2>1 DEF KeptInv
  <2>7. Row' = Row /\ Reached' = Reached /\ ~Idle'
    BY <1>2, <1>3, <2>1, <2>2 DEF Row, Reached, InBlock, Idle
  <2>8. BlockInv'
    BY <1>1, <1>2, <1>3, <1>5, <2>1, <2>2, <2>7 DEF BlockInv
  <2>9. Got' = Got /\ Readable' = Readable
    BY <1>2, <2>1 DEF Got, Readable
  <2>10. OrderInv'
    BY <1>1, <1>4, <2>7, <2>9, OrderKept
  <2>11. ReadInv'
    BY <1>1, <1>2, <2>2, <2>7, <2>9 DEF ReadInv
  <2>12. AllInv'
    BY <1>1, <1>2, <2>1, <2>2, <2>7 DEF AllInv, AllRowsOrError
  <2>13. EndInv'
    BY <1>1, <1>2, <2>1 DEF EndInv
  <2> QED
    BY <2>3, <2>4, <2>5, <2>6, <2>8, <2>10, <2>11, <2>12, <2>13 DEF Inv, FetchInv, RowsInv
<1>6. CASE result.rows[Row].readable /\ ~Unbound(Row)
  <2>1. data' = [data EXCEPT !.stored = Stored(TRUE)] /\ work' = [work EXCEPT !.index = @ + 1]
        /\ UNCHANGED longVars
    BY <1>6 DEF StoreRow
  <2>2. work' = [work EXCEPT !.phase = "rows", !.index = @ + 1]
    BY <1>1, <1>2, <2>1 DEF TypeOK, WorkType
  <2> QED
    BY <1>2, <1>3, <1>6, <2>1, <2>2, StoredKeeps
<1>7. CASE ~result.rows[Row].readable
  <2>1. data' = data /\ work' = [work EXCEPT !.index = @ + 1]
    BY <1>7 DEF StoreRow
  <2>2. /\ work'.phase = "rows" /\ work'.call = work.call /\ work'.failed = work.failed
        /\ work'.index = work.index + 1
        /\ work' \in WorkType
    BY <1>1, <1>2, <2>1 DEF TypeOK, WorkType
  <2>3. TypeOK'
    BY <1>1, <1>2, <2>1, <2>2 DEF TypeOK
  <2>4. CallsInv'
    BY <1>1, <1>2, <1>3, <2>1, <2>2 DEF CallsInv, Idle, Fetching
  <2>5. OpenInv'
    BY <1>1, <1>2, <1>3, <2>1, <2>2 DEF OpenInv
  <2>6. KeptInv'
    BY <1>1, <1>2, <2>1 DEF KeptInv
  <2>7. Reached' = Reached + 1 /\ ~Idle'
    <3>1. position \in Nat /\ data.fetched \in Nat /\ work.index \in Nat
      BY <1>1, Fields
    <3>2. Row' = Row + 1
      BY <1>2, <2>1, <2>2, <3>1 DEF Row
    <3> QED
      BY <1>4, <2>2, <3>2 DEF Reached, InBlock, Idle
  <2>8. BlockInv'
    <3>1. work'.index \in 1..data'.fetched + 1
      BY <1>1, <1>2, <1>3, <2>1, <2>2, Fields DEF BlockInv
    <3> QED
      BY <1>1, <1>2, <1>3, <2>1, <2>2, <3>1 DEF BlockInv
  <2>9. Got' = Got /\ Readable' = Readable
    BY <1>2, <2>1 DEF Got, Readable
  <2>10. OrderInv'
    BY <1>1, <1>4, <2>7, <2>9, OrderKept
  <2>11. ReadInv'
    <3>1. Reached + 1 \notin Readable
      BY <1>4, <1>7 DEF Readable
    <3>2. Readable \subseteq Nat
      BY <1>1, Fields DEF Readable
    <3>3. \A n \in Nat : n <= Reached + 1 <=> n <= Reached \/ n = Reached + 1
      BY <1>4
    <3>4. {n \in Readable : n <= Reached + 1} = {n \in Readable : n <= Reached}
      BY <3>1, <3>2, <3>3
    <3> QED
      BY <1>1, <1>2, <2>2, <2>7, <2>9, <3>4 DEF ReadInv
  <2>12. data.fetchSize # 1
    <3> SUFFICES ASSUME data.fetchSize = 1
                 PROVE  FALSE
      OBVIOUS
    <3>1. Row = position
      BY <1>1, <1>2, <1>3, Fields DEF BlockInv, Row
    <3> QED
      BY <1>1, <1>3, <1>7, <3>1 DEF BlockInv
  <2>13. AllInv'
    BY <1>1, <1>2, <2>1, <2>2, <2>7, <2>12 DEF AllInv, AllRowsOrError, CallsInv
  <2>14. EndInv'
    BY <1>1, <1>2, <2>1 DEF EndInv
  <2> QED
    BY <2>3, <2>4, <2>5, <2>6, <2>8, <2>10, <2>11, <2>13, <2>14 DEF Inv, FetchInv, RowsInv
<1> QED
  BY <1>5, <1>6, <1>7

\* The rest of a block is left: all of it is stored, or memory ran out.
LEMMA LeftKeeps ==
  ASSUME Inv, InBlock, NEW f \in BOOLEAN, NEW e \in BOOLEAN,
         f \/ (f = work.failed /\ work.index > data.fetched),
         e => data.end \/ driver.simple \/ data.fetched < data.fetchSize,
         data' = [data EXCEPT !.end = e],
         work' = [work EXCEPT !.phase = AfterSuccess, !.failed = f],
         UNCHANGED <<driver, prepared, result, position, open, cursor, program>>, LongTypeOK'
  PROVE  Inv'
<1>1. /\ TypeOK /\ CallsInv /\ OpenInv /\ KeptInv /\ BlockInv
      /\ OrderInv /\ ReadInv /\ AllInv /\ EndInv
  BY DEF Inv, FetchInv, RowsInv
<1>2. Fetching /\ Going /\ ~Idle
  BY DEF InBlock, Fetching, Going, Idle
<1>3. /\ work.call \in {"fetch", "execute"}
      /\ work.call = "execute" => ~data.useCursor /\ ~cursor
      /\ work.call = "fetch" => data.useCursor /\ cursor /\ program.fetches
      /\ program.executions # 0
  BY <1>1, <1>2 DEF CallsInv
<1>4. /\ data'.hasColumns = data.hasColumns /\ data'.useCursor = data.useCursor
      /\ data'.fetchSize = data.fetchSize /\ data'.fetched = data.fetched
      /\ data'.stored = data.stored /\ data'.end = e
      /\ data' \in DataType
  BY <1>1 DEF TypeOK, DataType
<1>5. AfterSuccess \in {"answer", "fetch"}
  BY DEF AfterSuccess
<1>6. /\ work'.phase = AfterSuccess /\ work'.call = work.call /\ work'.failed = f
      /\ work'.index = work.index
      /\ work' \in WorkType
  BY <1>1, <1>5 DEF TypeOK, WorkType
<1>7. TypeOK'
  BY <1>1, <1>4, <1>6 DEF TypeOK
<1>8. CallsInv'
  BY <1>1, <1>2, <1>3, <1>4, <1>5, <1>6 DEF CallsInv, Idle, Fetching
<1>9. OpenInv'
  BY <1>1, <1>2, <1>3, <1>4, <1>6 DEF OpenInv
<1>10. KeptInv'
  BY <1>1, <1>2, <1>4 DEF OpenInv, KeptInv, BlockInv
<1>11. BlockInv' /\ Reached' = position /\ ~Idle'
  BY <1>5, <1>6 DEF BlockInv, InBlock, Reached, Idle
<1>12. Got' = Got /\ Readable' = Readable
  BY <1>4 DEF Got, Readable
<1>13. Reached \in Nat /\ Reached <= position /\ (f \/ Reached = position) /\ position \in Int
  BY <1>1, ReachedBounds, Fields
<1>14. OrderInv'
  BY <1>1, <1>11, <1>12, <1>13, OrderKept
<1>15. ReadInv'
  BY <1>1, <1>6, <1>11, <1>12, <1>13 DEF ReadInv
<1>16. work.call = "execute" => AfterSuccess = "fetch"
  BY <1>3 DEF AfterSuccess
<1>17. AllInv'
  BY <1>1, <1>4, <1>6, <1>11, <1>13, <1>16 DEF AllInv, AllRowsOrError
<1>18. EndInv'
  <2> SUFFICES ASSUME e, program.executions <= 1, ~driver.simple
               PROVE  /\ program.executions = 1
                      /\ position = Len(result.rows)
                      /\ data.useCursor => program.fetches
    BY <1>4 DEF EndInv
  <2>1. program.executions = 1
    BY <1>1, <1>3, Fields
  <2>2. data.useCursor => program.fetches
    BY <1>3
  <2>3. data.end \/ data.fetched < data.fetchSize
    OBVIOUS
  <2>4. position = Len(result.rows)
    BY <1>1, <2>3 DEF EndInv, BlockInv
  <2> QED
    BY <2>1, <2>2, <2>4
<1> QED
  BY <1>7, <1>8, <1>9, <1>10, <1>11, <1>14, <1>15, <1>17, <1>18 DEF Inv, FetchInv, RowsInv

LEMMA BlockEndsKeeps ==
  ASSUME Inv, BlockEnds, LongTypeOK'
  PROVE  Inv'
<1>1. /\ work.phase = "rows" /\ work.index > data.fetched
      /\ data' = [data EXCEPT !.end = data.end \/ driver.simple \/ data.fetched < data.fetchSize]
      /\ work' = [work EXCEPT !.phase = AfterSuccess]
      /\ UNCHANGED <<driver, prepared, result, position, open, cursor, program>>
  BY DEF BlockEnds, Goes
<1>2. TypeOK
  BY DEF Inv, FetchInv
<1>3. PICK e \in BOOLEAN : e = (data.end \/ driver.simple \/ data.fetched < data.fetchSize)
  OBVIOUS
<1>4. PICK f \in BOOLEAN : f = work.failed
  BY <1>2, Fields
<1>5. data' = [data EXCEPT !.end = e] /\ (e => data.end \/ driver.simple \/ data.fetched < data.fetchSize)
  BY <1>1, <1>3
<1>6. work' = [work EXCEPT !.phase = AfterSuccess, !.failed = f]
  BY <1>1, <1>2, <1>4 DEF TypeOK, WorkType
<1>7. InBlock
  BY <1>1 DEF InBlock
<1> QED
  BY <1>1, <1>4, <1>5, <1>6, <1>7, LeftKeeps

\* The value was received, or not; SQL_NO_DATA is never returned.
LEMMA ColumnEndsKeeps ==
  ASSUME Inv, LongInv, ColumnEnds, LongTypeOK'
  PROVE  Inv'
<1>1. /\ work.phase = "column"
      /\ UNCHANGED <<driver, prepared, result, position, open, cursor, program>>
  BY DEF ColumnEnds
<1>2. TypeOK /\ BlockInv
  BY DEF Inv, FetchInv
<1>3. InBlock /\ Fetching
  BY <1>1 DEF InBlock, Fetching
<1>4. at \in {"done", "error", "noMemory"}
  BY DEF ColumnEnds, LongInv, LongType
<1>5. work.index <= data.fetched /\ result.rows[Row].readable
  BY <1>1, <1>2, <1>3 DEF BlockInv
<1>6. CASE at = "done"
  <2>1. /\ data' = [data EXCEPT !.stored = Stored(TRUE)]
        /\ work' = [work EXCEPT !.phase = "rows", !.index = @ + 1]
    BY <1>6 DEF ColumnEnds
  <2> QED
    BY <1>1, <1>3, <1>5, <2>1, StoredKeeps
<1>7. CASE at = "error"
  <2>1. data' = data /\ Fails
    BY <1>7 DEF ColumnEnds
  <2>2. position' \in position..Len(result.rows)
    BY <1>1, <1>2, Fields
  <2> QED
    BY <1>1, <1>3, <2>1, <2>2, FailedKeeps
<1>8. CASE at = "noMemory"
  <2>1. data' = data /\ work' = [work EXCEPT !.phase = AfterSuccess, !.failed = TRUE]
    BY <1>8 DEF ColumnEnds
  <2>2. PICK e \in BOOLEAN : e = data.end
    BY <1>2, Fields
  <2>3. data' = [data EXCEPT !.end = e]
    BY <1>2, <2>1, <2>2 DEF TypeOK, DataType
  <2>4. e => data.end \/ driver.simple \/ data.fetched < data.fetchSize
    BY <2>2
  <2> QED
    BY <1>1, <1>3, <2>1, <2>3, <2>4, LeftKeeps
<1> QED
  BY <1>4, <1>6, <1>7, <1>8

LEMMA CloseAfterRowsKeeps ==
  ASSUME Inv, CloseAfterRows, LongTypeOK'
  PROVE  Inv'
<1>1. /\ TypeOK /\ CallsInv /\ OpenInv /\ KeptInv /\ BlockInv
      /\ OrderInv /\ ReadInv /\ AllInv /\ EndInv
  BY DEF Inv, FetchInv, RowsInv
<1>2. PICK f \in BOOLEAN : /\ work' = [work EXCEPT !.phase = "answer", !.failed = f]
                           /\ open' = (open /\ f)
  BY DEF CloseAfterRows, MayFail
<1>3. /\ work.phase = "closing"
      /\ UNCHANGED <<driver, prepared, result, position, data, cursor, program>>
  BY DEF CloseAfterRows
<1>4. /\ work'.phase = "answer" /\ work'.call = work.call /\ work'.failed = f
      /\ work' \in WorkType
  BY <1>1, <1>2 DEF TypeOK, WorkType
<1>5. ~Idle /\ ~InBlock /\ Reached = position
  BY <1>3 DEF Idle, InBlock, Reached
<1>6. work.call = "execute" /\ ~data.useCursor /\ ~work.failed /\ ~cursor
  BY <1>1, <1>3 DEF CallsInv
<1>7. TypeOK'
  BY <1>1, <1>2, <1>3, <1>4 DEF TypeOK
<1>8. CallsInv'
  BY <1>1, <1>3, <1>4, <1>5, <1>6 DEF CallsInv, Idle, Fetching
<1>9. OpenInv'
  BY <1>3, <1>4, <1>6 DEF OpenInv, Going, Fetching
<1>10. KeptInv'
  BY <1>1, <1>2, <1>3, <1>4, <1>6 DEF KeptInv
<1>11. BlockInv' /\ Reached' = Reached /\ ~Idle'
  BY <1>3, <1>4, <1>5 DEF BlockInv, InBlock, Reached, Idle
<1>12. Got' = Got /\ Readable' = Readable
  BY <1>3 DEF Got, Readable
<1>13. OrderInv'
  BY <1>1, <1>11, <1>12, ReachedBounds, OrderKept
<1>14. ReadInv'
  BY <1>1, <1>3, <1>4, <1>6, <1>11, <1>12 DEF ReadInv
<1>15. AllInv'
  BY <1>1, <1>3, <1>4, <1>6, <1>11 DEF AllInv, AllRowsOrError
<1>16. EndInv'
  BY <1>1, <1>3 DEF EndInv
<1> QED
  BY <1>7, <1>8, <1>9, <1>10, <1>11, <1>13, <1>14, <1>15, <1>16 DEF Inv, FetchInv, RowsInv

LEMMA EmptyParts ==
  ASSUME NEW s \in Seq(StoredRow)
  PROVE  s \o <<>> = s /\ <<>> \o s = s
OBVIOUS

\* The program is told of an error.
LEMMA AnswerErrorKeeps ==
  ASSUME Inv, Answer, work.failed, LongTypeOK'
  PROVE  Inv'
<1>1. /\ TypeOK /\ CallsInv /\ OpenInv /\ KeptInv /\ BlockInv
      /\ OrderInv /\ ReadInv /\ AllInv /\ EndInv
  BY DEF Inv, FetchInv, RowsInv
<1>2. /\ work.phase = "answer" /\ work' = NoWork
      /\ program' = [program EXCEPT !.erred = TRUE]
      /\ UNCHANGED <<driver, prepared, result, position, open, data, cursor>>
  BY DEF Answer
<1>3. /\ program'.executions = program.executions /\ program'.fetches = program.fetches
      /\ program'.erred = TRUE /\ program'.delivered = program.delivered
      /\ program' \in ProgramType
  BY <1>1, <1>2 DEF TypeOK, ProgramType
<1>4. /\ work'.phase = "idle" /\ work'.call = "none" /\ work'.failed = FALSE
      /\ work' \in WorkType
  BY <1>2 DEF NoWork, WorkType
<1>5. ~Idle /\ ~InBlock /\ Reached = position /\ Idle'
  BY <1>2, <1>4 DEF Idle, InBlock, Reached
<1>6. TypeOK'
  BY <1>1, <1>2, <1>3, <1>4 DEF TypeOK
<1>7. CallsInv'
  BY <1>1, <1>2, <1>3, <1>4, <1>5 DEF CallsInv, Fetching
<1>8. OpenInv'
  BY <1>1, <1>2, <1>4 DEF OpenInv, Going, Fetching
<1>9. KeptInv'
  BY <1>1, <1>2 DEF KeptInv
<1>10. BlockInv' /\ Reached' = Reached
  BY <1>2, <1>4, <1>5 DEF BlockInv, InBlock, Reached
<1>11. Got' = Got
  BY <1>2, <1>3 DEF Got
<1>12. OrderInv'
  BY <1>1, <1>10, <1>11, ReachedBounds, OrderKept
<1>13. ReadInv' /\ AllInv'
  BY <1>3, <1>4 DEF ReadInv, AllInv, AllRowsOrError
<1>14. EndInv'
  BY <1>1, <1>2, <1>3 DEF EndInv
<1> QED
  BY <1>6, <1>7, <1>8, <1>9, <1>10, <1>12, <1>13, <1>14 DEF Inv, FetchInv, RowsInv

\* The program is given rows.
LEMMA AnswerRowsKeeps ==
  ASSUME Inv, Answer, ~work.failed,
         work.call = "fetch" \/ (work.call = "execute" /\ ~data.useCursor), LongTypeOK'
  PROVE  Inv'
<1>1. /\ TypeOK /\ CallsInv /\ OpenInv /\ KeptInv /\ BlockInv
      /\ OrderInv /\ ReadInv /\ AllInv /\ EndInv
  BY DEF Inv, FetchInv, RowsInv
<1>2. /\ work.phase = "answer" /\ work' = NoWork
      /\ cursor' = (work.call # "close" /\ data.useCursor)
      /\ program' = [program EXCEPT !.delivered = @ \o data.stored]
      /\ data' = [data EXCEPT !.stored = <<>>]
      /\ UNCHANGED <<driver, prepared, result, position, open>>
  BY DEF Answer
<1>3. program.delivered \in Seq(StoredRow) /\ data.stored \in Seq(StoredRow)
      /\ Got \in Seq(StoredRow)
  BY <1>1, Fields, GotType
<1>4. /\ program'.executions = program.executions /\ program'.fetches = program.fetches
      /\ program'.erred = program.erred /\ program'.delivered = Got
      /\ program' \in ProgramType
  <2>1. program' = [program EXCEPT !.delivered = Got]
    BY <1>1, <1>2 DEF TypeOK, ProgramType, Got
  <2> QED
    BY <1>1, <1>3, <2>1 DEF TypeOK, ProgramType
<1>5. /\ data'.hasColumns = data.hasColumns /\ data'.useCursor = data.useCursor
      /\ data'.fetchSize = data.fetchSize /\ data'.fetched = data.fetched
      /\ data'.end = data.end /\ data'.stored = <<>>
      /\ data' \in DataType
  <2>1. <<>> \in Seq(StoredRow)
    OBVIOUS
  <2> QED
    BY <1>1, <1>2, <2>1 DEF TypeOK, DataType
<1>6. /\ work'.phase = "idle" /\ work'.call = "none" /\ work'.failed = FALSE
      /\ work' \in WorkType
  BY <1>2 DEF NoWork, WorkType
<1>7. ~Idle /\ ~InBlock /\ Reached = position /\ Idle'
  BY <1>2, <1>6 DEF Idle, InBlock, Reached
<1>8. /\ work.call = "fetch" => cursor /\ data.useCursor /\ cursor' = TRUE
      /\ work.call = "execute" => ~cursor /\ ~data.useCursor /\ cursor' = FALSE
  BY <1>1, <1>2 DEF CallsInv
<1>9. TypeOK'
  BY <1>1, <1>2, <1>4, <1>5, <1>6, <1>8 DEF TypeOK
<1>10. CallsInv'
  BY <1>1, <1>2, <1>4, <1>5, <1>6, <1>7, <1>8 DEF CallsInv, Fetching
<1>11. OpenInv'
  BY <1>1, <1>2, <1>5, <1>6, <1>8 DEF OpenInv, Going, Fetching
<1>12. KeptInv'
  BY <1>5 DEF KeptInv
<1>13. BlockInv' /\ Reached' = Reached
  BY <1>2, <1>6, <1>7 DEF BlockInv, InBlock, Reached
<1>14. Got' = Got /\ Readable' = Readable
  <2>1. Got \o <<>> = Got
    BY <1>3, EmptyParts
  <2> QED
    BY <1>2, <1>4, <1>5, <2>1 DEF Got, Readable
<1>15. OrderInv'
  BY <1>1, <1>13, <1>14, ReachedBounds, OrderKept
<1>16. ReadInv'
  BY <1>1, <1>4, <1>6, <1>8, <1>13, <1>14 DEF ReadInv
<1>17. AllInv'
  <2> SUFFICES ASSUME ~data.useCursor
               PROVE  Complete(Got, Len(result.rows))
    BY <1>2, <1>4, <1>5, <1>6 DEF AllInv, AllRowsOrError, Complete
  <2>1. work.call = "execute"
    BY <1>8
  <2>2. program.delivered = <<>> /\ Complete(data.stored, Reached) /\ position = Len(result.rows)
    BY <1>1, <1>2, <2>1 DEF AllInv
  <2>3. Got = data.stored
    BY <1>3, <2>2, EmptyParts DEF Got
  <2> QED
    BY <1>7, <2>2, <2>3
<1>18. EndInv'
  BY <1>1, <1>2, <1>4, <1>5 DEF EndInv
<1> QED
  BY <1>9, <1>10, <1>11, <1>12, <1>13, <1>15, <1>16, <1>17, <1>18 DEF Inv, FetchInv, RowsInv

\* The program gets a cursor, or has closed its cursor.
LEMMA AnswerCursorKeeps ==
  ASSUME Inv, Answer, ~work.failed,
         ~(work.call = "fetch" \/ (work.call = "execute" /\ ~data.useCursor)), LongTypeOK'
  PROVE  Inv'
<1>1. /\ TypeOK /\ CallsInv /\ OpenInv /\ KeptInv /\ BlockInv
      /\ OrderInv /\ ReadInv /\ AllInv /\ EndInv
  BY DEF Inv, FetchInv, RowsInv
<1>2. /\ work.phase = "answer" /\ work' = NoWork
      /\ cursor' = (work.call # "close" /\ data.useCursor)
      /\ UNCHANGED <<driver, prepared, result, position, open, data, program>>
  BY DEF Answer
<1>3. /\ work'.phase = "idle" /\ work'.call = "none" /\ work'.failed = FALSE
      /\ work' \in WorkType
  BY <1>2 DEF NoWork, WorkType
<1>4. ~Idle /\ ~InBlock /\ Reached = position /\ Idle'
  BY <1>2, <1>3 DEF Idle, InBlock, Reached
<1>5. /\ work.call \in {"execute", "close"} /\ data.useCursor
      /\ work.call = "execute" => ~cursor /\ cursor' = TRUE
      /\ work.call = "close" => cursor' = FALSE
  BY <1>1, <1>2, Fields DEF CallsInv
<1>6. TypeOK'
  BY <1>1, <1>2, <1>3, <1>5 DEF TypeOK
<1>7. CallsInv'
  BY <1>1, <1>2, <1>3, <1>4, <1>5 DEF CallsInv, Fetching
<1>8. OpenInv'
  BY <1>1, <1>2, <1>3, <1>5 DEF OpenInv, Going, Fetching
<1>9. KeptInv'
  BY <1>1, <1>2, <1>5 DEF KeptInv
<1>10. BlockInv' /\ Reached' = Reached
  BY <1>2, <1>3, <1>4 DEF BlockInv, InBlock, Reached
<1>11. Got' = Got /\ Readable' = Readable
  BY <1>2 DEF Got, Readable
<1>12. OrderInv'
  BY <1>1, <1>10, <1>11, ReachedBounds, OrderKept
<1>13. ReadInv'
  BY <1>1, <1>2, <1>3, <1>5, <1>10, <1>11 DEF ReadInv
<1>14. AllInv'
  BY <1>1, <1>2, <1>3, <1>5 DEF AllInv, AllRowsOrError
<1>15. EndInv'
  BY <1>1, <1>2 DEF EndInv
<1> QED
  BY <1>6, <1>7, <1>8, <1>9, <1>10, <1>12, <1>13, <1>14, <1>15 DEF Inv, FetchInv, RowsInv

-----------------------------------------------------------------------------
(* The program's calls.                                                    *)

LEMMA CursorFetchKeeps ==
  ASSUME Inv, CursorFetch, LongTypeOK'
  PROVE  Inv'
<1>1. /\ TypeOK /\ CallsInv /\ OpenInv /\ KeptInv /\ BlockInv
      /\ OrderInv /\ ReadInv /\ AllInv /\ EndInv
  BY DEF Inv, FetchInv, RowsInv
<1>2. /\ Idle /\ cursor
      /\ work' = [NoWork EXCEPT !.call = "fetch", !.phase = "fetch"]
      /\ program' = [program EXCEPT !.fetches = TRUE]
      /\ UNCHANGED <<driver, prepared, result, position, open, data, cursor>>
  BY DEF CursorFetch
<1>3. /\ program'.executions = program.executions /\ program'.fetches = TRUE
      /\ program'.erred = program.erred /\ program'.delivered = program.delivered
      /\ program' \in ProgramType
  BY <1>1, <1>2 DEF TypeOK, ProgramType
<1>4. /\ work'.phase = "fetch" /\ work'.call = "fetch" /\ work'.failed = FALSE
      /\ work' \in WorkType
  BY <1>2 DEF NoWork, WorkType
<1>5. work.phase = "idle" /\ work.call = "none" /\ work.failed = FALSE /\ Going
  BY <1>1, <1>2 DEF CallsInv, NoWork, Idle, Going
<1>6. ~InBlock /\ Reached = position /\ ~Idle'
  BY <1>4, <1>5 DEF Idle, InBlock, Reached
<1>7. TypeOK'
  BY <1>1, <1>2, <1>3, <1>4 DEF TypeOK
<1>8. CallsInv'
  BY <1>1, <1>2, <1>3, <1>4, <1>6 DEF CallsInv, Fetching
<1>9. OpenInv'
  BY <1>1, <1>2, <1>5 DEF OpenInv
<1>10. KeptInv'
  BY <1>1, <1>2, <1>5 DEF KeptInv
<1>11. BlockInv' /\ Reached' = Reached
  BY <1>2, <1>4, <1>6 DEF BlockInv, InBlock, Reached
<1>12. Got' = Got /\ Readable' = Readable
  BY <1>2, <1>3 DEF Got, Readable
<1>13. OrderInv'
  BY <1>1, <1>11, <1>12, ReachedBounds, OrderKept
<1>14. ReadInv'
  BY <1>1, <1>2, <1>3, <1>4, <1>5, <1>11, <1>12 DEF ReadInv
<1>15. AllInv'
  BY <1>4, <1>6 DEF AllInv, AllRowsOrError
<1>16. EndInv'
  BY <1>1, <1>2, <1>3 DEF EndInv
<1> QED
  BY <1>7, <1>8, <1>9, <1>10, <1>11, <1>13, <1>14, <1>15, <1>16 DEF Inv, FetchInv, RowsInv

LEMMA CursorCloseKeeps ==
  ASSUME Inv, CursorClose, LongTypeOK'
  PROVE  Inv'
<1>1. /\ TypeOK /\ CallsInv /\ OpenInv /\ KeptInv /\ BlockInv
      /\ OrderInv /\ ReadInv /\ AllInv /\ EndInv
  BY DEF Inv, FetchInv, RowsInv
<1>2. PICK f \in BOOLEAN :
        /\ work' = [call |-> "close", phase |-> "answer", index |-> 0, failed |-> f]
        /\ open' = (open /\ f)
        /\ data' = IF f THEN data ELSE [data EXCEPT !.hasColumns = FALSE, !.stored = <<>>]
        /\ ~open => f
  BY DEF CursorClose, MayFail
<1>3. /\ Idle /\ cursor
      /\ UNCHANGED <<driver, prepared, result, position, cursor, program>>
  BY DEF CursorClose
<1>4. /\ work'.phase = "answer" /\ work'.call = "close" /\ work'.failed = f
      /\ work' \in WorkType
  BY <1>2 DEF WorkType
<1>5. /\ data'.hasColumns = IF f THEN data.hasColumns ELSE FALSE
      /\ data'.stored = IF f THEN data.stored ELSE <<>>
      /\ data'.useCursor = data.useCursor /\ data'.fetchSize = data.fetchSize
      /\ data'.fetched = data.fetched /\ data'.end = data.end
      /\ data' \in DataType
  <2>1. <<>> \in Seq(StoredRow) /\ data \in DataType
    BY <1>1 DEF TypeOK
  <2>2. CASE f
    BY <1>2, <2>1, <2>2
  <2>3. CASE ~f
    BY <1>2, <2>1, <2>3 DEF DataType
  <2> QED
    BY <2>2, <2>3
<1>6. work.phase = "idle" /\ work.call = "none" /\ work.failed = FALSE /\ Going
  BY <1>1, <1>3 DEF CallsInv, NoWork, Idle, Going
<1>7. ~InBlock /\ Reached = position /\ ~Idle'
  BY <1>4, <1>6 DEF Idle, InBlock, Reached
<1>8. TypeOK'
  <2>1. open' \in BOOLEAN
    BY <1>2
  <2> QED
    BY <1>1, <1>3, <1>4, <1>5, <2>1 DEF TypeOK
<1>9. CallsInv'
  BY <1>1, <1>3, <1>4, <1>5, <1>7 DEF CallsInv, Fetching
<1>10. OpenInv'
  BY <1>1, <1>2, <1>3, <1>4, <1>5, <1>6 DEF OpenInv
<1>11. KeptInv'
  BY <1>1, <1>2, <1>5, <1>6 DEF KeptInv
<1>12. BlockInv' /\ Reached' = Reached
  BY <1>3, <1>4, <1>7 DEF BlockInv, InBlock, Reached
<1>13. OrderInv'
  <2>1. CASE f
    <3>1. Got' = Got
      BY <1>3, <1>5, <2>1 DEF Got
    <3> QED
      BY <1>1, <1>12, <3>1, ReachedBounds, OrderKept
  <2>2. CASE ~f
    <3>1. program.delivered \in Seq(StoredRow) /\ data.stored \in Seq(StoredRow)
          /\ position \in Nat
      BY <1>1, Fields
    <3>2. Got' = program.delivered
      BY <1>3, <1>5, <2>2, <3>1, EmptyParts DEF Got
    <3>3. Rising(program.delivered \o data.stored)
          /\ Upto(program.delivered \o data.stored, position)
      BY <1>1, <1>7 DEF OrderInv, Got
    <3>4. Rising(program.delivered) /\ Upto(program.delivered, position)
      BY <3>1, <3>3, PartsInOrder
    <3> QED
      BY <1>7, <1>12, <3>2, <3>4 DEF OrderInv
  <2> QED
    BY <2>1, <2>2
<1>14. ReadInv' /\ AllInv'
  BY <1>4, <1>7 DEF ReadInv, AllInv, AllRowsOrError
<1>15. EndInv'
  BY <1>1, <1>3, <1>5 DEF EndInv
<1> QED
  BY <1>8, <1>9, <1>10, <1>11, <1>12, <1>13, <1>14, <1>15 DEF Inv, FetchInv, RowsInv

\* What Execute notes before the driver is asked.
LEMMA Noted ==
  ASSUME TypeOK, NEW c \in BOOLEAN, NEW n \in FetchSizes \cup {1}
  PROVE  LET d == set_fetch_size(c, n) IN
         /\ d \in DataType
         /\ d.useCursor = c /\ d.fetchSize = n /\ n >= 1
         /\ d.hasColumns = data.hasColumns /\ d.fetched = data.fetched /\ d.end = data.end
         /\ d.stored = data.stored
<1>1. n \in Nat /\ n >= 1
  BY OptionsAssumption
<1>2. data \in DataType
  BY DEF TypeOK
<1> QED
  BY <1>1, <1>2 DEF set_fetch_size, DataType

\* The driver refuses to execute.
LEMMA RefusedKeeps ==
  ASSUME Inv, NEW r \in Results, NEW c \in BOOLEAN, NEW n \in FetchSizes \cup {1}, Execute(r, c, n),
         LongTypeOK', program' \in ProgramType,
         data' = set_fetch_size(c, n),
         work' = [NoWork EXCEPT !.call = "execute", !.phase = "answer", !.failed = TRUE],
         UNCHANGED <<result, position, open>>
  PROVE  Inv'
<1>1. /\ TypeOK /\ CallsInv /\ OpenInv /\ KeptInv /\ BlockInv
      /\ OrderInv /\ ReadInv /\ AllInv /\ EndInv
  BY DEF Inv, FetchInv, RowsInv
<1>2. /\ Idle /\ ~cursor /\ (c \/ n = 1)
      /\ program' = [executions |-> program.executions + 1, fetches |-> FALSE,
                     erred |-> FALSE, delivered |-> <<>>]
      /\ UNCHANGED <<driver, prepared, cursor>>
  BY DEF Execute
<1>3. /\ data' \in DataType
      /\ data'.useCursor = c /\ data'.fetchSize = n /\ n >= 1
      /\ data'.hasColumns = data.hasColumns /\ data'.fetched = data.fetched
      /\ data'.end = data.end /\ data'.stored = data.stored
  BY <1>1, Noted
<1>4. /\ work'.phase = "answer" /\ work'.call = "execute" /\ work'.failed = TRUE
      /\ work' \in WorkType
  BY DEF NoWork, WorkType
<1>5. work.phase = "idle" /\ ~InBlock /\ Reached = position /\ ~Idle'
  BY <1>2, <1>4 DEF Idle, InBlock, Reached
<1>6. program'.executions # 0 /\ (program'.executions <= 1 => program.executions = 0)
      /\ program'.delivered = <<>>
  BY <1>1, <1>2, Fields
<1>7. TypeOK'
  BY <1>1, <1>2, <1>3, <1>4 DEF TypeOK
<1>8. CallsInv'
  BY <1>2, <1>3, <1>4, <1>5, <1>6 DEF CallsInv, Fetching
<1>9. OpenInv'
  BY <1>2, <1>4 DEF OpenInv, Going, Fetching
<1>10. KeptInv'
  BY <1>1, <1>3, <1>5 DEF KeptInv
<1>11. BlockInv' /\ Reached' = Reached
  BY <1>4, <1>5 DEF BlockInv, InBlock, Reached
<1>12. OrderInv'
  <2>1. program.delivered \in Seq(StoredRow) /\ data.stored \in Seq(StoredRow)
        /\ position \in Nat
    BY <1>1, Fields
  <2>2. Got' = data.stored
    BY <1>3, <1>6, <2>1, EmptyParts DEF Got
  <2>3. Rising(program.delivered \o data.stored)
        /\ Upto(program.delivered \o data.stored, position)
    BY <1>1, <1>5 DEF OrderInv, Got
  <2>4. Rising(data.stored) /\ Upto(data.stored, position)
    BY <2>1, <2>3, PartsInOrder
  <2> QED
    BY <1>5, <1>11, <2>2, <2>4 DEF OrderInv
<1>13. ReadInv' /\ AllInv'
  BY <1>4, <1>5 DEF ReadInv, AllInv, AllRowsOrError
<1>14. EndInv'
  BY <1>1, <1>2, <1>3, <1>6 DEF EndInv
<1> QED
  BY <1>7, <1>8, <1>9, <1>10, <1>11, <1>12, <1>13, <1>14 DEF Inv, FetchInv, RowsInv

\* The driver executes; then fails, or rows can be fetched.
LEMMA ExecutedKeeps ==
  ASSUME Inv, NEW r \in Results, NEW c \in BOOLEAN, NEW n \in FetchSizes \cup {1}, Execute(r, c, n),
         LongTypeOK', program' \in ProgramType,
         ~open, result' = r, position' = 0, open' = r.hasColumns,
         data' = prepare_for_fetch(set_fetch_size(c, n), r),
         NEW f \in BOOLEAN, driver.simple /\ n # 1 => f,
         work' = [call |-> "execute", index |-> 0, failed |-> f,
                  phase |-> IF c \/ f THEN "answer" ELSE "fetch"]
  PROVE  Inv'
<1>1. /\ TypeOK /\ CallsInv /\ OpenInv /\ KeptInv /\ BlockInv
      /\ OrderInv /\ ReadInv /\ AllInv /\ EndInv
  BY DEF Inv, FetchInv, RowsInv
<1>2. /\ Idle /\ ~cursor /\ (c \/ n = 1)
      /\ program' = [executions |-> program.executions + 1, fetches |-> FALSE,
                     erred |-> FALSE, delivered |-> <<>>]
      /\ UNCHANGED <<driver, prepared, cursor>>
  BY DEF Execute
<1>3. r.hasColumns \in BOOLEAN /\ Len(r.rows) \in Nat
  BY ResultFields
<1>4. /\ data' \in DataType
      /\ data'.useCursor = c /\ data'.fetchSize = n /\ n >= 1
      /\ data'.hasColumns = r.hasColumns /\ (driver.simple => data'.fetched = 1)
      /\ data'.end = data.end /\ data'.stored = data.stored
  <2> DEFINE d == set_fetch_size(c, n)
  <2>1. /\ d \in DataType
        /\ d.useCursor = c /\ d.fetchSize = n /\ n >= 1
        /\ d.end = data.end /\ d.stored = data.stored
    BY <1>1, Noted
  <2> HIDE DEF d
  <2>2. data' = [d EXCEPT !.hasColumns = r.hasColumns, !.fetched = IF driver.simple THEN 1 ELSE 0]
    BY DEF prepare_for_fetch, d
  <2>3. PICK k \in Nat : k = IF driver.simple THEN 1 ELSE 0
    OBVIOUS
  <2>4. data' = [d EXCEPT !.hasColumns = r.hasColumns, !.fetched = k]
    BY <2>2, <2>3
  <2>5. driver.simple => k = 1
    BY <2>3
  <2> QED
    BY <1>3, <2>1, <2>4, <2>5 DEF DataType
<1>5. /\ work'.phase = IF c \/ f THEN "answer" ELSE "fetch"
      /\ work'.call = "execute" /\ work'.failed = f
      /\ work' \in WorkType
  BY DEF WorkType
<1>6. work.phase = "idle" /\ ~Idle' /\ ~InBlock'
  BY <1>2, <1>5 DEF Idle, InBlock
<1>7. program'.executions # 0 /\ (program'.executions <= 1 => program.executions = 0)
      /\ program'.delivered = <<>>
  BY <1>1, <1>2, Fields
<1>8. data'.stored = <<>> /\ Got' = <<>>
  <2>1. data.stored = <<>>
    BY <1>1, <1>6 DEF KeptInv
  <2> QED
    BY <1>4, <1>7, <2>1 DEF Got
<1>9. TypeOK'
  BY <1>1, <1>2, <1>3, <1>4, <1>5 DEF TypeOK
<1>10. CallsInv'
  BY <1>2, <1>4, <1>5, <1>6, <1>7 DEF CallsInv, Fetching
<1>11. OpenInv'
  <2> SUFFICES ASSUME Going'
               PROVE  /\ driver.simple => n = 1 /\ data'.fetched = 1
                      /\ data'.hasColumns => open'
                      /\ data'.hasColumns = result'.hasColumns
    BY <1>2, <1>4 DEF OpenInv
  <2>1. ~f
    BY <1>2, <1>5 DEF Going, Fetching
  <2> QED
    BY <1>4, <2>1
<1>12. KeptInv'
  BY <1>8 DEF KeptInv
<1>13. BlockInv' /\ Reached' = 0
  BY <1>6 DEF BlockInv, Reached
<1>14. OrderInv'
  BY <1>8, <1>13, NoRows DEF OrderInv
<1>15. ReadInv'
  <2>1. \A x \in Readable' : x \in Nat /\ ~(x <= 0)
    BY <1>3 DEF Readable
  <2>2. {x \in Readable' : x <= Reached'} = {}
    BY <1>13, <2>1
  <2>3. Numbers(Got') = {}
    BY <1>8, NoRows
  <2> QED
    BY <2>2, <2>3 DEF ReadInv
<1>16. AllInv'
  <2>1. Complete(data'.stored, Reached')
    BY <1>8, <1>13, NoRows
  <2> QED
    BY <1>4, <1>5, <1>6, <1>7, <1>8, <2>1 DEF AllInv, AllRowsOrError
<1>17. EndInv'
  BY <1>1, <1>2, <1>4, <1>7 DEF EndInv
<1> QED
  BY <1>9, <1>10, <1>11, <1>12, <1>13, <1>14, <1>15, <1>16, <1>17 DEF Inv, FetchInv, RowsInv

LEMMA ExecuteKeeps ==
  ASSUME Inv, NEW r \in Results, NEW c \in BOOLEAN, NEW n \in FetchSizes \cup {1}, Execute(r, c, n),
         LongTypeOK'
  PROVE  Inv'
<1>1. TypeOK
  BY DEF Inv, FetchInv
<1>2. program' \in ProgramType
  <2>1. /\ program.executions < IF prepared THEN MaxExecutions ELSE 1
        /\ program' = [executions |-> program.executions + 1, fetches |-> FALSE,
                       erred |-> FALSE, delivered |-> <<>>]
    BY DEF Execute
  <2>2. program.executions \in Nat /\ MaxExecutions \in Nat \ {0}
    BY <1>1, Fields, OptionsAssumption
  <2>3. program.executions + 1 \in 0..MaxExecutions
    BY <2>1, <2>2
  <2>4. <<>> \in Seq(StoredRow)
    OBVIOUS
  <2> QED
    BY <2>1, <2>3, <2>4 DEF ProgramType
<1>3. CASE /\ data' = set_fetch_size(c, n)
           /\ work' = [NoWork EXCEPT !.call = "execute", !.phase = "answer", !.failed = TRUE]
           /\ UNCHANGED <<result, position, open>>
  BY <1>2, <1>3, RefusedKeeps
<1>4. CASE /\ ~open /\ result' = r /\ position' = 0 /\ open' = r.hasColumns
           /\ data' = prepare_for_fetch(set_fetch_size(c, n), r)
           /\ \E failed \in IF driver.simple /\ n # 1 THEN {TRUE} ELSE MayFail :
                 work' = [call |-> "execute", index |-> 0, failed |-> failed,
                          phase |-> IF c \/ failed THEN "answer" ELSE "fetch"]
  <2>1. PICK f \in BOOLEAN :
          /\ driver.simple /\ n # 1 => f
          /\ work' = [call |-> "execute", index |-> 0, failed |-> f,
                      phase |-> IF c \/ f THEN "answer" ELSE "fetch"]
    BY <1>4 DEF MayFail
  <2> QED
    BY <1>2, <1>4, <2>1, ExecutedKeeps
<1> QED
  BY <1>3, <1>4 DEF Execute

-----------------------------------------------------------------------------
(* The invariant is inductive.                                             *)

LEMMA FetchInit == HandledOnly /\ Init => Inv /\ LongInv
<1> SUFFICES ASSUME HandledOnly, Init
             PROVE  Inv /\ LongInv
  OBVIOUS
<1>1. /\ data = [hasColumns |-> FALSE, useCursor |-> FALSE, fetchSize |-> 1, fetched |-> 0,
                 end |-> FALSE, stored |-> <<>>]
      /\ program = [executions |-> 0, fetches |-> FALSE, erred |-> FALSE, delivered |-> <<>>]
      /\ work = NoWork /\ cursor = FALSE /\ open = FALSE /\ position = 0
      /\ driver \in Drivers /\ prepared \in BOOLEAN
  BY DEF Init
<1>2. column \in Columns /\ result \in Results
  BY RowsAssumption DEF Init
<1>3. LongInv
  <2>1. /\ at = "idle" /\ capacity = 0 /\ content = Untouched(0) /\ size = 0
        /\ indicator = 0 /\ given = 0 /\ taken = 0 /\ calls = 0
    BY DEF Init
  <2>2. Untouched(0) \in [1..0 -> Nat]
    BY DEF Untouched
  <2>3. LongType
    BY <1>2, <2>1, <2>2 DEF LongType, Stages
  <2>4. WholeCharacters
    BY <2>1 DEF WholeCharacters, Even
  <2> QED
    BY <2>1, <2>3, <2>4 DEF LongInv, AtGrow, AtMore, AtEnds, AskedTwiceAtMost
<1>4. <<>> \in Seq(StoredRow)
  OBVIOUS
<1>5. TypeOK
  <2>1. data \in DataType
    BY <1>1, <1>4 DEF DataType
  <2>2. program \in ProgramType
    <3>1. 0 \in 0..MaxExecutions
      BY OptionsAssumption
    <3> QED
      BY <1>1, <1>4, <3>1 DEF ProgramType
  <2>3. work \in WorkType
    BY <1>1 DEF NoWork, WorkType
  <2>4. position \in 0..Len(result.rows)
    BY <1>1, <1>2, ResultFields
  <2> QED
    BY <1>1, <1>2, <1>3, <2>1, <2>2, <2>3, <2>4, LongTypes DEF TypeOK
<1>6. Idle /\ ~InBlock /\ ~Fetching /\ work.call = "none" /\ work.phase = "idle"
  BY <1>1 DEF NoWork, Idle, InBlock, Fetching
<1>7. FetchInv
  <2>1. data.fetchSize = 1 /\ data.stored = <<>> /\ program.executions = 0
    BY <1>1
  <2>2. CallsInv
    BY <1>1, <1>6, <2>1 DEF CallsInv
  <2>3. OpenInv /\ KeptInv /\ BlockInv
    BY <1>1, <1>6, <2>1 DEF OpenInv, KeptInv, BlockInv, Going
  <2> QED
    BY <1>5, <2>2, <2>3 DEF FetchInv
<1>8. Got = <<>>
  BY <1>1 DEF Got
<1>9. OrderInv
  BY <1>8, NoRows DEF OrderInv
<1>10. ReadInv /\ AllInv /\ EndInv
  BY <1>1, <1>6 DEF ReadInv, AllInv, EndInv, AllRowsOrError
<1> QED
  BY <1>3, <1>7, <1>9, <1>10 DEF Inv, RowsInv

LEMMA FetchStep == HandledOnly /\ Inv /\ LongInv /\ [Next]_allVars => Inv' /\ LongInv'
<1> SUFFICES ASSUME HandledOnly, Inv, LongInv, [Next]_allVars
             PROVE  Inv' /\ LongInv'
  OBVIOUS
<1>1. LongInv'
  BY LongKept DEF Inv, FetchInv
<1>2. LongTypeOK'
  BY <1>1, LongTypes DEF LongInv, LongType, LongTypeOK
<1>3. CASE UNCHANGED allVars
  BY <1>1, <1>2, <1>3, UnchangedKeeps DEF allVars
<1>4. CASE \E r \in Results, c \in BOOLEAN, n \in FetchSizes \cup {1} : Execute(r, c, n)
  BY <1>1, <1>2, <1>4, ExecuteKeeps
<1>5. CASE CursorFetch
  BY <1>1, <1>2, <1>5, CursorFetchKeeps
<1>6. CASE CursorClose
  BY <1>1, <1>2, <1>6, CursorCloseKeeps
<1>7. CASE FetchBlock
  BY <1>1, <1>2, <1>7, FetchBlockKeeps
<1>8. CASE FetchFails
  BY <1>1, <1>2, <1>8, FetchFailsKeeps
<1>9. CASE StoreRow
  BY <1>1, <1>2, <1>9, StoreRowKeeps
<1>10. CASE ReceiveColumn
  BY <1>1, <1>2, <1>10, UnchangedKeeps DEF ReceiveColumn
<1>11. CASE ColumnEnds
  BY <1>1, <1>2, <1>11, ColumnEndsKeeps
<1>12. CASE BlockEnds
  BY <1>1, <1>2, <1>12, BlockEndsKeeps
<1>13. CASE CloseAfterRows
  BY <1>1, <1>2, <1>13, CloseAfterRowsKeeps
<1>14. CASE Answer
  BY <1>1, <1>2, <1>14, AnswerErrorKeeps, AnswerRowsKeeps, AnswerCursorKeeps
<1> QED
  BY <1>1, <1>3, <1>4, <1>5, <1>6, <1>7, <1>8, <1>9, <1>10, <1>11, <1>12, <1>13, <1>14
  DEF Next, Worker

\* In every state of every execution the fields of the worker and of its data say which
\* rows were stored, and LongData's counters which bytes (odbc_connection.cpp 3584-3960).
THEOREM FetchSafe == HandledOnly => (Spec => [](Inv /\ LongInv))
<1> SUFFICES ASSUME HandledOnly
             PROVE  Spec => [](Inv /\ LongInv)
  OBVIOUS
<1>1. Init => Inv /\ LongInv
  BY FetchInit
<1>2. (Inv /\ LongInv) /\ [Next]_allVars => (Inv /\ LongInv)'
  BY FetchStep
<1> QED
  BY <1>1, <1>2, PTL DEF Spec

\* The types of the state: of the worker, the stored rows and what the program was told.
THEOREM FetchTypes == HandledOnly => (Spec => []TypeOK)
<1>1. Inv => TypeOK
  BY DEF Inv, FetchInv
<1> QED
  BY <1>1, FetchSafe, PTL

\* Of a result set the program gets rows in their order, each at most once and whole,
\* whatever fails between the blocks, and none of an earlier execution.
THEOREM RowsAlwaysInOrder == HandledOnly => (Spec => []RowsInOrder)
<1>1. Inv => RowsInOrder
  <2> SUFFICES ASSUME Inv
               PROVE  RowsInOrder
    OBVIOUS
  <2>1. TypeOK /\ BlockInv /\ OrderInv
    BY DEF Inv, FetchInv, RowsInv
  <2>2. Reached \in Nat /\ Reached <= position /\ position \in Nat
    BY <2>1, ReachedBounds, Fields
  <2>3. Got \in Seq(StoredRow)
    BY <2>1, GotType
  <2>4. PICK n \in Nat : n = Reached
    BY <2>2
  <2>5. PICK m \in Nat : m = position
    BY <2>2
  <2>6. PICK s \in Seq(StoredRow) : s = Got
    BY <2>3
  <2>7. Rising(s) /\ Upto(s, n)
    BY <2>1, <2>4, <2>6 DEF OrderInv
  <2>8. Upto(s, m)
    BY <2>2, <2>4, <2>5, <2>7, UptoMore
  <2> QED
    BY <2>5, <2>6, <2>7, <2>8 DEF RowsInOrder, Rising, Upto
<1> QED
  BY <1>1, FetchSafe, PTL

\* A query that is answered without an error is answered with all rows of its result
\* set, in their order: no error on the way is forgotten.
THEOREM AlwaysAllRowsOrError == HandledOnly => (Spec => []AllRowsOrError)
<1>1. Inv => AllRowsOrError
  BY DEF Inv, RowsInv, AllInv
<1> QED
  BY <1>1, FetchSafe, PTL

\* noData means that all rows that can be read were delivered: of a cursor of a first
\* execution, on a driver that counts rows, as long as no fetch failed.
THEOREM NoDataAlwaysTells == HandledOnly => (Spec => []NoDataTells)
<1>1. Inv => NoDataTells
  <2> SUFFICES ASSUME Inv, Idle, cursor, data.end, ~program.erred, program.executions = 1,
                      ~driver.simple
               PROVE  /\ program.fetches
                      /\ Numbers(program.delivered) = Readable
    BY DEF NoDataTells, Numbers
  <2>1. /\ TypeOK /\ CallsInv /\ ReadInv /\ AllInv /\ EndInv
    BY DEF Inv, FetchInv, RowsInv
  <2>2. work.call = "none" /\ ~work.failed /\ work.phase = "idle"
    BY <2>1 DEF CallsInv, NoWork
  <2>3. position = Len(result.rows) /\ program.fetches
    BY <2>1 DEF EndInv, CallsInv
  <2>4. Got = program.delivered
    BY <2>1, EmptyParts, Fields DEF AllInv, Got
  <2>5. Numbers(program.delivered) = {n \in Readable : n <= Reached}
    BY <2>1, <2>2, <2>4 DEF ReadInv
  <2>6. Reached = position
    BY <2>2 DEF Reached, InBlock
  <2>7. \A n \in Readable : n <= position
    BY <2>1, <2>3, Fields DEF Readable
  <2> QED
    BY <2>3, <2>5, <2>6, <2>7
<1> QED
  BY <1>1, FetchSafe, PTL

\* Of every LONG column of every row, too, all bytes are in their place when the row is
\* stored, one column after another.
THEOREM FetchedAlwaysWhole == HandledOnly => (Spec => []ValueWhole)
BY WholeAtEnd, FetchSafe, PTL

\* In a fetch of many columns, too, the driver is asked at most twice for each.
THEOREM FetchAsksTwiceAtMost == HandledOnly => (Spec => []AskedTwiceAtMost)
BY FewCalls, FetchSafe, PTL
=============================================================================
