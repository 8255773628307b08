------------------------------ MODULE LongData -----------------------------
(***************************************************************************)
(* How fetch_and_store receives the value of one LONG column: SQLGetData   *)
(* hands it over in chunks, into a buffer that grows until all of it is    *)
(* there. One thread does this; a step is one call of the driver or the    *)
(* growing of the buffer between two calls. Sizes are in bytes. The bytes  *)
(* of the value are numbered from 1, and a byte of the buffer holds the    *)
(* number of the byte that was written to it, or 0 for anything else.      *)
(***************************************************************************)
EXTENDS Integers

Kinds == {"binary", "char", "wide"}   \* SQL_C_BINARY, SQL_C_CHAR, SQL_C_WCHAR
NullData == -1                        \* SQL_NULL_DATA
NoTotal == -4                         \* SQL_NO_TOTAL
MaxUtf8Bytes == 4                     \* MAX_UTF8_BYTES

CONSTANTS
    Columns,      \* values of LONG columns: kind; length in bytes or NullData; total:
                  \* the driver tells how much is left, and NoTotal otherwise; initial:
                  \* the query's initialBufferSize
    DriverFails   \* SQLGetData, malloc and realloc may fail

ASSUME ColumnsAssumption ==
    Columns \subseteq [kind : Kinds, length : Nat \cup {NullData}, total : BOOLEAN, initial : Nat \ {0}]
ASSUME DriverFailsAssumption == DriverFails \in BOOLEAN

VARIABLES
    column,      \* the value being fetched
    at,          \* where the code is
    capacity,    \* buffer_size
    content,     \* the buffer
    size,        \* row[column_index].size
    indicator,   \* string_length_or_indicator
    given,       \* the bytes of the value in the last chunk
    taken,       \* the bytes the driver has handed over
    calls        \* of SQLGetData so far, up to CountedCalls

longVars == <<column, at, capacity, content, size, indicator, given, taken, calls>>

Stages == {"idle", "first", "grow", "more", "done", "noData", "error", "noMemory"}

\* Type correctness.
LongTypeOK ==
    /\ column \in Columns
    /\ at \in Stages
    /\ capacity \in Nat
    /\ content \in [1..capacity -> Nat]
    /\ size \in Int
    /\ indicator \in Int
    /\ given \in Nat
    /\ taken \in Nat
    /\ calls \in Nat

\* The driver's side of SQLGetData for a buffer with this much space: text ends with
\* a null character, which needs a place and is not counted, and wide characters are
\* not split.
Terminator == CASE column.kind = "binary" -> 0 [] column.kind = "char" -> 1 [] OTHER -> 2
Room(space) == CASE space <= Terminator -> 0
                 [] space > Terminator /\ column.kind # "wide" -> space - Terminator
                 [] space > Terminator /\ column.kind = "wide" -> (space \div 2) * 2 - 2
Left == column.length - taken
Chunk(space) == IF Left <= Room(space) THEN Left ELSE Room(space)
Told(space) == IF column.total \/ Left <= Room(space) THEN Left ELSE NoTotal

\* SQLGetData writes a chunk at target_buffer, which is offset bytes into the buffer.
Receive(offset, space, buffer) ==
    /\ given' = Chunk(space)
    /\ taken' = taken + Chunk(space)
    /\ indicator' = Told(space)
    /\ content' = [i \in DOMAIN buffer |->
                     IF offset < i /\ i <= offset + Chunk(space) THEN taken + i - offset
                                                                 ELSE buffer[i]]

Untouched(n) == [i \in 1..n |-> 0]

\* A column is turned to, or left.
StartColumn(c, stage) ==
    /\ column' = c
    /\ at' = stage
    /\ capacity' = 0
    /\ content' = Untouched(0)
    /\ size' = 0
    /\ indicator' = 0
    /\ given' = 0
    /\ taken' = 0
    /\ calls' = 0

\* The first chunk, into a buffer of the size the query asks for. More is asked for
\* unless the value is null or shorter than the buffer.
FirstChunk ==
    /\ at = "first"
    /\ capacity' = column.initial
    /\ calls' = 1
    /\ IF column.length = NullData
         THEN /\ at' = "done"
              /\ size' = NullData
              /\ indicator' = NullData
              /\ content' = Untouched(column.initial)
              /\ UNCHANGED <<given, taken>>
         ELSE /\ Receive(0, column.initial, Untouched(column.initial))
              /\ IF indicator' = NoTotal \/ indicator' >= column.initial
                   THEN at' = "grow" /\ UNCHANGED size
                   ELSE at' = "done" /\ size' = indicator'
    /\ UNCHANGED column

\* One more call than a driver that tells the size should get, a bound.
CountedCalls == 3

\* A faulty one, that forgets the chunk.
ReturnedNothing == 0

\* What the code takes the last chunk to be: for text strlen() of it, for binary data
\* the indicator if that much could be in the buffer. Text is taken to have no null
\* characters.
Returned ==
    IF column.kind # "binary" THEN given
    ELSE IF size + indicator <= capacity THEN indicator
    ELSE capacity - size

\* Faulty ones: a buffer that does not grow while the size is not known, and one
\* without a place for the terminator of a wide value.
CapacityKept ==
    IF indicator = NoTotal THEN capacity
    ELSE size + indicator * (IF column.kind = "char" THEN MaxUtf8Bytes ELSE 1) + Terminator

CapacityUnterminated ==
    IF indicator = NoTotal THEN capacity * 2
    ELSE size + indicator * (IF column.kind = "char" THEN MaxUtf8Bytes ELSE 1)

\* The buffer the rest needs, or twice the present one while that is not known.
NewCapacity ==
    CASE indicator = NoTotal -> capacity * 2
      [] indicator # NoTotal /\ column.kind = "char" -> size + indicator * MaxUtf8Bytes + 1
      [] indicator # NoTotal /\ column.kind # "char" -> size + indicator + Terminator

GrowBuffer ==
    /\ at = "grow"
    /\ at' = "more"
    /\ capacity' = NewCapacity
    /\ content' = [i \in 1..NewCapacity |-> IF i <= capacity THEN content[i] ELSE 0]
    /\ size' = size + Returned
    /\ UNCHANGED <<column, indicator, given, taken, calls>>

\* The next chunk. SQL_NO_DATA is for who asks again after the last byte.
NextChunk ==
    LET space == capacity - size IN
    /\ at = "more"
    /\ calls' = IF calls < CountedCalls THEN calls + 1 ELSE calls
    /\ IF Left = 0
         THEN at' = "noData" /\ UNCHANGED <<content, size, indicator, given, taken>>
         ELSE /\ Receive(size, space, content)
              /\ IF indicator' # NoTotal /\ indicator' <= space - Terminator
                   THEN at' = "done" /\ size' = size + indicator'
                   ELSE at' = "grow" /\ UNCHANGED size
    /\ UNCHANGED <<column, capacity>>

\* SQLGetData fails, or the buffer cannot be allocated.
FailsHere ==
    /\ DriverFails
    /\ \/ at \in {"first", "more"} /\ at' = "error"
       \/ at \in {"first", "grow"} /\ at' = "noMemory"
    /\ UNCHANGED <<column, capacity, content, size, indicator, given, taken, calls>>

ReceiveStep == FirstChunk \/ GrowBuffer \/ NextChunk \/ FailsHere

LongInit ==
    /\ column \in Columns
    /\ at = "first"
    /\ capacity = 0
    /\ content = Untouched(0)
    /\ size = 0
    /\ indicator = 0
    /\ given = 0
    /\ taken = 0
    /\ calls = 0

LongSpec == LongInit /\ [][ReceiveStep]_longVars

-----------------------------------------------------------------------------

\* What the loop is right for: binary data whose size the driver tells, unless it is
\* exactly the size of the first buffer; text; wide text in buffers of an even size.
Handled(c) ==
    \/ c.length = NullData
    \/ c.kind = "binary" /\ c.total /\ c.length # c.initial
    \/ c.kind = "char"
    \/ c.kind = "wide" /\ c.length % 2 = 0 /\ c.initial % 2 = 0

\* When the loop ends, the buffer holds the value: every byte, in its place, and the
\* size is the value's, whatever the buffer was at first and however it was handed over.
ValueWhole ==
    at \in {"done", "noData"} /\ column.length # NullData =>
        /\ size = column.length
        /\ \A i \in 1..size : i \in DOMAIN content /\ content[i] = i

\* "Once a buffer size is returned instead of SQL_NO_TOTAL, we might need to call
\* SQLGetData one more time": a driver that tells the size is asked at most twice.
AskedTwiceAtMost == column.total => calls <= 2

=============================================================================
