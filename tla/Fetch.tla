------------------------------- MODULE Fetch -------------------------------
(***************************************************************************)
(* The rows of a result set on their way to the program: execution, block  *)
(* fetch, storing of rows, and the cursor. One StatementData is followed,  *)
(* through one query or all executions of a prepared statement. The        *)
(* program awaits its calls and closes a cursor before it executes again,  *)
(* so that one worker runs at a time.                                      *)
(***************************************************************************)
EXTENDS LongData, Sequences

CONSTANTS
    Bound,           \* a row without a LONG column
    Results,         \* what an execution may result in
    FetchSizes,      \* that the program asks for when it wants a cursor
    MaxExecutions,   \* of a statement, a bound
    Drivers          \* block: SQLGetData works within a block; simple: there is no
                     \* SQL_ATTR_ROWS_FETCHED_PTR

ASSUME RowsAssumption ==
    /\ Bound \notin Columns
    /\ Columns # {} /\ Results # {}
    /\ \A r \in Results :
          /\ r.hasColumns \in BOOLEAN
          /\ r.rows \in Seq([readable : BOOLEAN, long : Columns \cup {Bound}])
          /\ ~r.hasColumns => r.rows = <<>>
ASSUME OptionsAssumption ==
    /\ FetchSizes \subseteq Nat \ {0}
    /\ MaxExecutions \in Nat \ {0}
    /\ Drivers \subseteq [block : BOOLEAN, simple : BOOLEAN]

VARIABLES
    driver,     \* the one in use
    prepared,   \* the data is a Statement's, not a query's
    result,     \* in the driver: the result set, ...
    position,   \* ... the rows fetched of it, ...
    open,       \* ... and whether its cursor is open
    data,       \* the StatementData
    work,       \* the worker, if one runs: what it was queued for and how far it is
    cursor,     \* the program has a Cursor object
    program     \* what the program has asked for and was told since it last executed

fetchVars == <<driver, prepared, result, position, open, data, work, cursor, program>>
allVars == <<longVars, fetchVars>>

\* A row that was stored: its number, and whether all its columns were.
StoredRow == [row : Nat, whole : BOOLEAN]

DataType == [hasColumns : BOOLEAN, useCursor : BOOLEAN, fetchSize : Nat,
             fetched : Nat, end : BOOLEAN, stored : Seq(StoredRow)]
WorkType == [call : {"none", "execute", "fetch", "close"},
             phase : {"idle", "fetch", "rows", "column", "closing", "answer"},
             index : Nat, failed : BOOLEAN]
ProgramType == [executions : 0..MaxExecutions, fetches : BOOLEAN, erred : BOOLEAN,
                delivered : Seq(StoredRow)]

\* Type correctness.
TypeOK ==
    /\ LongTypeOK
    /\ driver \in Drivers
    /\ prepared \in BOOLEAN
    /\ result \in Results
    /\ position \in 0..Len(result.rows)
    /\ open \in BOOLEAN
    /\ data \in DataType
    /\ work \in WorkType
    /\ cursor \in BOOLEAN
    /\ program \in ProgramType

NoWork == [call |-> "none", phase |-> "idle", index |-> 0, failed |-> FALSE]

Init ==
    /\ column \in {CHOOSE c \in Columns : TRUE}
    /\ at = "idle"
    /\ capacity = 0
    /\ content = Untouched(0)
    /\ size = 0
    /\ indicator = 0
    /\ given = 0
    /\ taken = 0
    /\ calls = 0
    /\ driver \in Drivers
    /\ prepared \in BOOLEAN
    /\ result \in {CHOOSE r \in Results : TRUE}
    /\ position = 0
    /\ open = FALSE
    /\ data = [hasColumns |-> FALSE, useCursor |-> FALSE, fetchSize |-> 1, fetched |-> 0,
               end |-> FALSE, stored |-> <<>>]
    /\ work = NoWork
    /\ cursor = FALSE
    /\ program = [executions |-> 0, fetches |-> FALSE, erred |-> FALSE, delivered |-> <<>>]

-----------------------------------------------------------------------------
(* Terms used by the actions.                                              *)

Idle == work.phase = "idle"
MayFail == IF DriverFails THEN BOOLEAN ELSE {FALSE}
Goes(phase) == work' = [work EXCEPT !.phase = phase]
Fails == work' = [work EXCEPT !.phase = "answer", !.failed = TRUE]

\* The rows of the block, and the row the loop is at. A faulty one takes the block
\* for full.
Remaining == Len(result.rows) - position
BlockSizeFull == data.fetchSize
BlockSize == IF Remaining < data.fetchSize THEN Remaining ELSE data.fetchSize
Row == position - data.fetched + work.index
Readable == {n \in 1..Len(result.rows) : result.rows[n].readable}

\* A LONG column is not bound if rows are fetched one by one or SQLGetData works
\* within a block.
Unbound(n) == result.rows[n].long # Bound /\ (data.fetchSize = 1 \/ driver.block)

Stored(whole) == Append(data.stored, [row |-> Row, whole |-> whole])

\* fetch_and_store returned success, or SQL_NO_DATA: without a cursor it is called
\* again, or is done and the driver's cursor is to be closed unless memory ran out.
AfterSuccessDone == IF data.useCursor THEN "answer" ELSE "closing"   \* a faulty one
AfterSuccess == IF data.useCursor THEN "answer" ELSE "fetch"
AfterNoData == IF data.useCursor \/ work.failed THEN "answer" ELSE "closing"

-----------------------------------------------------------------------------
(* The program's calls, and what their workers do before they fetch rows.  *)

\* What is noted of the options before the execution, and of the result after it. Rows
\* that are not counted are fetched one by one.
set_fetch_size(useCursor, fetchSize) ==
    [data EXCEPT !.useCursor = useCursor, !.fetchSize = fetchSize]
prepare_for_fetch(d, r) ==
    [d EXCEPT !.hasColumns = r.hasColumns, !.fetched = IF driver.simple THEN 1 ELSE 0]

\* query() or Statement.execute(). Without a cursor the fetch size is 1. The driver
\* refuses to execute while the last result set is open. Of the data, the end that was
\* reached and the stored rows stay.
Execute(r, useCursor, fetchSize) ==
    LET noted == set_fetch_size(useCursor, fetchSize) IN
    /\ Idle
    /\ ~cursor
    /\ program.executions < IF prepared THEN MaxExecutions ELSE 1
    /\ useCursor \/ fetchSize = 1
    /\ program' = [executions |-> program.executions + 1, fetches |-> FALSE,
                   erred |-> FALSE, delivered |-> <<>>]
    /\ \/ /\ open \/ DriverFails
          /\ data' = noted
          /\ work' = [NoWork EXCEPT !.call = "execute", !.phase = "answer", !.failed = TRUE]
          /\ UNCHANGED <<result, position, open>>
       \/ /\ ~open
          /\ result' = r
          /\ position' = 0
          /\ open' = r.hasColumns
          /\ data' = prepare_for_fetch(noted, r)
          /\ \E failed \in IF driver.simple /\ fetchSize # 1 THEN {TRUE} ELSE MayFail :
                work' = [call |-> "execute", index |-> 0, failed |-> failed,
                         phase |-> IF useCursor \/ failed THEN "answer" ELSE "fetch"]
    /\ UNCHANGED <<driver, prepared, cursor, longVars>>

\* Cursor.fetch().
CursorFetch ==
    /\ Idle
    /\ cursor
    /\ work' = [NoWork EXCEPT !.call = "fetch", !.phase = "fetch"]
    /\ program' = [program EXCEPT !.fetches = TRUE]
    /\ UNCHANGED <<driver, prepared, result, position, open, data, cursor, longVars>>

\* Cursor.close(): SQLCloseCursor, which fails if no result set is open, and then
\* deleteColumns().
CursorClose ==
    /\ Idle
    /\ cursor
    /\ \E failed \in IF open THEN MayFail ELSE {TRUE} :
          /\ work' = [call |-> "close", phase |-> "answer", index |-> 0, failed |-> failed]
          /\ open' = (open /\ failed)
          /\ data' = IF failed THEN data
                     ELSE [data EXCEPT !.hasColumns = FALSE, !.stored = <<>>]
    /\ UNCHANGED <<driver, prepared, result, position, cursor, program, longVars>>

-----------------------------------------------------------------------------
(* fetch_and_store.                                                        *)

\* A faulty one, that does not note the end.
FetchBlockForgets ==
    /\ work.phase = "fetch"
    /\ IF ~data.hasColumns \/ Remaining = 0
         THEN Goes(AfterNoData) /\ UNCHANGED <<data, position>>
         ELSE /\ position' = position + BlockSize
              /\ data' = [data EXCEPT !.fetched = BlockSize]
              /\ work' = [work EXCEPT !.phase = "rows", !.index = 1]
    /\ UNCHANGED <<driver, prepared, result, open, cursor, program, longVars>>

\* SQLFetch. A block of which no row can be read is an error.
FetchBlock ==
    /\ work.phase = "fetch"
    /\ IF ~data.hasColumns \/ Remaining = 0
         THEN /\ data' = [data EXCEPT !.end = TRUE]
              /\ Goes(AfterNoData)
              /\ UNCHANGED position
         ELSE /\ position' = position + BlockSize
              /\ IF (position + 1)..(position + BlockSize) \cap Readable = {}
                   THEN Fails /\ UNCHANGED data
                   ELSE /\ data' = [data EXCEPT !.fetched = IF driver.simple THEN @ ELSE BlockSize]
                        /\ work' = [work EXCEPT !.phase = "rows", !.index = 1]
    /\ UNCHANGED <<driver, prepared, result, open, cursor, program, longVars>>

\* Any of the driver's functions may return an error instead: SQLFetch, or SQLSetPos.
FetchFails ==
    /\ DriverFails
    /\ \/ work.phase = "fetch" /\ data.hasColumns
       \/ work.phase = "rows" /\ work.index <= data.fetched
          /\ driver.block /\ data.fetchSize > 1
    /\ Fails
    /\ UNCHANGED <<driver, prepared, result, position, open, data, cursor, program, longVars>>

\* The next row of the block. One that could not be read is passed over.
StoreRow ==
    /\ work.phase = "rows"
    /\ work.index <= data.fetched
    /\ IF result.rows[Row].readable /\ Unbound(Row)
         THEN StartColumn(result.rows[Row].long, "first") /\ Goes("column") /\ UNCHANGED data
         ELSE /\ work' = [work EXCEPT !.index = @ + 1]
              /\ data' = IF result.rows[Row].readable THEN [data EXCEPT !.stored = Stored(TRUE)]
                                                      ELSE data
              /\ UNCHANGED longVars
    /\ UNCHANGED <<driver, prepared, result, position, open, cursor, program>>

\* The value of a LONG column was received, and its row can be stored. SQL_NO_DATA
\* stores the row as it is and is returned as if it were the end of the rows. Without
\* memory the rest of the block is dropped, but what is returned is still success:
\* without a cursor, the other blocks are fetched before the error is told.
ColumnEnds ==
    /\ work.phase = "column"
    /\ at \in {"done", "noData", "error", "noMemory"}
    /\ data' = IF at \in {"done", "noData"} THEN [data EXCEPT !.stored = Stored(at = "done")]
                                          ELSE data
    /\ CASE at = "done" -> work' = [work EXCEPT !.phase = "rows", !.index = @ + 1]
         [] at = "noData" -> Goes(AfterNoData)
         [] at = "error" -> Fails
         [] at = "noMemory" -> work' = [work EXCEPT !.phase = AfterSuccess, !.failed = TRUE]
    /\ StartColumn(column, "idle")
    /\ UNCHANGED <<driver, prepared, result, position, open, cursor, program>>

\* A block is stored. A faulty one takes a full block for the last.
BlockEndsEarly ==
    /\ work.phase = "rows"
    /\ work.index > data.fetched
    /\ data' = [data EXCEPT !.end = data.end \/ data.fetched <= data.fetchSize]
    /\ Goes(AfterSuccess)
    /\ UNCHANGED <<driver, prepared, result, position, open, cursor, program, longVars>>

\* The last row status says whether the block was full, if the driver has any.
BlockEnds ==
    /\ work.phase = "rows"
    /\ work.index > data.fetched
    /\ data' = [data EXCEPT !.end = data.end \/ driver.simple \/ data.fetched < data.fetchSize]
    /\ Goes(AfterSuccess)
    /\ UNCHANGED <<driver, prepared, result, position, open, cursor, program, longVars>>

\* fetch_all_and_store closes the driver's cursor after the last row.
CloseAfterRows ==
    /\ work.phase = "closing"
    /\ \E failed \in IF data.hasColumns THEN MayFail ELSE {FALSE} :
          /\ work' = [work EXCEPT !.phase = "answer", !.failed = failed]
          /\ open' = (open /\ failed)
    /\ UNCHANGED <<driver, prepared, result, position, data, cursor, program, longVars>>

\* A faulty one, that keeps the stored rows.
AnswerKeepingRows ==
    /\ work.phase = "answer"
    /\ work' = NoWork
    /\ IF work.failed
         THEN program' = [program EXCEPT !.erred = TRUE] /\ UNCHANGED cursor
         ELSE /\ cursor' = (work.call # "close" /\ data.useCursor)
              /\ program' = IF work.call = "fetch" \/ (work.call = "execute" /\ ~data.useCursor)
                              THEN [program EXCEPT !.delivered = @ \o data.stored]
                              ELSE program
    /\ UNCHANGED <<driver, prepared, result, position, open, data, longVars>>

\* OnError or OnOK: process_data_for_napi hands the stored rows to the program and
\* forgets them.
Answer ==
    /\ work.phase = "answer"
    /\ work' = NoWork
    /\ IF work.failed
         THEN program' = [program EXCEPT !.erred = TRUE] /\ UNCHANGED <<data, cursor>>
         ELSE /\ cursor' = (work.call # "close" /\ data.useCursor)
              /\ IF work.call = "fetch" \/ (work.call = "execute" /\ ~data.useCursor)
                   THEN /\ program' = [program EXCEPT !.delivered = @ \o data.stored]
                        /\ data' = [data EXCEPT !.stored = <<>>]
                   ELSE UNCHANGED <<data, program>>
    /\ UNCHANGED <<driver, prepared, result, position, open, longVars>>

ReceiveColumn == ReceiveStep /\ work.phase = "column" /\ UNCHANGED fetchVars

Worker ==
    \/ FetchBlock
    \/ FetchFails
    \/ StoreRow
    \/ ReceiveColumn
    \/ ColumnEnds
    \/ BlockEnds
    \/ CloseAfterRows
    \/ Answer

Next ==
    \/ \E r \in Results, useCursor \in BOOLEAN, n \in FetchSizes \cup {1} : Execute(r, useCursor, n)
    \/ CursorFetch
    \/ CursorClose
    \/ Worker

Spec == Init /\ [][Next]_allVars

\* Workers run, and the program fetches as long as noData is false.
Fairness ==
    /\ WF_allVars(Worker)
    /\ WF_allVars(CursorFetch /\ ~data.end)

FairSpec == Spec /\ Fairness

-----------------------------------------------------------------------------

Got == program.delivered \o data.stored

\* Whatever fails, the program never gets a row twice, out of order or in part, nor one
\* of an earlier result set.
RowsInOrder ==
    /\ \A i, k \in 1..Len(Got) : i < k => Got[i].row < Got[k].row
    /\ \A i \in 1..Len(Got) : Got[i].row <= position /\ Got[i].whole

\* A query or an execution without a cursor that is answered without an error is
\* answered with all rows.
AllRowsOrError ==
    Idle /\ program.executions > 0 /\ ~data.useCursor /\ ~program.erred =>
        /\ Len(program.delivered) = Len(result.rows)
        /\ \A i \in 1..Len(result.rows) : program.delivered[i] = [row |-> i, whole |-> TRUE]

\* noData is true only after the last row was delivered: of a cursor of a first
\* execution, on a driver that counts rows, as long as no fetch failed.
NoDataTells ==
    Idle /\ cursor /\ data.end /\ ~program.erred /\ program.executions = 1 /\ ~driver.simple =>
        /\ program.fetches
        /\ {program.delivered[i].row : i \in 1..Len(program.delivered)} = Readable

\* Every call is answered: the loops over blocks, rows and chunks end.
CallsEnd == ~Idle ~> Idle

\* A program that fetches while noData is false comes to an end, or to an error.
CursorRunsDry == cursor ~> ~cursor \/ data.end \/ program.erred

=============================================================================
