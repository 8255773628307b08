# node-odbc in TLA+

A verification project for node-odbc: connection pools in JavaScript over a native
addon that runs ODBC calls on libuv's thread pool. Modules are translated from the
source in `lib/` and `src/`; line numbers below are of those files.

## 1. Inventory

| part | state it keeps | operations | interacts with |
|---|---|---|---|
| Connection queue (`lib/Pool.js` 22-61) | queuedConnections, activelyConnectingCount, maxActivelyConnecting; one for the whole process | enqueue, dequeue and its continuation | every pool enqueues; each entry runs a native connect |
| Pool (`lib/Pool.js` 63-468, `lib/odbc.js` 33-50) | isOpen, waitingConnectionWork, freeConnections, connectionsBeingCreatedCount, poolSize | constructor, init, connect, query, close, the replaced close() of its connections, 'connected' and 'connectionError' | queue, native connect and close, callers |
| JavaScript wrappers (`lib/Connection.js`, `Statement.js`, `Cursor.js`) | a reference to the native object, null once closed | one method per native operation, in promise and callback form | native objects |
| Native connection (`src/odbc.cpp` 355-690, `src/odbc_connection.cpp` 60-300) | hENV, hDBC, connection options, results of SQLGetInfo | connect worker, close worker, Free, isolation level, autocommit | the process-wide g_odbcMutex, statements |
| Query and fetch (`odbc_connection.cpp` 441-1152, 3117-3990) | StatementData: handle, bound buffers, stored rows | query worker, option parsing, bind_buffers, fetch_and_store | value conversion, cursors |
| Long data (`odbc_connection.cpp` 3581-3805) | a growing buffer per column | the SQLGetData loop | driver |
| Procedures, parameters (`odbc_connection.cpp` 1230-1930, `odbc.cpp` 695-821) | parameter buffers | callProcedure, BindParameters, StoreBindValues | query and fetch |
| Catalog functions (`odbc_connection.cpp` 2084-2882) | none of their own | tables, columns, primaryKeys, foreignKeys | query and fetch |
| Transactions (`odbc_connection.cpp` 2889-3115) | the driver's autocommit attribute | begin, commit, rollback | connection, and the pool's reuse of it |
| Statement (`src/odbc_statement.cpp`) | hSTMT, parameters, bound values | prepare, bind, execute, close | connection |
| Cursor (`src/odbc_cursor.cpp`) | StatementData, fetch result, free-on-close flag | fetch, close, noData | query or statement that made it |
| Diagnostics, value conversion, dynamic loading | none | | |

What is hard here is the order of things. All JavaScript runs on one thread, but every
operation is cut into turns of the event loop by a native call in between, several
callers and pools are under way at once, and a native call may end well, badly or long
after what asked for it is gone. Each part is correct if:

- **queue**: at most the allowed number of attempts hold a slot, no slot is lost, no
  attempt is stranded;
- **pool**: a connection is with one caller at a time, nobody waits beside a free
  connection, callers are served first come first served, every request is answered,
  the pool stays within maxSize, its counters are what they are named for, a closed
  pool closes what it owns;
- **native connection and workers**: the mutex is always given back, one callback per
  call, no handle is used after it was freed or freed twice, none leaks;
- **transactions**: what a user is told of its work is true, a unit of work is settled as
  a whole, and a connection goes to its next user as a new one would;
- **parameters**: the driver reads what was bound last, and output comes back as it was
  given;
- **statements, cursors, fetch**: rows come once and in order, `noData` and `end`
  tell the truth, a handle is released once;
- **long data**: the bytes received are the bytes of the column.

`PROJECT.json` lists under "hazards" where each of these could go wrong.

## 2. What is modelled

### ConnectionQueue (lib/Pool.js 20-61)

Variables as in the code, and two that name where an attempt that holds a slot is:
`connecting` (its native connect runs) and `settling` (its promise is settled, the
continuation of `dequeue()` after the `await` has not run). An entry of the queue is
the pool that asked; the generator and the configuration it carries follow from it.
`Enqueue(p, n)` is n calls of `enqueue`, each a push and one `dequeue()`.
`AttemptEnds(p)` settles a promise, `SlotFreed` is the continuation: give the slot back,
call `dequeue()` again. The limit may be 0: the constructor of a pool takes whatever its
configuration says (187), and then no `dequeue()` finds a slot until another pool's
constructor sets the limit. QueueNeverStalls is false for such a configuration, which the
pool's `LimitsPositive` excludes; the runs are within it.

### Pool (lib/Pool.js 63-468, lib/odbc.js 33-50)

An action is what runs between two returns to the event loop.

| action | code |
|---|---|
| StartPool | constructor, and init() up to its connect() (187, 358-370) |
| InitReturns, InitCloses | the rest of init(), promise and callback form (368-370, 380-381) |
| ConnectSucceeds, ConnectFails, ConnectFailsUnderQuery | the callback of the native connect with the 'connected' and 'connectionError' handlers (392-456, 78-131) |
| PoolConnect, PoolQuery, PoolQueryEnds | connect(), query() and the callback of its query (200-325) |
| CloseConnection | close() of a pooled connection (422-452) |
| NativeCloseEnds | the callbacks of nativeClose (336-339, 439-446, 450) |
| ClosePool | close() (328-356) |
| QueueContinues | the queue's continuation (57-58) |

`GiveUp`, `Connect`, `Connected`, `IncreasePoolSize` are the functions these share.
`pc` says what a user is doing; while `odbc.pool()` is pending the pool itself is a
user, for its init() waits in its own line. Whether an entry of the waiting work is a
callback or a promise does not matter to the pool, except that pool.query() always
passes a callback that cannot stand an error: "waitingQuery" tells it apart.
`crashed` stands for an exception out of a native callback, after which nothing happens.
A configuration without the key maxActivelyConnecting has `Unset` there, which is
different from a limit of 0.

Abstracted: argument parsing; the microtask between increasePoolSize and connect in
init() (nobody has the pool yet); which connection string is used. A connection's name
returns to "none" and may be used again once its native close succeeded.

### Lending

What users may rely on, without the queue, the counters and the native connections:
one line per pool served from its front, a connection with one user at a time, a
refusal only at the front. `Pool!KeepsPromise` maps `line` to waitingConnectionWork and
`lent` to held.

### Handles (src/odbc.cpp 201-265 and 355-636, src/odbc_connection.cpp, src/odbc_statement.cpp, src/odbc_cursor.cpp)

The native objects, their workers and who frees which ODBC handle. A worker runs on a
thread of libuv, several at once, and takes `g_odbcMutex` for some of its driver calls;
an action is a stretch that ends where the mutex is taken or given back, or where
another thread could see a difference. Calls and completions run on the JavaScript
thread, one at a time (`js`), which itself waits for the mutex in the destructor of a
query's worker.

| action | code |
|---|---|
| CallConnect, CallCloseConnection, CallCreate, CallStatement, CallCursor, ReadNoData | the wrappers in `lib/` and the native methods up to `worker->Queue()`; a wrapper whose reference is null refuses |
| ConnectBegins, ConnectEnds | ConnectAsyncWorker: lock, timeouts, SQLDriverConnect, unlock (odbc.cpp 381-547) |
| CloseConnection | CloseAsyncWorker: rollback, disconnect, free (odbc_connection.cpp 255-298) |
| CreateStatement, QueryBegins, CatalogBegins | allocation of a statement handle under the mutex (356-374, 723-744, 2700-2717) |
| QueryRuns, ProcedureRuns, CatalogRuns, PrepareRuns, BindRuns, ExecuteRuns, FetchRuns | the rest of those workers, without the mutex |
| CloseCursor, FreeBegins, FreeHandle, FreeData | the close of a cursor and of a statement, with the three parts of Free() (odbc_cursor.cpp 51-79, odbc_statement.cpp 61-84) |
| Answer | OnOK, OnError and the wrapper's callback |
| WorkerDeleted | the worker's destructor, with ~QueryAsyncWorker (odbc_connection.cpp 994-1013) |

`stmt[h]` keeps apart what the code and the driver believe: `hstmt` is the field of
StatementData, `driver` what became of the handle, which SQLDisconnect frees with the
connection and without telling anybody. `misuse` remembers each use after a free.

`Orderly` describes a program that awaits each call on a statement or cursor before the
next one on it (`Busy`); that leaves a cursor alone once its statement is closed, which it
may close, prepare or bind while the cursor is open (`MayUseCursor`; README.md 975 says
that closing the statement closes the cursor); and that closes a connection when the
statements made from it and the cursors of its queries are closed (`MayClose`). Queries,
catalog functions and procedures may be under way when it is closed, since the program has
no object for them. Without `Orderly`, calls come in any order the wrappers accept.

Abstracted: options, parameters, results and diagnostics; the calls inside one stretch,
which fail as one ("run"); the number of threads; destructors run by the garbage
collector; isolation level and transactions. After a failed SQLAllocHandle a handle is
taken to be null. A statement has one cursor at a time (a bound), and names of
connections and handles are used once, so a run ends when they are used up.

### LongData (src/odbc_connection.cpp 3578-3813)

How fetch_and_store receives one LONG column. The value is its kind (binary, text, wide
text), its length, whether the driver tells the length (or SQL_NO_TOTAL) and the query's
initialBufferSize. `content` is the buffer, byte by byte: a byte holds the number of the
byte of the value that was written to it, so an offset that is wrong by one shows.

| action | code |
|---|---|
| FirstChunk | malloc, the first SQLGetData, and the decision to ask for more (3590-3643, 3809-3812) |
| GrowBuffer | what was returned, the new size, realloc (3648-3745), per type |
| NextChunk | the next SQLGetData and the decision to stop (3747-3804) |
| FailsHere | SQLGetData fails, or malloc or realloc does |

The driver's side (`Room`, `Chunk`, `Told`, `Receive`) is SQLGetData as ODBC documents
it and as the comments of the loop expect it: text is terminated inside the space it is
given, the indicator is what was left before the call, wide characters are not split,
and who asks again after the last byte gets SQL_NO_DATA. strlen() of a chunk is its
length: text without null characters.

`Handled` names the values the loop is right for; the instances of FetchWhole and the
assumption of the theorems are within it. Outside are: binary data of exactly the size of
the first buffer (the run FetchExactFit); binary data of unknown size, where the code
takes the indicator SQL_NO_TOTAL, which is negative, for an amount (3657-3660); and
wide text in a first buffer of an odd size.

### Fetch (src/odbc_connection.cpp 562-712 and 3117-3990, src/odbc_statement.cpp 315-445, src/odbc_cursor.cpp)

Extends LongData: one StatementData, of a query or of a prepared statement that is
executed several times, with its worker, its Cursor object and what the program was
given. `data` has the fields of StatementData that decide: column_count (is there a
result set), fetch_size, rows_fetched, result_set_end_reached, storedRows. A stored row
is its number in the result set and whether all its columns were stored.

| action | code |
|---|---|
| Execute | set_fetch_size, SQLExecDirect or SQLExecute, prepare_for_fetch with bind_buffers |
| CursorFetch, CursorClose | the two calls of a Cursor; close is SQLCloseCursor and deleteColumns() |
| FetchBlock, FetchFails | SQLFetch, SQLSetPos and their errors (3526-3556) |
| StoreRow, ReceiveColumn, ColumnEnds | one row of the block, with LongData's actions for a LONG column that is not bound |
| BlockEnds | the end is noted from the last row status (3936-3951) |
| CloseAfterRows | the end of fetch_all_and_store |
| Answer | OnOK with process_data_for_napi, or OnError |

Assumed of the driver: it refuses to execute while the last result set is open, and a
block of which no row can be read is an error, not a success. Assumed of the program: it
awaits its calls and closes a cursor before it executes again (module Handles has the
calls that overlap). Abstracted: the columns other than one LONG column per row, whose
binding is one assignment each, parameters, cursor names, timeouts, an execution that
returns SQL_NO_DATA (nothing is fetched) and a driver that substitutes the fetch size.
Procedures and catalog functions call the same fetch_all_and_store.

### Transactions (lib/Pool.js 422-456, lib/Connection.js 407-518, src/odbc_connection.cpp 80-300 and 2885-3115)

Extends Lending: who has a connection, who waits for one and in which order is as Lending
promises, which module Pool is shown to implement; here is what the connection is in.
`session[c]` is the native connection (its autocommit and isolation level, the pool that
opened it), `call[j]` a call with its worker, `work[w]` a statement that changes the
database: what became of it (`at`), and what its user may rely on (`due`). `tx[u]` is what
the user was told of its transaction. `due` and `tx` are not state of the code: `Told`,
`Promised`, `Believes` and `Learns` write down what a caller may conclude from the
answers, for the properties.

| action | code |
|---|---|
| Asks, GetsAtOnce, GetsInTurn, IsRefused | pool.connect(), a connection for who waits (Pool.js 200-258, 402-456) |
| GivesBack | close() of a connection of a pool with reuseConnections (422-452): nothing is rolled back or reset |
| Closes, CloseRollsBack, Disconnects | any other close(), and its worker: SQLEndTran(SQL_ROLLBACK), SQLDisconnect (255-298) |
| CallTransaction, Begins | beginTransaction(), autocommit off (2885-2960) |
| Commits, RollsBack, ReturnsToAutocommit | EndTransactionAsyncWorker: SQLEndTran, then autocommit on, in two steps (2984-3015) |
| CallSetLevel, SetsLevel | setIsolationLevel() and its worker (92-107), for a level that the driver supports |
| CallQuery, Executes | a statement, at its SQLExecute or SQLExecDirect |
| Answer | OnOK or OnError and the callback |

Connecting takes no time: Pool has the queue and its failures. Of the program: it awaits
begin, commit, rollback and setIsolationLevel before it calls another of them and before it
closes the connection; statements may overlap with anything, the close and what it does
in two steps included. One that comes to run after SQLFreeHandle finds hDBC null and fails
(its `on` is then NoConn); one whose handle is freed while it runs is in Handles
("queryAfterFree"). `Tidy` users do more before they give a connection back to a pool that
keeps it: they await their statements, end their transaction and reset the isolation level,
as far as they know. `isolation[u]` is what a user knows of its level: the level that was
confirmed last, or "unsure" from a call of setIsolationLevel until an answer without error.
Of the driver: work outside a transaction is kept at once, turning
autocommit on commits what is open, and while work is open it refuses another isolation
level and to disconnect (`OpenOn`, `Settle` and `NoSession` are its side). Names of work
are used once.

### WorkUnits

What transactions promise, without connections, workers or pools: work is settled at once
or belongs to a unit of one user, and a unit is kept or dropped as a whole, for good.
`Transactions!SettledAsUnits` maps a unit to what is open on a connection.

### Parameters (src/odbc.cpp 695-821, src/odbc_connection.cpp 1230-1930, src/odbc_statement.cpp 90-300)

The array of `Parameter` of a statement, a query or a procedure. SQLBindParameter is given
addresses: of the value's buffer, and of a field of Parameter for length or null.
StoreBindValues makes a new buffer, which the driver does not see until it is bound again,
and sets that field at once, which the driver reads when it executes; so `bindings[i]`
keeps type and content of when it was bound, and the place of the indicator. After a
prepare has replaced the array, it keeps the indicator it had (`Detached`). A value is its
kind and its length, which stands for its content too. `relied` is the array the program
was told is bound.

| action | code |
|---|---|
| CallPrepare, PrepareRuns | prepare(): SQLPrepare, SQLNumParams, a new array |
| CallBind, BindRuns | bind(): `napiParameters`, StoreBindValues on the JavaScript thread; BindParameters on the other, position by position |
| CallExecute, ExecuteRuns | execute() and what the driver then reads |
| CallOnce, OnceRuns | query() with parameters and callProcedure(), whose worker turns parameters for output into what SQLProcedureColumns says (`ForProcedure`, 1400-1740) |
| Fails, Answer | an error of the driver; OnOK with ParametersToArray, or OnError |

The driver's side is `Read`, `Native` (what it ought to read for a value) and `Written`.
Taken of it: it refuses to execute while markers are not bound. The program awaits its
calls (Handles has those that overlap) and may execute whenever it has prepared, also after
a bind that failed or a new prepare; `relied` is then empty, and nothing is claimed of what
is sent. Whether the procedure exists, its result sets and
the columns are Fetch's. `Handled` and `HandledHere` name the values for which the code is
right, and a `Careful` program binds and passes no others (undefined for an output
parameter is one of them, README.md 303); what is outside is in section 3.

## 3. Runs

The pool runs are of `MCPool`: two clients, three names for connections, pool p1 reusing
connections (initialSize 1, incrementSize 1, maxSize 2) and in the first two runs p2
not reusing (1, 1, 1) and setting maxActivelyConnecting to 2. Two clients and init()
make a line of three on one pool, longer than the two connections it may have; the
queue is shared, so attempts of one pool wait behind those of the other; three names
allow one connection to be closing while both others are out. `CounterBound` stops a
pool that does not reuse connections from asking for ever more replacements.

| run | shows |
|---|---|
| PoolMixed | safety with connects and closes that fail, both API styles and pools that are closed: TypeOK, QueueNeverStalls, SlotsAccounted, NoIdleConnection, OneBorrower, SizeBound, KeepsPromise |
| PoolServes | with native calls that succeed and the promise API: NoConnectionLost, CountsExact, EveryRequestAnswered, QueueDrains; deadlock is checked |
| PoolAfterFailure | **violated**: after a failed connect, a later request is never answered (Pool.js 414: the count of connections being created is not taken back) |
| PoolCloseThenReturn | **violated**: a connection that comes back after close() joins the closed pool (424), README.md 824 says it is discarded |

`CHECK_DEADLOCK FALSE` stands where the system may stop: after an uncaught exception,
which a failed connect under pool.query() is (295-299, 313-315; `crashed`).
NoConnectionLost needs the promise API: with callbacks, close() drops the free connections
without closing them (350 iterates over the array emptied in 330), although README.md 824
says that it closes them. PoolCloseThenReturn with `Styles = {"callback"}` and that invariant
shows it in four steps. In PoolAfterFailure the growth condition believes that a connection
is coming: nothing is asked for when the next request comes, which waits for ever.
PoolMixed uses symmetry in clients and connections; its properties are safety only.

**Fairness** (PoolServes, PoolAfterFailure): weak fairness of each continuation, because
the event loop runs what is ready and libuv ends what it was given; of a pool's start,
because odbc.pool() was called; and of a client that holds a connection, because a pool
can promise nothing to the rest while somebody keeps its connections. Strong fairness of
a connect's end stands for the same guarantee of libuv: in the model it can be disabled
for a while for want of a name for the connection. Nothing forces clients to ask, pools
to be closed, or connects to fail.

The runs of `MCHandles` have two connections, one statement handle and two calls under
way at once: enough for a connect, or the close of the connection, or a second call on
the same handle, to run beside whatever is done with the handle. A second handle would
share nothing with the first but the mutex and its connection.

| run | shows |
|---|---|
| HandlesOrderly | every operation of an orderly program, with failures of "connect", "close", "alloc" and "run": TypeOK, FreedOnce, NothingUsedAfterFree, HandlesOwned, DriverToItself, EveryCallEnds |
| HandlesConnectFails | **violated**: a connect that fails before SQLDriverConnect returns with the mutex (odbc.cpp 392-444); the next call never ends |

HandlesOrderly is about orderly programs because the code is not right for others, and so it
says nothing of three hazards. With `Orderly = FALSE` each of them is a behaviour of the
module that violates the same invariants, without any failure:

- connect, createStatement, close the connection, close the statement: FreedOnce fails, the
  handle is freed a second time (odbc_statement.cpp 73), which the query's worker takes
  care not to do (odbc_connection.cpp 998);
- connect, createStatement, execute with a cursor, close the statement, and then noData,
  fetch or close of the cursor: NothingUsedAfterFree fails, the cursor works on the data
  that Free() deleted (odbc_statement.cpp 83); README.md 975 says that it is closed too;
- a call on a statement that is made before its close() was answered: NothingUsedAfterFree
  fails; no document says whether a program may do so.

HandlesOrderly leaves out three failures the code does not survive: "setup", which is the
run HandlesConnectFails; "freeConnection" (SQLFreeHandle after a successful
SQLDisconnect leaves hDBC set, and every later free goes to a freed statement); and
"freeStatement" (the diagnostics are then read through deleted data). Two cases are
outside the properties: a connection closed while a query *runs* uses a freed handle
("queryAfterFree"), for nothing in the code or its documentation guards that; and
catalog functions, procedures and failed cursor queries never free their handle before
the connection is closed, so HandlesOwned speaks of plain queries and statements.

Fairness: strong for a call's steps on its thread, its completion and its destructor,
since libuv gives a queued worker a thread and runs each completion, and a mutex with
waiters is given to one that has waited; strong because the mutex or the JavaScript
thread may be taken again between two chances. A driver call is taken to return.
`CHECK_DEADLOCK FALSE`: a run stops when the names are used up.

The runs of `MCFetch` have result sets of one row with any of 37 values (no, one, two
and three buffers long, with known and unknown length) and of up to three rows of three
kinds: without a LONG column, with one, unreadable. Fetch sizes 1 and 2 make blocks that
are full, partly full, and followed by an empty one; two executions let the second meet
what the first left behind.

| run | shows |
|---|---|
| FetchWhole | with drivers that fail anywhere, with all extensions or the fewest: TypeOK, ValueWhole, AskedTwiceAtMost, RowsInOrder, AllRowsOrError, NoDataTells, CallsEnd, CursorRunsDry |
| FetchExactFit | **violated**: a binary value of exactly initialBufferSize bytes ends the result set without an error (3641, 3761) |

NoDataTells says that noData is true only after a fetch and after the last row. It leaves
out second executions of a statement, which start with noData already true (3947 is never
undone; README.md 1150 says that cannot be), and drivers that do not count rows, for which
the code notes the end after the first row (3945). RowsInOrder holds
after failures only because the driver refuses to execute a statement whose result set
is open: rows stored by a failed execution are never removed.

Fairness: a worker's next step is taken, for its thread runs it; the program fetches as
long as noData is false, the loop of README.md 1167. CallsEnd needs only the first.
`CHECK_DEADLOCK FALSE`: a run stops when the executions are used up.

The runs of `MCTransactions` have two users and one connection, which pools p1 (reusing)
and p2 (not) both want, so it goes back and forth and is closed and opened in between;
and two calls at once, so that a statement runs beside the begin, commit, rollback or close
of its own user. TransactionsSettle has two statements, so that one can be settled or open
while the other is under way (740,763 states; TransactionsReuse has three); with a third, and failures of "end",
"autocommit", "level" and "disconnect" only, TLC found no error either (4,295,363 states, 5
minutes). Every driver call may fail. A second connection with two statements was explored
to depth 24 while the model was written and showed nothing new: connections share only
the line. Safety only, so users, connections, statements and calls are symmetric.

| run | shows |
|---|---|
| TransactionsSettle | users that are Tidy: TypeOK, AsTold, LeftClean, OwnWorkOnly, SettledAsUnits |
| TransactionsReuse | **violated**: users that are not: work that was open when its connection was closed is committed by the next user (423: the connection goes back as it is), README.md 510 says it will be rolled back |

A native close may find statements queued or running: work that runs between its rollback
and SQLDisconnect is kept at once if the session is in autocommit, and makes the driver
refuse to disconnect if it is not; a statement of a transaction that is given up by close()
(`GivesUp`) may be undone, fail or stay open, but is not kept. AsTold and SettledAsUnits
include these.

AsTold holds with all failures because little is promised after one: when commit() or
rollback() answers with an error, the work may be settled as asked with only autocommit
left off, so the user is "unsure" and stays so, and a Tidy one can then not give its
connection back to a reusing pool before another end of the transaction succeeded.

The runs of `MCParameters` have at most two parameters. One is enough for every kind of
value with every direction and SQL type; two for a bind that fails in between and a
binding that outlives a shorter prepare. The values that lie side by side differ in type,
length and indicator: three pairs of a number, a text and null (605,965 states); with all
nine pairs of them TLC found no error either (2,308,562 states). ParametersNull has one
marker and no failures.

| run | shows |
|---|---|
| ParametersSent | Careful programs, drivers that fail anywhere: TypeOK, SentAsBound, ResultParametersTrue |
| ParametersNull | **violated**: bind([null]), then bind([1]) sends NULL, since numbers and booleans do not reset the indicator (odbc.cpp 706-740), README.md 869 and 920 say the values are bound |

In ParametersSent a statement is executed after a bind that failed half-way and after a new
prepare as well. What is sent then is a mixture (or the earlier values), of which SentAsBound
says nothing, for nobody was told that it is bound; the property is that the next bind that
succeeds leaves nothing of it. That prepare, bind, prepare, execute succeeds at all is at
odds with test/statement/execute.test.js 101: it should not execute without a bind, but the
driver stays bound to the parameters of the first text (odbc_statement.cpp 139).

Not Careful would also show: values of other types keep what was bound before (odbc.cpp
755); an INOUT boolean, or a number whose type the code converts, is copied with a length of
0 bytes (odbc_connection.cpp 1446, 1562), so that true is sent as 0 for a BIT, although the
comment at 1417 says that the data is preserved; an OUT parameter of type TINYINT comes back as text;
and, below the grain of the model, a BigInt of more than 64 bits loses its upper ones (714).

`CHECK_DEADLOCK FALSE` in the runs of MCTransactions: one stops when the names of work are
used up. MCParameters is checked for deadlock.

## 4. Proofs

Every invariant and safety property that a passing run checks is also a theorem, for every
value of the constants that the named assumptions of the modules allow. TLC checked each
inductive invariant on the constants of a run before it was proved.

### Pool (PoolMoves, PoolProofs, LendingProofs)

For every set of pools, clients and connections and every configuration (pools and clients
are disjoint, NoConn is no connection, configurations have their types):

| theorem | |
|---|---|
| Inductive | Spec => []IInv |
| TypeCorrect, SlotsNeverLost, NoIdleWhileWaiting, LentOnce, StaysInSize | the invariants of PoolMixed but one |
| QueueSafe (`LimitsPositive`) | Spec => []QueueNeverStalls |
| ImplementsLending | Spec => KeepsPromise |
| NeverLost (`FreeOnesClosed`) | Spec => []NoConnectionLost |
| CountsStayExact (`NoFailuresNoCallbacks`) | Spec => []CountsExact |

`IInv` has four parts. `QueueInv`: QueueNeverStalls is not inductive alone, a slot could
be in use by nothing; SlotsAccounted excludes it. There could also be no slot, which is why
QueueSafe assumes that no pool sets the limit to 0; the other theorems do not. `PlacesNow`:
where users and connections are. OneBorrower needs that a user in a line holds nothing, that lines have
no duplicates and are disjoint, that who holds a connection is the one whose control
state says so, and that until init() is done a pool's line has nobody else in it (else
init() would put its connection beside a waiting user). `SizeInv`: SizeBound, with the
fact that a pool that was not started counts nothing. `CountersType` is the rest of the
types.

The actions move users and connections in a few ways: a loose connection becomes free
or goes to the first in line, a user gives up what it holds, joins a line, takes the
last free connection, is refused; native connections change state. `PoolMoves` has one
lemma per operation of the queue and one per move, without primes, over sequences seen as
sets of entries; `PoolProofs` composes them, a step per action, and shows that each step
is a step of Lending or none.

NoConnectionLost is inductive beside IInv. Its hypothesis is that nobody closes a pool or
nobody uses callbacks: close() with a callback drops the free connections (350). Native
calls may fail, and pools may be closed with promises, both of which PoolServes leaves out.
CountsExact needs native calls that succeed (a failed connect stays counted as being
created, run PoolAfterFailure) and promises (450 never counts a connection out). Its
invariant says, per pool, that connectionsBeingCreatedCount is the number of its entries in
the queue and among the running connects, and poolSize the number of its connections that
are not freed; `EntriesConcat` is what the operations of the queue come down to.

### LongData and Fetch (LongProofs, FetchProofs)

For every set of values that are `Handled`, of any length and with any first buffer
(`HandledOnly`), and in Fetch every set of result sets, drivers, fetch sizes and calls:

| theorem | |
|---|---|
| LongSafe | LongSpec => []LongInv |
| ValueAlwaysWhole, AlwaysAskedTwiceAtMost | ValueWhole, AskedTwiceAtMost of one value at a time |
| FetchSafe | Spec => [](Inv /\ LongInv) |
| FetchTypes, RowsAlwaysInOrder, AlwaysAllRowsOrError, NoDataAlwaysTells, FetchedAlwaysWhole, FetchAsksTwiceAtMost | the invariants of FetchWhole |

`LongInv` says, per stage, what the counters mean: before the buffer grows the last chunk
is not in `size` yet (`taken = size + given`); after it, `size = taken`, and if the
driver told the length there is room for all the rest, which is why a second call is
enough. Of wide text it says that all sizes are even (`WholeCharacters`): with an odd
one the rest could fall short of its room by a byte. `FirstFits` is where Handled
is used: the code's comparison with the first buffer is right for each kind except
binary data of exactly its size. SQL_NO_DATA is shown never to be reached. HandledOnly is
needed: the run FetchExactFit shows ValueWhole false without it, and what a cut value does
to the rows after it.

`Inv` of Fetch is what the fields of the worker and of its data say of one another.
`CallsInv` and `OpenInv`: who calls what, and that the data describes the driver's open
result set. `KeptInv`: rows of a failed execution stay stored, but then the result set is
open and nothing else can be executed; without it RowsInOrder would not survive the next
execution. `BlockInv` places the index of the row in the block and the block in the result
set. On them rest `OrderInv` (rows rise, none is beyond the last that was looked at),
`ReadInv` (until something fails, the rows that are stored or delivered are exactly the
readable ones up to there, from which NoDataTells follows), `AllInv` and `EndInv`. Every
step of Fetch starts a column, is a step of LongData or none (`LongKept`), so LongInv holds in
Fetch as well, column after column.

### Handles (HandleProofs)

For every set of connections, statements and calls under way together:

| theorem | |
|---|---|
| HandleTypes, DriverAlwaysToItself | TypeOK, DriverToItself: whatever the program does and whatever fails |
| HandlesAlwaysOwned ("freeStatement" does not fail) | HandlesOwned, whatever the program does |
| AlwaysFreedOnce, NeverUsedAfterFree (`Orderly`; neither "freeStatement" nor "freeConnection" fails) | FreedOnce, NothingUsedAfterFree |

`AnyInv` holds of any program: what a call is about and how far a worker of its kind gets
(`NamesInv`; a connect in the driver has the mutex), that a handle or a connection is made
by one call (`MakersInv`), that a handle lives no longer than its connection (`LiveInv`),
and what is true of handles without an object, whose worker frees them (`PassingInv`).
`OwnedInv` adds to it that a statement that is live in the driver is being created or has
an object that refers to it. `OrderlyInv` is about programs that await and close in order:
a pending call on a statement is the only one (`AwaitedInv`), a pending close of a
connection finds its statements and cursors closed (`ClosingInv`), an idle object refers
to a live handle (`ObjectsInv`), and a busy one does until its own call frees it
(`CallsInv`). The two failures are assumed away where the code does not survive them, as
section 3 says; `Orderly` because both are false without it, as section 3 says too. A cursor that was left open when its statement was closed is no
object of these invariants: an orderly program does not use it.

### Transactions and WorkUnits (TransactionProofs, LendingProofs)

For every set of pools, users, connections, statements and calls, whatever may fail, from
the named assumptions of Transactions and `Tidy = TRUE`:

| theorem | |
|---|---|
| LendingSafe (NoConn is no connection) | LendingSpec => [](LendTypes /\ LendInv) |
| TransactionTypes, UsersAreToldTheTruth, ConnectionsAreLeftClean, WorkIsOwn | the invariants of TransactionsSettle |
| ImplementsUnits | Spec => SettledAsUnits |

None of the four invariants is inductive. What is kept (`IInv` of TransactionProofs) says besides:
who has a connection and who waits (`LendInv`, from LendingProofs, since every step of
Transactions is one of Lending or none for `line` and `lent`); that a connection in use is
open and one that is being closed is nobody's (`SessionsInv`, `ClosesInv`); that a call other
than a statement is on the connection of the user it belongs to, who has no other such call
(`UserCallsInv`, `OneAtATime`, `OtherCallsInv`); that a statement under way is work that
nobody else executes, on the connection its user has, or had until it closed it, or on none
since that was freed (`QueriesInv`, `QueriesApart`); that what is under way and what is open
on one connection is one user's (`OwnersInv`), also when it outlives the close; and that open
work is on a connection of its user or one that is being closed (`OpenInv`). The core is `BeliefInv`: a user that is
sure knows the connection's autocommit (`Sync`), unless a call of its own has changed it
and the answer is under way (`News`). With it, `AnswersInv` says what an answer that is
under way will let the user conclude, `UnderWayInv` and `OpenDueInv` what was promised for
work that runs or is open, `FatesInv` what may become of a statement whose connection was
closed under it, and `SettledInv` that what was told is final. `LevelInv` is the same argument
for the isolation level: a user knows it, or is unsure. Tidy is used once, where a
connection goes back to its pool: belief and truth agree there, so a user that believes to
have nothing open and the default level leaves nothing.

The last part of TransactionProofs shows the refinement: a statement is settled at once,
starts a unit or extends the one of its connection, which by WorkIsOwn is its user's;
SQLEndTran and autocommit keep or drop the unit of one connection and touch no other, for
units do not overlap (`Replaced`); every other step is not seen.

### Parameters (ParameterProofs)

For any arrays, procedures, number of markers and failures of the driver:

| theorem | |
|---|---|
| ParameterTypes | Spec => []TypeOK, whatever is passed |
| AlwaysSentAsBound, ResultParametersAlwaysTrue (`Careful`) | SentAsBound, ResultParametersTrue |

TypeOK needs that a bound position is bound to its own place in the array (`BoundInv`) and
which data a call works on (`CallInv`). `ValuesInv` is the argument for the rest: from
BindParameters on, what the driver would read through the address and the indicator of each
position is the value that was passed, and a query's or procedure's array is what
StoreBindValues makes of a new one. `StoredReads` is where Careful is used: storing a value
over an earlier one leaves the null of the earlier one behind unless the value sets the
indicator (run ParametersNull shows what happens then). `InOutTells` and `OutTells` do the
same for what a procedure writes back.

Only model-checked: the liveness properties (EveryRequestAnswered, QueueDrains,
EveryCallEnds, CallsEnd, CursorRunsDry), which are out of the prover's reach. The runs that
expect a violation refute what they state for the code and need no proof.

## 5. Plan

1. `ConnectionQueue`, `Pool`, `Lending`: modelled, checked and proved.
2. `Handles`, `LongData`, `Fetch`, `Transactions` with `WorkUnits`, `Parameters`: modelled,
   checked and proved.
3. To prove: that HandlesOwned and SizeBound keep their meaning with weaker hypotheses
   where the code allows it (a failed "freeStatement" leaves one handle without an owner,
   not more); that Pool's order of service, which Lending promises as a line, bounds how
   many others are served before a user that waits.
4. To model: the arguments of catalog functions, connection attributes, and destructors
   run by the garbage collector.

Seen while reading, beside the hazards of PROJECT.json, and not modelled: connections
that Pool.close() is closing still count in poolSize (Pool.js 336); SQL_LONGVARBINARY
columns of a block share a buffer for one row (odbc_connection.cpp 3375); the status array
is sized for the fetch size asked for, not the one the driver substituted (699); a refused
bind() replaces the parameters a result will report (odbc_statement.cpp 272); Statement.execute
answers an option error and then goes on (500), as setIsolationLevel does (121); columns() stores
its fourth argument as the type, so its filter is ignored (odbc_connection.cpp 2736); on
a driver that refuses SQL_ATTR_ROW_BIND_TYPE the column arrays are used without being
allocated (3224); a row of a block that could not be read is passed over without an error
(3927); the handle and the data of a failed query with a cursor stay until its connection
is closed (995); close() of a cursor without a result set fails before it frees anything
(odbc_cursor.cpp 203); statements, cursors and queries keep a bare pointer to the native
connection, which may be collected (383).

Not planned: value conversion and diagnostics (stateless), dynamic loading, build files.
