------------------------------ MODULE Handles ------------------------------
(***************************************************************************)
(* The native addon: ODBC handles, the workers that use them on libuv's    *)
(* threads under one process-wide mutex, and the JavaScript wrappers that  *)
(* start workers and are told of their end.                                *)
(*                                                                         *)
(* A call goes through: "queued" (worker->Queue() was called), what its    *)
(* Execute() does on a thread, "done", "answered" (OnOK or OnError ran the *)
(* callback on the JavaScript thread) and "idle" (the worker is deleted).  *)
(*                                                                         *)
(* A handle stands for one SQLHSTMT with the StatementData that refers to  *)
(* it and, if there is one, the Statement or Cursor object over them.      *)
(* Names of connections and handles are not used twice, so that a stale    *)
(* reference is never taken for a fresh one.                               *)
(***************************************************************************)
EXTENDS FiniteSets

CONSTANTS
    Conns, Handles,   \* connections and statements that are ever made: both bounds
    Calls,            \* calls that can be under way together, a bound
    NoCall, NoName,   \* no call, no connection or handle
    Offered,          \* the operations the program uses
    Failures,         \* the kinds of driver failures that may occur
    Orderly           \* the program awaits its calls and closes in order

ConnectionOps == {"connect", "closeConnection"}
\* "query": without a cursor, "cursorQuery": with one. "catalog": tables, columns,
\* primaryKeys and foreignKeys, which differ in the one function they call.
PassingOps == {"query", "catalog", "callProcedure"}
CreatingOps == {"createStatement", "cursorQuery"} \cup PassingOps
StatementOps == {"prepare", "bind", "execute", "executeCursor", "closeStatement"}
CursorOps == {"fetch", "closeCursor"}
Ops == ConnectionOps \cup CreatingOps \cup StatementOps \cup CursorOps

\* "setup": SQLAllocHandle or SQLSetConnectAttr before connecting; "connect":
\* SQLDriverConnect; "close": SQLEndTran or SQLDisconnect; "freeConnection",
\* "freeStatement": SQLFreeHandle; "alloc": SQLAllocHandle of a statement;
\* "run": any other call on a statement.
FailureKinds == {"setup", "connect", "close", "freeConnection", "freeStatement", "alloc", "run"}

ASSUME NamesAssumption == /\ NoCall \notin Calls
                          /\ NoName \notin Conns \cup Handles
ASSUME ChoicesAssumption == /\ Offered \subseteq Ops
                            /\ Failures \subseteq FailureKinds
                            /\ Orderly \in BOOLEAN

VARIABLES
    mutex,    \* who holds g_odbcMutex, a call or NoCall
    js,       \* the call whose completion the JavaScript thread is in, or NoCall
    conn,     \* [Conns -> the native connection and its wrapper]
    stmt,     \* [Handles -> the statement handle, its data and their wrappers]
    call,     \* [Calls -> a call and its worker]
    misuse    \* what was used after it was freed so far; no state of the program

vars == <<mutex, js, conn, stmt, call, misuse>>

\* db: "open" while connected, "disconnected" if only SQLFreeHandle failed,
\* "null" once hDBC is SQL_NULL_HANDLE, "lost" if no object ever got the handle.
\* wrapper: the reference of the Connection object is not null.
ConnType == [db : {"none", "asked", "open", "disconnected", "null", "lost"},
             wrapper : BOOLEAN]

\* use: what the handle was made for; a passing one has no object, only a worker.
\* driver: what became of the handle in the driver. hstmt: data->hstmt is not
\* SQL_NULL_HANDLE. data: the StatementData. wrapper: the reference of the
\* Statement, or of the Cursor of a query, is not null; cursor: that of a Cursor a
\* statement was executed into.
StmtType == [use : {"none", "statement", "cursorQuery"} \cup PassingOps,
             of : Conns \cup {NoName},
             driver : {"none", "live", "freed"},
             hstmt : BOOLEAN,
             data : {"none", "live", "deleted"},
             wrapper : BOOLEAN,
             cursor : BOOLEAN]

CallType == [op : Ops \cup {"none"},
             on : Conns \cup {NoName},
             handle : Handles \cup {NoName},
             at : {"idle", "queued", "connecting", "running", "closed", "freeing",
                   "deleting", "done", "answered"},
             failed : BOOLEAN]

Misuses == {"freedTwice", "handleAfterFree", "queryAfterFree", "dataAfterFree"}

\* Type correctness.
TypeOK ==
    /\ mutex \in Calls \cup {NoCall}
    /\ js \in Calls \cup {NoCall}
    /\ conn \in [Conns -> ConnType]
    /\ stmt \in [Handles -> StmtType]
    /\ call \in [Calls -> CallType]
    /\ misuse \subseteq Misuses

NoStmt == [use |-> "none", of |-> NoName, driver |-> "none", hstmt |-> FALSE,
           data |-> "none", wrapper |-> FALSE, cursor |-> FALSE]

Idle == [op |-> "none", on |-> NoName, handle |-> NoName, at |-> "idle", failed |-> FALSE]

Init ==
    /\ mutex = NoCall
    /\ js = NoCall
    /\ conn = [c \in Conns |-> [db |-> "none", wrapper |-> FALSE]]
    /\ stmt = [h \in Handles |-> NoStmt]
    /\ call = [j \in Calls |-> Idle]
    /\ misuse = {}

-----------------------------------------------------------------------------
(* Terms used by the actions.                                              *)

\* The driver may fail a call of this kind, or not.
MayFail(kind) == IF kind \in Failures THEN BOOLEAN ELSE {FALSE}

\* A null or disconnected connection allocates nothing, a null handle is not freed.
AllocMayFail(c) == IF conn[c].db = "open" THEN MayFail("alloc") ELSE {TRUE}
FreeMayFail(h) == IF stmt[h].hstmt THEN MayFail("freeStatement") ELSE {TRUE}

\* A worker that has this call to run and, if it needs it, the mutex.
Running(j, ops, where) == call[j].op \in ops /\ call[j].at = where
MutexFree == mutex = NoCall

Moves(j, where) == call' = [call EXCEPT ![j].at = where]

Ends(j, failed) == call' = [call EXCEPT ![j].at = "done", ![j].failed = failed]

\* The call is under way: its answer has not been given.
Pending(j) == call[j].at \notin {"idle", "answered"}
Busy(h) == \E j \in Calls : Pending(j) /\ call[j].handle = h

\* What goes wrong when data->hstmt of h is passed to the driver.
MisuseOf(h) ==
    (IF stmt[h].data = "deleted" THEN {"dataAfterFree"} ELSE {})
    \cup (IF stmt[h].hstmt /\ stmt[h].driver = "freed"
            THEN {IF stmt[h].use \in PassingOps THEN "queryAfterFree" ELSE "handleAfterFree"}
            ELSE {})

\* SQLFreeHandle(SQL_HANDLE_STMT, data->hstmt) and the reset of data->hstmt.
FreedTwice(h) == IF stmt[h].hstmt /\ stmt[h].driver = "freed" THEN {"freedTwice"} ELSE {}

\* SQLDisconnect frees every statement of the connection.
FreeStatementsOf(c) ==
    stmt' = [h \in Handles |-> IF stmt[h].of = c /\ stmt[h].driver = "live"
                                 THEN [stmt[h] EXCEPT !.driver = "freed"]
                                 ELSE stmt[h]]

-----------------------------------------------------------------------------
(* The JavaScript thread: calls. It makes them between two completions or  *)
(* inside a callback, never while it waits for the mutex. On a wrapper     *)
(* whose reference is null a call is refused and changes nothing.          *)

Queue(j, op, c, h) ==
    /\ op \in Offered
    /\ call[j].at = "idle"
    /\ call' = [call EXCEPT ![j] = [op |-> op, on |-> c, handle |-> h,
                                    at |-> "queued", failed |-> FALSE]]

\* odbc.connect().
CallConnect(j, c) ==
    /\ conn[c].db = "none"
    /\ Queue(j, "connect", c, NoName)
    /\ conn' = [conn EXCEPT ![c].db = "asked"]
    /\ UNCHANGED <<mutex, js, stmt, misuse>>

\* An orderly program closes a connection when the statements made from it, and
\* the cursors of its queries, are closed and none is being made; other queries may
\* still be running.
MayClose(c) == \A h \in Handles : stmt[h].of = c =>
                  \/ stmt[h].use \in PassingOps
                  \/ ~stmt[h].wrapper /\ ~Busy(h)

\* Connection.close().
CallCloseConnection(j, c) ==
    /\ conn[c].wrapper
    /\ Orderly => MayClose(c)
    /\ Queue(j, "closeConnection", c, NoName)
    /\ UNCHANGED <<mutex, js, conn, stmt, misuse>>

\* A faulty one, that swaps the two names.
CallCreateSwapped(j, op, c, h) ==
    /\ conn[c].wrapper
    /\ stmt[h].use = "none"
    /\ Queue(j, op, h, c)
    /\ UNCHANGED <<mutex, js, conn, stmt, misuse>>

\* Connection.query(), createStatement(), callProcedure(), tables() and so on. The
\* StatementData is made here, a statement's when its handle has been allocated.
CallCreate(j, op, c, h) ==
    /\ conn[c].wrapper
    /\ stmt[h].use = "none"
    /\ Orderly /\ op \notin PassingOps =>
         \A k \in Calls : ~(Pending(k) /\ call[k].op = "closeConnection" /\ call[k].on = c)
    /\ Queue(j, op, c, h)
    /\ stmt' = [stmt EXCEPT ![h].use = IF op = "createStatement" THEN "statement" ELSE op,
                            ![h].of = c,
                            ![h].data = IF op = "createStatement" THEN @ ELSE "live"]
    /\ UNCHANGED <<mutex, js, conn, misuse>>

\* ODBCStatement::Prepare, Bind and Execute look at data->hstmt before they queue
\* the worker. Once the data is gone that look is a misuse.
LooksAtHandle(j, op, h) ==
    IF stmt[h].data = "deleted"
      THEN op \in Offered /\ misuse' = misuse \cup {"dataAfterFree"} /\ UNCHANGED call
      ELSE stmt[h].hstmt /\ Queue(j, op, stmt[h].of, h) /\ UNCHANGED misuse

\* Statement.prepare(), bind(), execute() and close(), also beside an open cursor.
CallStatement(j, op, h) ==
    /\ stmt[h].use = "statement"
    /\ stmt[h].wrapper
    /\ Orderly => ~Busy(h)
    /\ op = "executeCursor" => ~stmt[h].cursor      \* one cursor at a time, a bound
    /\ IF op = "closeStatement" THEN Queue(j, op, stmt[h].of, h) /\ UNCHANGED misuse
                                ELSE LooksAtHandle(j, op, h)
    /\ UNCHANGED <<mutex, js, conn, stmt>>

HasCursor(h) == IF stmt[h].use = "cursorQuery" THEN stmt[h].wrapper ELSE stmt[h].cursor

\* An orderly program leaves a cursor alone once its statement is closed: "Closing
\* the `Statement` will also close the `Cursor`".
MayUseCursor(h) == ~Busy(h) /\ stmt[h].wrapper

\* Cursor.fetch() and close() queue the worker at once.
CallCursor(j, op, h) ==
    /\ HasCursor(h)
    /\ Orderly => MayUseCursor(h)
    /\ Queue(j, op, stmt[h].of, h)
    /\ UNCHANGED <<mutex, js, conn, stmt, misuse>>

\* Cursor.noData reads the data at once.
ReadNoData(h) ==
    /\ HasCursor(h)
    /\ Orderly => MayUseCursor(h)
    /\ misuse' = misuse \cup (IF stmt[h].data = "deleted" THEN {"dataAfterFree"} ELSE {})
    /\ UNCHANGED <<mutex, js, conn, stmt, call>>

-----------------------------------------------------------------------------
(* The workers' Execute(), on libuv's threads.                             *)

\* A faulty one, that gives the mutex back before it connects.
ConnectBeginsUnlocked(j) ==
    /\ Running(j, {"connect"}, "queued")
    /\ MutexFree
    /\ Moves(j, "connecting")
    /\ UNCHANGED <<mutex, js, conn, stmt, misuse>>

\* ConnectAsyncWorker up to SQLDriverConnect: the mutex is taken, and an error
\* before the connection attempt returns with it.
ConnectBegins(j) ==
    /\ Running(j, {"connect"}, "queued")
    /\ MutexFree
    /\ mutex' = j
    /\ \E failed \in MayFail("setup") :
          /\ IF failed THEN Ends(j, TRUE) ELSE Moves(j, "connecting")
          /\ conn' = IF failed THEN [conn EXCEPT ![call[j].on].db = "lost"] ELSE conn
    /\ UNCHANGED <<js, stmt, misuse>>

\* A faulty one, that keeps the mutex when the connect failed.
ConnectEndsLocked(j) ==
    /\ Running(j, {"connect"}, "connecting")
    /\ \E failed \in MayFail("connect") :
          /\ Ends(j, failed)
          /\ mutex' = IF failed THEN j ELSE NoCall
          /\ conn' = [conn EXCEPT ![call[j].on].db = IF failed THEN "lost" ELSE "open"]
    /\ UNCHANGED <<js, stmt, misuse>>

\* SQLDriverConnect returns and the mutex is given back. The errors of SQLGetInfo
\* are ignored.
ConnectEnds(j) ==
    /\ Running(j, {"connect"}, "connecting")
    /\ mutex' = NoCall
    /\ \E failed \in MayFail("connect") :
          /\ Ends(j, failed)
          /\ conn' = [conn EXCEPT ![call[j].on].db = IF failed THEN "lost" ELSE "open"]
    /\ UNCHANGED <<js, stmt, misuse>>

\* CloseAsyncWorker: rollback, disconnect, free, all under the mutex; an error
\* leaves the rest undone, and hDBC as it is. A disconnected handle fails at once.
CloseConnection(j) ==
    LET c == call[j].on IN
    /\ Running(j, {"closeConnection"}, "queued")
    /\ MutexFree
    /\ \/ /\ conn[c].db = "null"
          /\ Ends(j, FALSE)
          /\ UNCHANGED <<conn, stmt>>
       \/ /\ conn[c].db = "disconnected" \/ "close" \in Failures
          /\ conn[c].db # "null"
          /\ Ends(j, TRUE)
          /\ UNCHANGED <<conn, stmt>>
       \/ /\ conn[c].db = "open"
          /\ FreeStatementsOf(c)
          /\ \E failed \in MayFail("freeConnection") :
                /\ Ends(j, failed)
                /\ conn' = [conn EXCEPT ![c].db = IF failed THEN "disconnected" ELSE "null"]
    /\ UNCHANGED <<mutex, js, misuse>>

\* CreateStatementAsyncWorker: hDBC is not looked at, the driver refuses it when null.
CreateStatement(j) ==
    LET h == call[j].handle IN
    /\ Running(j, {"createStatement"}, "queued")
    /\ MutexFree
    /\ \E failed \in AllocMayFail(call[j].on) :
          /\ Ends(j, failed)
          /\ stmt' = IF failed THEN stmt ELSE [stmt EXCEPT ![h].driver = "live"]
    /\ UNCHANGED <<mutex, js, conn, misuse>>

\* QueryAsyncWorker: hDBC is looked at and the handle allocated under the mutex.
QueryBegins(j) ==
    LET h == call[j].handle IN
    /\ Running(j, {"query", "cursorQuery"}, "queued")
    /\ MutexFree
    /\ \E failed \in AllocMayFail(call[j].on) :
          /\ IF failed THEN Ends(j, TRUE) ELSE Moves(j, "running")
          /\ stmt' = IF failed THEN stmt
                     ELSE [stmt EXCEPT ![h].driver = "live", ![h].hstmt = TRUE]
    /\ UNCHANGED <<mutex, js, conn, misuse>>

\* CallProcedureAsyncWorker and the workers of the catalog functions leave it to the
\* driver to refuse a null hDBC.
CatalogBegins(j) ==
    LET h == call[j].handle IN
    /\ Running(j, {"catalog", "callProcedure"}, "queued")
    /\ MutexFree
    /\ \E failed \in AllocMayFail(call[j].on) :
          /\ IF failed THEN Ends(j, TRUE) ELSE Moves(j, "running")
          /\ stmt' = IF failed THEN stmt
                     ELSE [stmt EXCEPT ![h].driver = "live", ![h].hstmt = TRUE]
    /\ UNCHANGED <<mutex, js, conn, misuse>>

\* Calls on a statement, none of them under the mutex: the rest of a query, ...
UsesStatement(j) ==
    /\ misuse' = misuse \cup MisuseOf(call[j].handle)
    /\ \E failed \in MayFail("run") : Ends(j, failed)
    /\ UNCHANGED <<mutex, js, conn, stmt>>

QueryRuns(j) == Running(j, {"query", "cursorQuery"}, "running") /\ UsesStatement(j)

\* ... of a procedure call and of a catalog function, ...
ProcedureRuns(j) == Running(j, {"callProcedure"}, "running") /\ UsesStatement(j)
CatalogRuns(j) == Running(j, {"catalog"}, "running") /\ UsesStatement(j)

\* ... and the workers of a statement and of a cursor.
PrepareRuns(j) == Running(j, {"prepare"}, "queued") /\ UsesStatement(j)
BindRuns(j) == Running(j, {"bind"}, "queued") /\ UsesStatement(j)
ExecuteRuns(j) == Running(j, {"execute", "executeCursor"}, "queued") /\ UsesStatement(j)
FetchRuns(j) == Running(j, {"fetch"}, "queued") /\ UsesStatement(j)

\* CursorCloseAsyncWorker: SQLCloseCursor. Only a query's cursor goes on to free
\* the statement, the other deletes the columns.
CloseCursor(j) ==
    LET h == call[j].handle IN
    /\ Running(j, {"closeCursor"}, "queued")
    /\ misuse' = misuse \cup MisuseOf(h)
    /\ \E failed \in MayFail("run") :
          IF failed \/ stmt[h].use # "cursorQuery" THEN Ends(j, failed) ELSE Moves(j, "closed")
    /\ UNCHANGED <<mutex, js, conn, stmt>>

\* ODBCStatement::Free and ODBCCursor::Free, in their three parts: the look at
\* data and data->hstmt; the handle freed under the mutex; the data deleted.
\* Neither looks at the connection.
FreeBegins(j) ==
    LET h == call[j].handle IN
    /\ Running(j, {"closeStatement"}, "queued") \/ Running(j, {"closeCursor"}, "closed")
    /\ IF stmt[h].data = "deleted" THEN Ends(j, FALSE)
       ELSE Moves(j, IF stmt[h].hstmt THEN "freeing" ELSE "deleting")
    /\ UNCHANGED <<mutex, js, conn, stmt, misuse>>

FreeHandle(j) ==
    LET h == call[j].handle IN
    /\ call[j].at = "freeing"
    /\ MutexFree
    /\ misuse' = misuse \cup FreedTwice(h)
                   \cup (IF stmt[h].data = "deleted" THEN {"dataAfterFree"} ELSE {})
    /\ \E failed \in FreeMayFail(h) :
          /\ call' = [call EXCEPT ![j].at = "deleting", ![j].failed = failed]
          /\ stmt' = [stmt EXCEPT ![h].hstmt = FALSE,
                                  ![h].driver = IF failed THEN @ ELSE "freed"]
    /\ UNCHANGED <<mutex, js, conn>>

\* After a failure the diagnostics are asked for through the deleted data.
FreeData(j) ==
    LET h == call[j].handle IN
    /\ call[j].at = "deleting"
    /\ stmt' = [stmt EXCEPT ![h].data = "deleted"]
    /\ misuse' = misuse \cup (IF call[j].failed THEN {"dataAfterFree"} ELSE {})
    /\ Ends(j, call[j].failed)
    /\ UNCHANGED <<mutex, js, conn>>

-----------------------------------------------------------------------------
(* The JavaScript thread: completions.                                     *)

\* What a successful call on handle h creates and which references its close sets
\* to null. First a faulty one, whose close() of a statement keeps the reference.
OutcomeKeepingReference(h, op) ==
    CASE op = "createStatement" -> [stmt[h] EXCEPT !.hstmt = TRUE, !.data = "live", !.wrapper = TRUE]
      [] op = "cursorQuery" -> [stmt[h] EXCEPT !.wrapper = TRUE]
      [] op = "executeCursor" -> [stmt[h] EXCEPT !.cursor = TRUE]
      [] op = "closeCursor" -> [stmt[h] EXCEPT !.wrapper = @ /\ stmt[h].use = "statement",
                                               !.cursor = FALSE]
      [] OTHER -> stmt[h]

Outcome(h, op) ==
    CASE op = "createStatement" -> [stmt[h] EXCEPT !.hstmt = TRUE, !.data = "live", !.wrapper = TRUE]
      [] op = "cursorQuery" -> [stmt[h] EXCEPT !.wrapper = TRUE]
      [] op = "closeStatement" -> [stmt[h] EXCEPT !.wrapper = FALSE]
      [] op = "executeCursor" -> [stmt[h] EXCEPT !.cursor = TRUE]
      [] op = "closeCursor" -> [stmt[h] EXCEPT !.wrapper = @ /\ stmt[h].use = "statement",
                                               !.cursor = FALSE]
      [] OTHER -> stmt[h]

\* OnOK or OnError, with the wrapper's callback.
Answer(j) ==
    LET c == call[j].on
        h == call[j].handle
        op == call[j].op
        ok == ~call[j].failed
    IN  /\ js = NoCall
        /\ call[j].at = "done"
        /\ js' = j
        /\ Moves(j, "answered")
        /\ conn' = IF ok /\ op \in ConnectionOps
                     THEN [conn EXCEPT ![c].wrapper = (op = "connect")] ELSE conn
        /\ stmt' = IF ok /\ h # NoName THEN [stmt EXCEPT ![h] = Outcome(h, op)] ELSE stmt
        /\ UNCHANGED <<mutex, misuse>>

\* Faulty ~QueryAsyncWorker: one does not look at the connection, one frees nothing
\* after a failed query.
QueryFreesAnyway(j) ==
    LET h == call[j].handle
    IN  /\ MutexFree
        /\ misuse' = misuse \cup FreedTwice(h)
        /\ stmt' = [stmt EXCEPT ![h].driver = IF @ = "live" THEN "freed" ELSE @,
                                ![h].hstmt = FALSE,
                                ![h].data = "deleted"]

QueryFreesIfAnswered(j) ==
    LET h == call[j].handle
        frees == conn[call[j].on].db # "null" /\ ~call[j].failed
    IN  /\ MutexFree
        /\ misuse' = misuse \cup (IF frees THEN FreedTwice(h) ELSE {})
        /\ stmt' = [stmt EXCEPT ![h].driver = IF frees /\ @ = "live" THEN "freed" ELSE @,
                                ![h].hstmt = FALSE,
                                ![h].data = "deleted"]

\* ~QueryAsyncWorker waits for the mutex and frees the handle of a query without
\* cursor, unless its connection is closed.
QueryFrees(j) ==
    LET h == call[j].handle
        frees == conn[call[j].on].db # "null"
    IN  /\ MutexFree
        /\ misuse' = misuse \cup (IF frees THEN FreedTwice(h) ELSE {})
        /\ stmt' = [stmt EXCEPT ![h].driver = IF frees /\ @ = "live" THEN "freed" ELSE @,
                                ![h].hstmt = FALSE,
                                ![h].data = "deleted"]

\* ~ColumnsAsyncWorker and the like delete the data, and free no handle.
CatalogForgets(j) ==
    /\ stmt' = [stmt EXCEPT ![call[j].handle].hstmt = FALSE,
                            ![call[j].handle].data = "deleted"]
    /\ UNCHANGED misuse

\* The worker's destructor, after the callback; other workers have nothing to do.
WorkerDeleted(j) ==
    /\ js = j
    /\ js' = NoCall
    /\ call' = [call EXCEPT ![j] = Idle]
    /\ CASE call[j].op = "query" -> QueryFrees(j)
         [] call[j].op \in PassingOps \ {"query"} -> CatalogForgets(j)
         [] OTHER -> UNCHANGED <<stmt, misuse>>
    /\ UNCHANGED <<mutex, conn>>

Thread(j) ==
    \/ ConnectBegins(j)
    \/ ConnectEnds(j)
    \/ CloseConnection(j)
    \/ CreateStatement(j)
    \/ QueryBegins(j)
    \/ CatalogBegins(j)
    \/ QueryRuns(j)
    \/ ProcedureRuns(j)
    \/ CatalogRuns(j)
    \/ PrepareRuns(j)
    \/ BindRuns(j)
    \/ ExecuteRuns(j)
    \/ FetchRuns(j)
    \/ CloseCursor(j)
    \/ FreeBegins(j)
    \/ FreeHandle(j)
    \/ FreeData(j)

Program ==
    \/ \E j \in Calls, c \in Conns : CallConnect(j, c) \/ CallCloseConnection(j, c)
    \/ \E j \in Calls, op \in CreatingOps, c \in Conns, h \in Handles :
          CallCreate(j, op, c, h)
    \/ \E j \in Calls, op \in StatementOps, h \in Handles : CallStatement(j, op, h)
    \/ \E j \in Calls, op \in CursorOps, h \in Handles : CallCursor(j, op, h)
    \/ \E h \in Handles : ReadNoData(h)

Next ==
    \/ Program
    \/ \E j \in Calls : Thread(j)
    \/ \E j \in Calls : Answer(j)
    \/ \E j \in Calls : WorkerDeleted(j)

Spec == Init /\ [][Next]_vars

\* A queued worker gets a thread, and what it calls in the driver returns. Workers
\* that wait for the mutex, and completions that wait for the JavaScript thread,
\* are not overtaken for ever.
Fairness == \A j \in Calls : SF_vars(Thread(j)) /\ SF_vars(Answer(j)) /\ SF_vars(WorkerDeleted(j))

FairSpec == Spec /\ Fairness

-----------------------------------------------------------------------------

\* A statement handle is freed once, whoever frees it: its connection, its close(),
\* its query. "It is possible the connection handle has been freed, which freed the
\* statement handle as well. Freeing again would cause a segfault."
FreedOnce == "freedTwice" \notin misuse

\* No call works on a handle that was freed or on data that was deleted. A query
\* whose connection is closed while it runs is left out: nothing guards it.
NothingUsedAfterFree == misuse \cap {"handleAfterFree", "dataAfterFree"} = {}

\* The handle of a plain query or of a statement is never left in the driver
\* without somebody who will free it: a worker, or an object that can be closed.
HandlesOwned == \A h \in Handles :
    stmt[h].driver = "live" /\ stmt[h].use \in {"query", "statement"} =>
        \/ stmt[h].wrapper
        \/ \E j \in Calls : call[j].handle = h

\* What the mutex is for: while a connect is inside the driver, no statement handle
\* is allocated or freed, and no connection is closed.
DriverToItself == [][(\E j \in Calls : call[j].at = "connecting") =>
                        /\ \A h \in Handles : stmt'[h].driver = stmt[h].driver
                        /\ \A c \in Conns : conn[c].db = "open" => conn'[c].db = "open"]_vars

\* Every call is answered and its worker deleted: no worker waits for the mutex for
\* ever, nor does the JavaScript thread.
EveryCallEnds == \A j \in Calls : call[j].at # "idle" ~> call[j].at = "idle"

=============================================================================
