---------------------------- MODULE HandleProofs ----------------------------
(***************************************************************************)
(* Proofs about module Handles, for any connections, statements and calls  *)
(* under way together: who will free a handle, that the mutex keeps the    *)
(* driver to itself while it connects, and that a program that closes in   *)
(* order never makes the addon free twice or use what was freed.           *)
(***************************************************************************)
EXTENDS Handles, TLAPS

UsedFor(op) == IF op = "createStatement" THEN "statement" ELSE op

\* The calls after which the handle of h is freed and its data deleted.
Closes(j) == \/ call[j].op = "closeStatement"
             \/ call[j].op = "closeCursor" /\ stmt[call[j].handle].use = "cursorQuery"

\* What a call is about, and how far a worker of its kind gets.
Named(j) ==
    /\ call[j].at = "idle" => call[j].handle = NoName
    /\ call[j].at # "idle" =>
         /\ call[j].op \in Ops
         /\ call[j].on \in Conns
         /\ call[j].op \in ConnectionOps => call[j].handle = NoName
         /\ call[j].op \notin ConnectionOps =>
              /\ call[j].handle \in Handles
              /\ stmt[call[j].handle].of = call[j].on
         /\ call[j].op \in CreatingOps => stmt[call[j].handle].use = UsedFor(call[j].op)
         /\ call[j].op \in StatementOps => stmt[call[j].handle].use = "statement"
         /\ call[j].op \in CursorOps => stmt[call[j].handle].use \in {"statement", "cursorQuery"}
    /\ call[j].at = "connecting" => call[j].op = "connect" /\ mutex = j
    /\ call[j].at = "running" => call[j].op \in CreatingOps \ {"createStatement"}
    /\ call[j].at \in {"closed", "freeing", "deleting"} => Closes(j)
    /\ call[j].at = "closed" => call[j].op = "closeCursor"

NamesInv == \A j \in Calls : Named(j)

\* A handle is made by one call, a connection is made once.
MakersInv ==
    /\ \A j, k \in Calls : /\ call[j].at # "idle" /\ call[k].at # "idle"
                           /\ call[j].op \in CreatingOps /\ call[k].op \in CreatingOps
                           /\ call[j].handle = call[k].handle
                           => j = k
    /\ \A j, k \in Calls : /\ call[j].op = "connect" /\ call[j].at \in {"queued", "connecting"}
                           /\ call[k].op = "connect" /\ call[k].at \in {"queued", "connecting"}
                           /\ call[j].on = call[k].on
                           => j = k
    /\ \A j \in Calls : call[j].op = "connect" /\ call[j].at \in {"queued", "connecting"} =>
                           conn[call[j].on].db = "asked"

\* Handles live in the driver while their connection does.
LiveInv == \A h \in Handles :
    /\ stmt[h].use = "none" => stmt[h] = NoStmt
    /\ stmt[h].use # "none" => stmt[h].of \in Conns
    /\ stmt[h].driver = "live" => conn[stmt[h].of].db = "open"

\* Handles without an object. Those that a connection took along are of a closed one.
PassingInv ==
    /\ \A h \in Handles : /\ stmt[h].use \in PassingOps
                          /\ stmt[h].driver = "freed" /\ stmt[h].hstmt
                          => conn[stmt[h].of].db \in {"null", "disconnected"}
    /\ \A h \in Handles : stmt[h].use = "query" /\ stmt[h].driver = "live" =>
                             \E j \in Calls : call[j].handle = h
    /\ \A j \in Calls : call[j].at # "idle" /\ call[j].op \in PassingOps =>
         /\ stmt[call[j].handle].data = "live"
         /\ call[j].at = "queued" => stmt[call[j].handle].driver = "none"

\* Cursors are executed from statements.
CursorsInv == \A h \in Handles : stmt[h].cursor => stmt[h].use = "statement"

\* The JavaScript thread is in the completion of a call that was answered.
AnsweringInv == js # NoCall => call[js].at = "answered"

AnyInv == TypeOK /\ NamesInv /\ MakersInv /\ LiveInv /\ PassingInv /\ CursorsInv /\ AnsweringInv

\* Statements in the driver are being made or have an object that will free them.
OwnedInv ==
    /\ \A h \in Handles : stmt[h].use = "statement" =>
         \/ \E j \in Calls : Pending(j) /\ call[j].op = "createStatement" /\ call[j].handle = h
         \/ stmt[h].driver # "live"
         \/ stmt[h].wrapper /\ stmt[h].hstmt /\ stmt[h].data = "live"
    /\ \A j \in Calls : Pending(j) /\ call[j].op = "createStatement" =>
         /\ ~stmt[call[j].handle].wrapper /\ ~stmt[call[j].handle].cursor
         /\ call[j].at = "queued" \/ (call[j].at = "done" /\ call[j].failed) =>
               stmt[call[j].handle].driver = "none"
         /\ \A k \in Calls : call[k].handle = call[j].handle => k = j
    /\ \A j \in Calls : /\ call[j].op = "closeStatement"
                        /\ call[j].at = "deleting" \/ (call[j].at = "done" /\ ~call[j].failed)
                        => stmt[call[j].handle].driver # "live"

-----------------------------------------------------------------------------
(* Programs that await their calls and close in order.                     *)

Sound(h) == stmt[h].data = "live" /\ stmt[h].hstmt /\ stmt[h].driver = "live"

\* One call at a time about a statement or a cursor.
AwaitedInv == \A j, k \in Calls :
    Pending(j) /\ Pending(k) /\ call[j].handle \in Handles /\ call[k].handle = call[j].handle
    => j = k

\* A connection is not closed over its statements and the cursors of its queries.
ClosingInv == \A j \in Calls :
    Pending(j) /\ call[j].op = "closeConnection" => MayClose(call[j].on)

\* What an object refers to when nothing is going on. A statement's cursor is like
\* its statement, and not used without it.
ObjectOK(h) == stmt[h].wrapper /\ ~Busy(h) => Sound(h)

ObjectsInv == \A h \in Handles : stmt[h].use \notin PassingOps => ObjectOK(h)

\* And when something is: a statement is being created, a query with a cursor is
\* running, a statement or a cursor is used.
CreatingOK(j) == call[j].op = "createStatement" =>
    LET h == call[j].handle IN
    /\ ~stmt[h].wrapper
    /\ call[j].at = "done" /\ ~call[j].failed => stmt[h].driver = "live"

QueryingOK(j) == call[j].op = "cursorQuery" =>
    LET h == call[j].handle IN
    /\ ~stmt[h].wrapper
    /\ call[j].at = "queued" => stmt[h].data = "live"
    /\ call[j].at = "running" \/ (call[j].at = "done" /\ ~call[j].failed) => Sound(h)

UsingOK(j) == call[j].op \in StatementOps \cup CursorOps =>
    LET h == call[j].handle IN
    /\ stmt[h].wrapper
    /\ call[j].at = "deleting" => ~call[j].failed /\ stmt[h].data = "live"
    /\ call[j].at \in {"queued", "closed", "freeing"} => Sound(h)
    /\ call[j].at = "done" => Sound(h) \/ (Closes(j) /\ ~call[j].failed)

CallOK(j) == CreatingOK(j) /\ QueryingOK(j) /\ UsingOK(j)

CallsInv == \A j \in Calls : Pending(j) => CallOK(j)

OrderlyInv ==
    /\ AwaitedInv
    /\ ClosingInv
    /\ ObjectsInv
    /\ CallsInv
    /\ \A c \in Conns : conn[c].db # "disconnected"
    /\ FreedOnce /\ NothingUsedAfterFree

-----------------------------------------------------------------------------
(* Types.                                                                  *)

\* The states of a call after the operations on one.
LEMMA CallTypes ==
  ASSUME TypeOK, NEW j \in Calls
  PROVE  /\ \A w \in {"connecting", "running", "closed", "freeing", "deleting", "done", "answered"} :
              Moves(j, w) => call' \in [Calls -> CallType]
         /\ \A f \in BOOLEAN : Ends(j, f) => call' \in [Calls -> CallType]
         /\ \A op \in Ops, c \in Conns \cup {NoName}, h \in Handles \cup {NoName} :
              Queue(j, op, c, h) => call' \in [Calls -> CallType]
         /\ Idle \in CallType
<1>1. call \in [Calls -> CallType]
  BY DEF TypeOK
<1>2. ASSUME NEW w \in {"connecting", "running", "closed", "freeing", "deleting", "done", "answered"},
             Moves(j, w)
      PROVE  call' \in [Calls -> CallType]
  BY <1>1, <1>2 DEF Moves, CallType
<1>3. ASSUME NEW f \in BOOLEAN, Ends(j, f)
      PROVE  call' \in [Calls -> CallType]
  BY <1>1, <1>3 DEF Ends, CallType
<1>4. ASSUME NEW op \in Ops, NEW c \in Conns \cup {NoName}, NEW h \in Handles \cup {NoName},
             Queue(j, op, c, h)
      PROVE  call' \in [Calls -> CallType]
  <2>1. [op |-> op, on |-> c, handle |-> h, at |-> "queued", failed |-> FALSE] \in CallType
    BY DEF CallType
  <2> QED
    BY <1>1, <1>4, <2>1 DEF Queue
<1>5. Idle \in CallType
  BY DEF Idle, CallType
<1> QED
  BY <1>2, <1>3, <1>4, <1>5

LEMMA FailType == \A kind : MayFail(kind) \subseteq BOOLEAN
BY DEF MayFail

LEMMA StmtField ==
  ASSUME NEW s \in StmtType
  PROVE  /\ s.use \in {"none", "statement", "cursorQuery"} \cup PassingOps
         /\ s.of \in Conns \cup {NoName}
         /\ s.driver \in {"none", "live", "freed"}
         /\ s.hstmt \in BOOLEAN /\ s.wrapper \in BOOLEAN /\ s.cursor \in BOOLEAN
         /\ s.data \in {"none", "live", "deleted"}
BY DEF StmtType

\* Changing one handle.
LEMMA StmtTypes ==
  ASSUME TypeOK, NEW h, NEW s, h \in Handles => s \in StmtType, stmt' = [stmt EXCEPT ![h] = s]
  PROVE  stmt' \in [Handles -> StmtType]
BY DEF TypeOK

LEMMA ConnTypes ==
  ASSUME TypeOK, NEW c, NEW d \in {"none", "asked", "open", "disconnected", "null", "lost"},
         conn' = [conn EXCEPT ![c].db = d]
  PROVE  conn' \in [Conns -> ConnType]
BY DEF TypeOK, ConnType

LEMMA InitType == Init => TypeOK
<1> SUFFICES ASSUME Init PROVE TypeOK
  OBVIOUS
<1>1. NoStmt \in StmtType
  BY DEF NoStmt, StmtType
<1>2. Idle \in CallType
  BY DEF Idle, CallType
<1>3. conn \in [Conns -> ConnType]
  BY DEF Init, ConnType
<1> QED
  BY <1>1, <1>2, <1>3 DEF Init, TypeOK

LEMMA ProgramType == ASSUME TypeOK, Program PROVE TypeOK'
<1>1. ASSUME NEW j \in Calls, NEW c \in Conns, CallConnect(j, c)
      PROVE  TypeOK'
  <2>1. call' \in [Calls -> CallType]
    BY <1>1, CallTypes DEF CallConnect, Ops, ConnectionOps
  <2>2. conn' \in [Conns -> ConnType]
    BY <1>1, ConnTypes DEF CallConnect
  <2> QED
    BY <1>1, <2>1, <2>2 DEF TypeOK, CallConnect
<1>2. ASSUME NEW j \in Calls, NEW c \in Conns, CallCloseConnection(j, c)
      PROVE  TypeOK'
  <2>1. call' \in [Calls -> CallType]
    BY <1>2, CallTypes DEF CallCloseConnection, Ops, ConnectionOps
  <2> QED
    BY <1>2, <2>1 DEF TypeOK, CallCloseConnection
<1>3. ASSUME NEW j \in Calls, NEW op \in CreatingOps, NEW c \in Conns, NEW h \in Handles,
             CallCreate(j, op, c, h)
      PROVE  TypeOK'
  <2>1. call' \in [Calls -> CallType]
    BY <1>3, CallTypes DEF CallCreate, Ops
  <2>2. stmt' \in [Handles -> StmtType]
    <3>1. UsedFor(op) \in {"statement", "cursorQuery"} \cup PassingOps
      BY DEF UsedFor, CreatingOps
    <3>2. stmt' = [stmt EXCEPT ![h].use = UsedFor(op), ![h].of = c,
                               ![h].data = IF op = "createStatement" THEN @ ELSE "live"]
      BY <1>3 DEF CallCreate, UsedFor
    <3> HIDE DEF UsedFor
    <3> DEFINE data == IF op = "createStatement" THEN stmt[h].data ELSE "live"
               s == [stmt[h] EXCEPT !.use = UsedFor(op), !.of = c, !.data = data]
    <3>3. stmt[h] \in StmtType /\ data \in {"none", "live", "deleted"}
      BY StmtField DEF TypeOK
    <3>4. stmt' = [stmt EXCEPT ![h] = s]
      BY <3>2
    <3> HIDE DEF data
    <3>5. s \in StmtType
      BY <3>1, <3>3 DEF StmtType
    <3> QED
      BY <3>4, <3>5, StmtTypes
  <2> QED
    BY <1>3, <2>1, <2>2 DEF TypeOK, CallCreate
<1>4. ASSUME NEW j \in Calls, NEW op \in StatementOps, NEW h \in Handles, CallStatement(j, op, h)
      PROVE  TypeOK'
  <2>1. stmt[h].of \in Conns \cup {NoName} /\ op \in Ops
    BY DEF TypeOK, StmtType, Ops
  <2>2. call' \in [Calls -> CallType] /\ misuse' \subseteq Misuses
    <3>1. CASE Queue(j, op, stmt[h].of, h) /\ misuse' = misuse
      BY <2>1, <3>1, CallTypes DEF TypeOK
    <3>2. CASE call' = call /\ misuse' = misuse \cup {"dataAfterFree"}
      BY <3>2 DEF TypeOK, Misuses
    <3> QED
      BY <1>4, <3>1, <3>2 DEF CallStatement, LooksAtHandle
  <2> QED
    BY <1>4, <2>2 DEF TypeOK, CallStatement
<1>5. ASSUME NEW j \in Calls, NEW op \in CursorOps, NEW h \in Handles, CallCursor(j, op, h)
      PROVE  TypeOK'
  <2>1. stmt[h].of \in Conns \cup {NoName} /\ op \in Ops
    BY DEF TypeOK, StmtType, Ops
  <2>2. call' \in [Calls -> CallType]
    BY <1>5, <2>1, CallTypes DEF CallCursor
  <2> QED
    BY <1>5, <2>2 DEF TypeOK, CallCursor
<1>6. ASSUME NEW h \in Handles, ReadNoData(h)
      PROVE  TypeOK'
  BY <1>6 DEF TypeOK, ReadNoData, Misuses
<1> QED
  BY <1>1, <1>2, <1>3, <1>4, <1>5, <1>6 DEF Program

\* What a use of a statement adds to the misuses is one.
LEMMA MisuseType == \A h : MisuseOf(h) \subseteq Misuses /\ FreedTwice(h) \subseteq Misuses
BY DEF MisuseOf, FreedTwice, Misuses

LEMMA UsesType == ASSUME TypeOK, NEW j \in Calls, UsesStatement(j) PROVE TypeOK'
<1>1. call' \in [Calls -> CallType]
  BY CallTypes, FailType DEF UsesStatement
<1> QED
  BY <1>1, MisuseType DEF UsesStatement, TypeOK

LEMMA FreeStatementsType ==
  ASSUME TypeOK, NEW c, FreeStatementsOf(c)
  PROVE  stmt' \in [Handles -> StmtType]
<1>1. ASSUME NEW s \in StmtType PROVE [s EXCEPT !.driver = "freed"] \in StmtType
  BY DEF StmtType
<1> QED
  BY <1>1 DEF FreeStatementsOf, TypeOK

LEMMA LiveType == ASSUME NEW s \in StmtType PROVE /\ [s EXCEPT !.driver = "live"] \in StmtType
                                                   /\ [s EXCEPT !.driver = "live", !.hstmt = TRUE] \in StmtType
BY DEF StmtType

LEMMA BeginsType ==
  ASSUME TypeOK, NEW j \in Calls, QueryBegins(j) \/ CatalogBegins(j)
  PROVE  TypeOK'
<1> DEFINE h == call[j].handle
<1>1. PICK failed \in AllocMayFail(call[j].on) :
        /\ IF failed THEN Ends(j, TRUE) ELSE Moves(j, "running")
        /\ stmt' = IF failed THEN stmt ELSE [stmt EXCEPT ![h].driver = "live", ![h].hstmt = TRUE]
        /\ UNCHANGED <<mutex, js, conn, misuse>>
  BY DEF QueryBegins, CatalogBegins
<1>2. call' \in [Calls -> CallType]
  BY <1>1, CallTypes
<1>3. stmt' \in [Handles -> StmtType]
  <2>1. CASE stmt' = stmt
    BY <2>1 DEF TypeOK
  <2>2. CASE stmt' = [stmt EXCEPT ![h].driver = "live", ![h].hstmt = TRUE]
    <3>1. stmt' = [stmt EXCEPT ![h] = [stmt[h] EXCEPT !.driver = "live", !.hstmt = TRUE]]
      BY <2>2
    <3>2. h \in Handles => [stmt[h] EXCEPT !.driver = "live", !.hstmt = TRUE] \in StmtType
      BY LiveType DEF TypeOK
    <3> HIDE DEF h
    <3> QED
      BY <3>1, <3>2, StmtTypes
  <2> QED
    BY <1>1, <2>1, <2>2
<1> QED
  BY <1>1, <1>2, <1>3 DEF TypeOK

LEMMA ThreadType == ASSUME TypeOK, NEW j \in Calls, Thread(j) PROVE TypeOK'
<1>1. ASSUME ConnectBegins(j) PROVE TypeOK'
  <2>1. call' \in [Calls -> CallType] /\ conn' \in [Conns -> ConnType]
    <3>1. CASE Ends(j, TRUE) /\ conn' = [conn EXCEPT ![call[j].on].db = "lost"]
      BY <3>1, CallTypes, ConnTypes
    <3>2. CASE Moves(j, "connecting") /\ conn' = conn
      BY <3>2, CallTypes DEF TypeOK
    <3> QED
      BY <1>1, <3>1, <3>2 DEF ConnectBegins
  <2> QED
    BY <1>1, <2>1 DEF TypeOK, ConnectBegins
<1>2. ASSUME ConnectEnds(j) PROVE TypeOK'
  <2>1. PICK failed \in BOOLEAN :
          /\ Ends(j, failed)
          /\ conn' = [conn EXCEPT ![call[j].on].db = IF failed THEN "lost" ELSE "open"]
    BY <1>2, FailType DEF ConnectEnds
  <2>2. call' \in [Calls -> CallType] /\ conn' \in [Conns -> ConnType]
    BY <2>1, CallTypes, ConnTypes
  <2> QED
    BY <1>2, <2>2 DEF TypeOK, ConnectEnds
<1>3. ASSUME CloseConnection(j) PROVE TypeOK'
  <2>1. CASE (Ends(j, FALSE) \/ Ends(j, TRUE)) /\ UNCHANGED <<conn, stmt>>
    BY <1>3, <2>1, CallTypes DEF TypeOK, CloseConnection
  <2>2. CASE /\ FreeStatementsOf(call[j].on)
             /\ \E failed \in MayFail("freeConnection") :
                  /\ Ends(j, failed)
                  /\ conn' = [conn EXCEPT ![call[j].on].db = IF failed THEN "disconnected" ELSE "null"]
    <3>1. stmt' \in [Handles -> StmtType]
      BY <2>2, FreeStatementsType
    <3>2. call' \in [Calls -> CallType] /\ conn' \in [Conns -> ConnType]
      <4>1. PICK failed \in BOOLEAN :
              /\ Ends(j, failed)
              /\ conn' = [conn EXCEPT ![call[j].on].db = IF failed THEN "disconnected" ELSE "null"]
        BY <2>2, FailType
      <4> QED
        BY <4>1, CallTypes, ConnTypes
    <3> QED
      BY <1>3, <3>1, <3>2 DEF TypeOK, CloseConnection
  <2> QED
    BY <1>3, <2>1, <2>2 DEF CloseConnection
<1>4. ASSUME CreateStatement(j) PROVE TypeOK'
  <2> DEFINE h == call[j].handle
  <2>1. PICK failed \in AllocMayFail(call[j].on) :
          /\ Ends(j, failed)
          /\ stmt' = IF failed THEN stmt ELSE [stmt EXCEPT ![h].driver = "live"]
    BY <1>4 DEF CreateStatement
  <2>2. call' \in [Calls -> CallType]
    BY <2>1, CallTypes, FailType DEF AllocMayFail
  <2>3. stmt' \in [Handles -> StmtType]
    <3>1. CASE stmt' = stmt
      BY <3>1 DEF TypeOK
    <3>2. CASE stmt' = [stmt EXCEPT ![h].driver = "live"]
      <4>1. stmt' = [stmt EXCEPT ![h] = [stmt[h] EXCEPT !.driver = "live"]]
        BY <3>2
      <4>2. h \in Handles => [stmt[h] EXCEPT !.driver = "live"] \in StmtType
        BY LiveType DEF TypeOK
      <4> HIDE DEF h
      <4> QED
        BY <4>1, <4>2, StmtTypes
    <3> QED
      BY <2>1, <3>1, <3>2
  <2> QED
    BY <1>4, <2>2, <2>3 DEF TypeOK, CreateStatement
<1>5. ASSUME CloseCursor(j) PROVE TypeOK'
  <2>1. call' \in [Calls -> CallType]
    BY <1>5, CallTypes, FailType DEF CloseCursor
  <2> QED
    BY <1>5, <2>1, MisuseType DEF TypeOK, CloseCursor
<1>6. ASSUME FreeBegins(j) PROVE TypeOK'
  <2>1. call' \in [Calls -> CallType]
    BY <1>6, CallTypes DEF FreeBegins
  <2> QED
    BY <1>6, <2>1 DEF TypeOK, FreeBegins
<1>7. ASSUME FreeHandle(j) PROVE TypeOK'
  <2> DEFINE h == call[j].handle
  <2>1. PICK failed \in FreeMayFail(h) :
          /\ call' = [call EXCEPT ![j].at = "deleting", ![j].failed = failed]
          /\ stmt' = [stmt EXCEPT ![h].hstmt = FALSE,
                                  ![h].driver = IF failed THEN @ ELSE "freed"]
    BY <1>7 DEF FreeHandle
  <2>2. failed \in BOOLEAN
    BY FailType DEF FreeMayFail
  <2>3. call' \in [Calls -> CallType]
    BY <2>1, <2>2 DEF TypeOK, CallType
  <2>4. stmt' \in [Handles -> StmtType]
    <3> DEFINE driver == IF failed THEN stmt[h].driver ELSE "freed"
    <3>1. stmt' = [stmt EXCEPT ![h] = [stmt[h] EXCEPT !.hstmt = FALSE, !.driver = driver]]
      BY <2>1
    <3>2. h \in Handles => stmt[h] \in StmtType /\ driver \in {"none", "live", "freed"}
      BY StmtField DEF TypeOK
    <3> HIDE DEF h, driver
    <3>3. h \in Handles => [stmt[h] EXCEPT !.hstmt = FALSE, !.driver = driver] \in StmtType
      BY <3>2 DEF StmtType
    <3> QED
      BY <3>1, <3>3, StmtTypes
  <2>5. misuse' \subseteq Misuses
    BY <1>7, MisuseType DEF FreeHandle, TypeOK, Misuses
  <2> QED
    BY <1>7, <2>3, <2>4, <2>5 DEF TypeOK, FreeHandle
<1>8. ASSUME FreeData(j) PROVE TypeOK'
  <2> DEFINE h == call[j].handle
  <2>1. stmt' \in [Handles -> StmtType]
    <3>1. stmt' = [stmt EXCEPT ![h] = [stmt[h] EXCEPT !.data = "deleted"]]
      BY <1>8 DEF FreeData
    <3>2. h \in Handles => [stmt[h] EXCEPT !.data = "deleted"] \in StmtType
      BY DEF TypeOK, StmtType
    <3> HIDE DEF h
    <3> QED
      BY <3>1, <3>2, StmtTypes
  <2>2. call[j].failed \in BOOLEAN
    BY DEF TypeOK, CallType
  <2>3. call' \in [Calls -> CallType]
    BY <1>8, <2>2, CallTypes DEF FreeData
  <2> QED
    BY <1>8, <2>1, <2>3 DEF TypeOK, FreeData, Misuses
<1> QED
  BY <1>1, <1>2, <1>3, <1>4, <1>5, <1>6, <1>7, <1>8, UsesType, BeginsType
  DEF Thread, QueryRuns, ProcedureRuns, CatalogRuns, PrepareRuns, BindRuns, ExecuteRuns, FetchRuns

LEMMA OutcomeType ==
  ASSUME TypeOK, NEW h \in Handles, NEW op
  PROVE  Outcome(h, op) \in StmtType
<1>1. stmt[h] \in StmtType
  BY DEF TypeOK
<1>2. (stmt[h].wrapper /\ stmt[h].use = "statement") \in BOOLEAN
  OBVIOUS
<1>3. CASE op \in {"createStatement", "cursorQuery", "closeStatement", "executeCursor"}
  BY <1>1, <1>3 DEF Outcome, StmtType
<1>4. CASE op = "closeCursor"
  BY <1>1, <1>2, <1>4 DEF Outcome, StmtType
<1>5. CASE op \notin {"createStatement", "cursorQuery", "closeStatement", "executeCursor", "closeCursor"}
  BY <1>1, <1>5 DEF Outcome
<1> QED
  BY <1>3, <1>4, <1>5

LEMMA AnswerType == ASSUME TypeOK, NEW j \in Calls, Answer(j) PROVE TypeOK'
<1>1. call' \in [Calls -> CallType]
  BY CallTypes DEF Answer
<1>2. conn' \in [Conns -> ConnType]
  <2>1. (call[j].op = "connect") \in BOOLEAN
    OBVIOUS
  <2> QED
    BY <2>1 DEF Answer, TypeOK, ConnType
<1>3. stmt' \in [Handles -> StmtType]
  <2>1. CASE stmt' = stmt
    BY <2>1 DEF TypeOK
  <2>2. CASE stmt' = [stmt EXCEPT ![call[j].handle] = Outcome(call[j].handle, call[j].op)]
    BY <2>2, OutcomeType, StmtTypes
  <2> QED
    BY <2>1, <2>2 DEF Answer
<1> QED
  BY <1>1, <1>2, <1>3 DEF Answer, TypeOK

LEMMA DeletedType == ASSUME TypeOK, NEW j \in Calls, WorkerDeleted(j) PROVE TypeOK'
<1>1. call' \in [Calls -> CallType]
  BY CallTypes DEF WorkerDeleted, TypeOK
<1> DEFINE h == call[j].handle
<1>2. stmt' \in [Handles -> StmtType] /\ misuse' \subseteq Misuses
  <2>1. CASE call[j].op = "query"
    <3>1. QueryFrees(j)
      BY <2>1 DEF WorkerDeleted
    <3> DEFINE driver == IF conn[call[j].on].db # "null" /\ stmt[h].driver = "live" THEN "freed" ELSE stmt[h].driver
    <3>2. stmt' = [stmt EXCEPT ![h] = [stmt[h] EXCEPT !.driver = driver, !.hstmt = FALSE, !.data = "deleted"]]
      BY <3>1 DEF QueryFrees
    <3>3. h \in Handles => stmt[h] \in StmtType /\ driver \in {"none", "live", "freed"}
      BY StmtField DEF TypeOK
    <3>4. misuse' \subseteq Misuses
      BY <3>1, MisuseType DEF QueryFrees, TypeOK
    <3> HIDE DEF h, driver
    <3>5. h \in Handles => [stmt[h] EXCEPT !.driver = driver, !.hstmt = FALSE, !.data = "deleted"] \in StmtType
      BY <3>3 DEF StmtType
    <3> QED
      BY <3>2, <3>4, <3>5, StmtTypes
  <2>2. CASE call[j].op \in PassingOps \ {"query"}
    <3>1. CatalogForgets(j)
      BY <2>2 DEF WorkerDeleted
    <3>2. stmt' = [stmt EXCEPT ![h] = [stmt[h] EXCEPT !.hstmt = FALSE, !.data = "deleted"]]
      BY <3>1 DEF CatalogForgets
    <3>3. h \in Handles => stmt[h] \in StmtType
      BY StmtField DEF TypeOK
    <3>4. misuse' \subseteq Misuses
      BY <3>1 DEF CatalogForgets, TypeOK
    <3> HIDE DEF h
    <3>5. h \in Handles => [stmt[h] EXCEPT !.hstmt = FALSE, !.data = "deleted"] \in StmtType
      BY <3>3 DEF StmtType
    <3> QED
      BY <3>2, <3>4, <3>5, StmtTypes
  <2>3. CASE call[j].op \notin PassingOps
    BY <2>3 DEF WorkerDeleted, TypeOK, PassingOps
  <2> QED
    BY <2>1, <2>2, <2>3
<1> QED
  BY <1>1, <1>2 DEF WorkerDeleted, TypeOK

LEMMA StepType == TypeOK /\ [Next]_vars => TypeOK'
<1> SUFFICES ASSUME TypeOK, [Next]_vars PROVE TypeOK'
  OBVIOUS
<1>1. CASE UNCHANGED vars
  BY <1>1 DEF TypeOK, vars
<1> QED
  BY <1>1, ProgramType, ThreadType, AnswerType, DeletedType DEF Next

-----------------------------------------------------------------------------
(* Steps of a call: it keeps its names, and the other calls their places.  *)

Steps(j) ==
    /\ \A k \in Calls : /\ call'[k].op = call[k].op
                        /\ call'[k].on = call[k].on
                        /\ call'[k].handle = call[k].handle
    /\ \A k \in Calls \ {j} : call'[k] = call[k]

\* A new call, which is queued.
Asks(j, op, c, h) ==
    /\ call[j].at = "idle"
    /\ call'[j] = [op |-> op, on |-> c, handle |-> h, at |-> "queued", failed |-> FALSE]
    /\ \A k \in Calls \ {j} : call'[k] = call[k]

LEMMA StepForms ==
  ASSUME TypeOK, NEW j \in Calls
  PROVE  /\ \A w : Moves(j, w) => Steps(j) /\ call'[j].at = w /\ call'[j].failed = call[j].failed
         /\ \A f : Ends(j, f) => Steps(j) /\ call'[j].at = "done" /\ call'[j].failed = f
         /\ \A op, c, h : Queue(j, op, c, h) => Asks(j, op, c, h)
<1>1. call \in [Calls -> CallType]
  BY DEF TypeOK
<1>2. ASSUME NEW w, Moves(j, w)
      PROVE  Steps(j) /\ call'[j].at = w /\ call'[j].failed = call[j].failed
  BY <1>1, <1>2 DEF Moves, Steps, CallType
<1>3. ASSUME NEW f, Ends(j, f)
      PROVE  Steps(j) /\ call'[j].at = "done" /\ call'[j].failed = f
  BY <1>1, <1>3 DEF Ends, Steps, CallType
<1>4. ASSUME NEW op, NEW c, NEW h, Queue(j, op, c, h)
      PROVE  Asks(j, op, c, h)
  BY <1>1, <1>4 DEF Queue, Asks
<1> QED
  BY <1>2, <1>3, <1>4

\* What every step of a thread does with names.
UsesKept == \A h \in Handles : stmt'[h].use = stmt[h].use /\ stmt'[h].of = stmt[h].of

\* The worker has got to where workers of its kind get.
WentTo(j) ==
    /\ call[j].at # "idle" /\ call'[j].at # "idle"
    /\ call'[j].at = "connecting" => call[j].op = "connect" /\ mutex' = j
    /\ call'[j].at = "running" => call[j].op \in CreatingOps \ {"createStatement"}
    /\ call'[j].at \in {"closed", "freeing", "deleting"} => Closes(j)
    /\ call'[j].at = "closed" => call[j].op = "closeCursor"
    /\ \A k \in Calls \ {j} : call[k].at = "connecting" => mutex' = mutex

LEMMA NamesStep ==
  ASSUME NamesInv, NEW j \in Calls, Steps(j), UsesKept, WentTo(j)
  PROVE  NamesInv'
<1> SUFFICES ASSUME NEW k \in Calls PROVE Named(k)'
  BY DEF NamesInv
<1>1. /\ call'[k].op = call[k].op /\ call'[k].on = call[k].on /\ call'[k].handle = call[k].handle
      /\ k # j => call'[k] = call[k]
  BY DEF Steps
<1>2. call[k].at # "idle" /\ call[k].op \notin ConnectionOps =>
        call[k].handle \in Handles /\ stmt'[call[k].handle].use = stmt[call[k].handle].use
        /\ stmt'[call[k].handle].of = stmt[call[k].handle].of
  BY DEF NamesInv, Named, UsesKept
<1>3. (Closes(k) /\ call[k].at # "idle") => Closes(k)'
  BY <1>1, <1>2 DEF Closes, ConnectionOps
<1>4. call'[k].at = "idle" <=> call[k].at = "idle"
  BY <1>1 DEF WentTo
<1>5. call[k].op \in CreatingOps \cup StatementOps \cup CursorOps => call[k].op \notin ConnectionOps
  BY DEF CreatingOps, StatementOps, CursorOps, ConnectionOps, PassingOps
<1>6. /\ call'[k].at = "connecting" => call'[k].op = "connect" /\ mutex' = k
      /\ call'[k].at = "running" => call'[k].op \in CreatingOps \ {"createStatement"}
      /\ call'[k].at \in {"closed", "freeing", "deleting"} => Closes(k)'
      /\ call'[k].at = "closed" => call'[k].op = "closeCursor"
  BY <1>1, <1>3, <1>4 DEF WentTo, NamesInv, Named
<1> QED
  BY <1>1, <1>2, <1>4, <1>5, <1>6 DEF NamesInv, Named

\* A new call has its names from the objects it is made on.
LEMMA NamesAsked ==
  ASSUME NamesInv, NEW j \in Calls, NEW op \in Ops, NEW c \in Conns, NEW h,
         Asks(j, op, c, h),
         mutex' = mutex,
         op \in ConnectionOps => h = NoName,
         op \notin ConnectionOps => h \in Handles /\ stmt'[h].of = c,
         op \in CreatingOps => stmt'[h].use = UsedFor(op),
         op \in StatementOps => stmt'[h].use = "statement",
         op \in CursorOps => stmt'[h].use \in {"statement", "cursorQuery"},
         \A k \in Calls : call[k].at # "idle" /\ call[k].op \notin ConnectionOps =>
            /\ stmt'[call[k].handle].use = stmt[call[k].handle].use
            /\ stmt'[call[k].handle].of = stmt[call[k].handle].of
  PROVE  NamesInv'
<1> SUFFICES ASSUME NEW k \in Calls PROVE Named(k)'
  BY DEF NamesInv
<1>1. CASE k = j
  <2>1. /\ call'[k].op = op /\ call'[k].on = c /\ call'[k].handle = h /\ call'[k].at = "queued"
    BY <1>1 DEF Asks
  <2> QED
    BY <2>1 DEF Named
<1>2. CASE k # j
  <2>1. call'[k] = call[k]
    BY <1>2 DEF Asks
  <2>2. call[k].op \in CreatingOps \cup StatementOps \cup CursorOps => call[k].op \notin ConnectionOps
    BY DEF CreatingOps, StatementOps, CursorOps, ConnectionOps, PassingOps
  <2>3. (Closes(k) /\ call[k].at # "idle") => Closes(k)'
    BY <2>1, <2>2 DEF Closes, ConnectionOps
  <2> QED
    BY <2>1, <2>2, <2>3 DEF NamesInv, Named
<1> QED
  BY <1>1, <1>2

\* What is asked for, made and lost by a step of j.
LEMMA MakersStep ==
  ASSUME NamesInv, MakersInv, NEW j \in Calls, Steps(j),
         call[j].at # "idle" /\ call'[j].at # "queued",
         call'[j].at = "connecting" => call[j].at = "queued",
         \A c \in Conns : conn[c].db = "asked" => \/ conn'[c].db = "asked"
                                                  \/ /\ call[j].op = "connect" /\ call[j].on = c
                                                     /\ call[j].at \in {"queued", "connecting"}
                                                     /\ call'[j].at = "done"
  PROVE  MakersInv'
<1> DEFINE Conning(k) == call[k].op = "connect" /\ call[k].at \in {"queued", "connecting"}
           Conning1(k) == call'[k].op = "connect" /\ call'[k].at \in {"queued", "connecting"}
<1>1. \A k \in Calls : /\ call'[k].op = call[k].op /\ call'[k].on = call[k].on
                       /\ call'[k].handle = call[k].handle
                       /\ k # j => call'[k] = call[k]
  BY DEF Steps
<1>2. \A k \in Calls : Conning1(k) => Conning(k)
  BY <1>1
<1>3. \A k, m \in Calls : Conning(k) /\ Conning(m) /\ call[k].on = call[m].on => k = m
  BY DEF MakersInv
<1>4. ASSUME NEW k \in Calls, Conning1(k) PROVE conn'[call'[k].on].db = "asked"
  <2>1. call[k].on \in Conns
    BY <1>2, <1>4 DEF NamesInv, Named
  <2>2. conn[call[k].on].db = "asked"
    BY <1>2, <1>4 DEF MakersInv
  <2>3. CASE k = j
    BY <1>1, <1>4, <2>1, <2>2, <2>3
  <2>4. CASE k # j
    BY <1>1, <1>2, <1>3, <1>4, <2>1, <2>2, <2>4
  <2> QED
    BY <2>3, <2>4
<1>5. \A k, m \in Calls : Conning1(k) /\ Conning1(m) /\ call'[k].on = call'[m].on => k = m
  BY <1>1, <1>2, <1>3
<1>6. \A k, m \in Calls : /\ call'[k].at # "idle" /\ call'[m].at # "idle"
                          /\ call'[k].op \in CreatingOps /\ call'[m].op \in CreatingOps
                          /\ call'[k].handle = call'[m].handle
                          => k = m
  <2>1. \A k \in Calls : call'[k].at # "idle" => call[k].at # "idle"
    BY <1>1
  <2> QED
    BY <1>1, <2>1 DEF MakersInv
<1> QED
  BY <1>4, <1>5, <1>6 DEF MakersInv

\* A new call makes what nothing was.
LEMMA MakersAsked ==
  ASSUME NamesInv, MakersInv, NEW j \in Calls, NEW op \in Ops, NEW c \in Conns, NEW h,
         Asks(j, op, c, h),
         op \in CreatingOps => stmt[h].use = "none",
         op = "connect" => conn[c].db = "none" /\ conn'[c].db = "asked",
         \A d \in Conns : conn[d].db = "asked" => conn'[d].db = "asked"
  PROVE  MakersInv'
<1>1. /\ call'[j].op = op /\ call'[j].on = c /\ call'[j].handle = h /\ call'[j].at = "queued"
      /\ \A k \in Calls : k # j => call'[k] = call[k]
  BY DEF Asks
<1>2. ASSUME NEW k \in Calls, k # j, call[k].at # "idle", call[k].op \in CreatingOps, op \in CreatingOps
      PROVE  call[k].handle # h
  BY <1>2 DEF NamesInv, Named, UsedFor, CreatingOps, PassingOps
<1>3. ASSUME NEW k \in Calls, k # j, call[k].op = "connect", call[k].at \in {"queued", "connecting"}
      PROVE  /\ conn'[call[k].on].db = "asked"
             /\ op = "connect" => call[k].on # c
  <2>1. call[k].on \in Conns /\ conn[call[k].on].db = "asked"
    BY <1>3 DEF NamesInv, Named, MakersInv
  <2> QED
    BY <2>1
<1>4. \A k, m \in Calls : /\ call'[k].at # "idle" /\ call'[m].at # "idle"
                          /\ call'[k].op \in CreatingOps /\ call'[m].op \in CreatingOps
                          /\ call'[k].handle = call'[m].handle
                          => k = m
  BY <1>1, <1>2 DEF MakersInv
<1>5. \A k, m \in Calls : /\ call'[k].op = "connect" /\ call'[k].at \in {"queued", "connecting"}
                          /\ call'[m].op = "connect" /\ call'[m].at \in {"queued", "connecting"}
                          /\ call'[k].on = call'[m].on
                          => k = m
  BY <1>1, <1>3 DEF MakersInv
<1>6. \A k \in Calls : call'[k].op = "connect" /\ call'[k].at \in {"queued", "connecting"} =>
                           conn'[call'[k].on].db = "asked"
  BY <1>1, <1>3
<1> QED
  BY <1>4, <1>5, <1>6 DEF MakersInv

LEMMA LiveStep ==
  ASSUME LiveInv, UsesKept,
         \A h \in Handles : stmt[h].use = "none" => stmt'[h] = stmt[h],
         \A h \in Handles : stmt'[h].driver = "live" => conn'[stmt[h].of].db = "open"
  PROVE  LiveInv'
BY DEF LiveInv, UsesKept

LEMMA PassingStep ==
  ASSUME NamesInv, PassingInv, UsesKept, NEW j \in Calls, Steps(j),
         call[j].at # "idle" /\ call'[j].at # "queued",
         \A h \in Handles : stmt[h].use \in PassingOps /\ stmt'[h].driver = "freed" /\ stmt'[h].hstmt =>
            conn'[stmt[h].of].db \in {"null", "disconnected"},
         \A h \in Handles : stmt[h].use = "query" /\ stmt'[h].driver = "live" =>
            stmt[h].driver = "live" \/ call[j].handle = h,
         \A k \in Calls : call[k].at # "idle" /\ call[k].op \in PassingOps =>
            /\ stmt'[call[k].handle].data = "live"
            /\ call[k].at = "queued" /\ k # j => stmt'[call[k].handle].driver = "none"
  PROVE  PassingInv'
<1>1. \A k \in Calls : /\ call'[k].op = call[k].op
                       /\ call'[k].handle = call[k].handle
                       /\ k # j => call'[k] = call[k]
  BY DEF Steps
<1>2. \A h \in Handles : /\ stmt'[h].use \in PassingOps
                         /\ stmt'[h].driver = "freed" /\ stmt'[h].hstmt
                         => conn'[stmt'[h].of].db \in {"null", "disconnected"}
  BY DEF UsesKept
<1>3. \A h \in Handles : stmt'[h].use = "query" /\ stmt'[h].driver = "live" =>
                           \E k \in Calls : call'[k].handle = h
  BY <1>1 DEF UsesKept, PassingInv
<1>4. \A k \in Calls : call'[k].at # "idle" /\ call'[k].op \in PassingOps =>
         /\ stmt'[call'[k].handle].data = "live"
         /\ call'[k].at = "queued" => stmt'[call'[k].handle].driver = "none"
  BY <1>1
<1> QED
  BY <1>2, <1>3, <1>4 DEF PassingInv

-----------------------------------------------------------------------------
(* What any program keeps.                                                 *)

\* A thread that changes neither a handle nor a connection.
LEMMA StillKeeps ==
  ASSUME AnyInv, NEW j \in Calls, Steps(j), WentTo(j),
         call'[j].at # "queued", call'[j].at = "connecting" => call[j].at = "queued",
         stmt' = stmt, conn' = conn
  PROVE  NamesInv' /\ MakersInv' /\ LiveInv' /\ PassingInv'
<1>1. UsesKept /\ call[j].at # "idle" /\ call'[j].at # "idle"
  BY DEF UsesKept, WentTo
<1>2. NamesInv'
  BY <1>1, NamesStep DEF AnyInv
<1>3. MakersInv'
  BY <1>1, MakersStep DEF AnyInv
<1>4. LiveInv'
  BY <1>1, LiveStep DEF AnyInv, LiveInv
<1>5. PassingInv'
  <2>1. \A k \in Calls : call[k].at # "idle" /\ call[k].op \in PassingOps =>
            /\ stmt'[call[k].handle].data = "live"
            /\ call[k].at = "queued" /\ k # j => stmt'[call[k].handle].driver = "none"
    BY DEF AnyInv, PassingInv
  <2>2. \A h \in Handles : stmt[h].use \in PassingOps /\ stmt'[h].driver = "freed" /\ stmt'[h].hstmt =>
            conn'[stmt[h].of].db \in {"null", "disconnected"}
    BY DEF AnyInv, PassingInv
  <2> QED
    BY <1>1, <2>1, <2>2, PassingStep DEF AnyInv
<1> QED
  BY <1>2, <1>3, <1>4, <1>5

LEMMA UsesKeeps ==
  ASSUME AnyInv, NEW j \in Calls, UsesStatement(j), call[j].at \in {"queued", "running"}
  PROVE  NamesInv' /\ MakersInv' /\ LiveInv' /\ PassingInv'
<1>1. Steps(j) /\ call'[j].at = "done"
  BY StepForms DEF UsesStatement, AnyInv
<1>2. stmt' = stmt /\ conn' = conn /\ mutex' = mutex
  BY DEF UsesStatement
<1>3. WentTo(j)
  BY <1>1, <1>2 DEF WentTo
<1> QED
  BY <1>1, <1>2, <1>3, StillKeeps

\* Connecting changes the connection, of which there is no handle yet.
LEMMA ConnectingKeeps ==
  ASSUME AnyInv, NEW j \in Calls, ConnectBegins(j) \/ ConnectEnds(j)
  PROVE  NamesInv' /\ MakersInv' /\ LiveInv' /\ PassingInv'
<1>1. call[j].op = "connect" /\ call[j].at \in {"queued", "connecting"} /\ stmt' = stmt
  BY DEF ConnectBegins, ConnectEnds, Running
<1>2. call[j].on \in Conns /\ conn[call[j].on].db = "asked"
  BY <1>1 DEF AnyInv, NamesInv, Named, MakersInv
<1>3. /\ Steps(j)
      /\ \/ call'[j].at = "connecting" /\ call[j].at = "queued" /\ mutex' = j /\ conn' = conn
         \/ /\ call'[j].at = "done"
            /\ \E d \in {"lost", "open"} : conn' = [conn EXCEPT ![call[j].on].db = d]
  <2>1. CASE ConnectBegins(j)
    BY <2>1, StepForms DEF ConnectBegins, Running, AnyInv
  <2>2. CASE ConnectEnds(j)
    BY <2>2, StepForms DEF ConnectEnds, AnyInv
  <2> QED
    BY <2>1, <2>2
<1>4. \A k \in Calls \ {j} : call[k].at # "connecting"
  <2>1. \A k \in Calls : call[k].at = "connecting" => mutex = k
    BY DEF AnyInv, NamesInv, Named
  <2>2. mutex = NoCall \/ mutex = j
    BY <2>1 DEF ConnectBegins, ConnectEnds, MutexFree, Running
  <2> QED
    BY <2>1, <2>2, NamesAssumption
<1>5. WentTo(j)
  BY <1>1, <1>3, <1>4 DEF WentTo
<1>6. CASE conn' = conn
  BY <1>1, <1>3, <1>5, <1>6, StillKeeps
<1>7. ASSUME NEW d \in {"lost", "open"}, conn' = [conn EXCEPT ![call[j].on].db = d], call'[j].at = "done"
      PROVE  NamesInv' /\ MakersInv' /\ LiveInv' /\ PassingInv'
  <2>1. UsesKept
    BY <1>1 DEF UsesKept
  <2>2. conn \in [Conns -> ConnType]
    BY DEF AnyInv, TypeOK
  <2>3. \A c \in Conns : c # call[j].on => conn'[c] = conn[c]
    BY <1>7, <2>2
  <2>4. NamesInv'
    BY <1>3, <1>5, <2>1, NamesStep DEF AnyInv
  <2>5. MakersInv'
    BY <1>1, <1>3, <1>7, <2>3, MakersStep DEF AnyInv
  <2>6. \A h \in Handles : stmt[h].driver = "live" => conn'[stmt[h].of].db = "open"
    <3> SUFFICES ASSUME NEW h \in Handles, stmt[h].driver = "live"
                 PROVE  conn'[stmt[h].of].db = "open"
      OBVIOUS
    <3>1. conn[stmt[h].of].db = "open" /\ (stmt[h].use = "none" => stmt[h] = NoStmt)
      BY DEF AnyInv, LiveInv
    <3>2. stmt[h].of \in Conns
      BY <3>1 DEF AnyInv, LiveInv, NoStmt
    <3> QED
      BY <1>2, <2>3, <3>1, <3>2
  <2>7. LiveInv'
    BY <1>1, <2>1, <2>6, LiveStep DEF AnyInv
  <2>8. \A h \in Handles : stmt[h].use \in PassingOps /\ stmt[h].driver = "freed" /\ stmt[h].hstmt =>
            conn'[stmt[h].of].db \in {"null", "disconnected"}
    <3> SUFFICES ASSUME NEW h \in Handles, stmt[h].use \in PassingOps, stmt[h].driver = "freed", stmt[h].hstmt
                 PROVE  conn'[stmt[h].of].db \in {"null", "disconnected"}
      OBVIOUS
    <3>1. conn[stmt[h].of].db \in {"null", "disconnected"} /\ stmt[h].of \in Conns
      BY DEF AnyInv, PassingInv, LiveInv, PassingOps
    <3> QED
      BY <1>2, <2>3, <3>1
  <2>9. PassingInv'
    <3>1. \A k \in Calls : call[k].at # "idle" /\ call[k].op \in PassingOps =>
            /\ stmt'[call[k].handle].data = "live"
            /\ call[k].at = "queued" /\ k # j => stmt'[call[k].handle].driver = "none"
      BY <1>1 DEF AnyInv, PassingInv
    <3> QED
      BY <1>1, <1>3, <1>7, <2>1, <2>8, <3>1, PassingStep DEF AnyInv
  <2> QED
    BY <2>4, <2>5, <2>7, <2>9
<1> QED
  BY <1>3, <1>6, <1>7

\* Nobody but its worker knows of a handle without an object.
LEMMA SoleUser ==
  ASSUME AnyInv, NEW j \in Calls, NEW k \in Calls,
         call[j].at # "idle", call[j].op \in PassingOps,
         call[k].at # "idle", call[k].handle = call[j].handle
  PROVE  k = j
<1>1. /\ call[j].op \in CreatingOps /\ call[j].op \notin ConnectionOps /\ UsedFor(call[j].op) = call[j].op
      /\ call[j].op \notin {"statement", "cursorQuery"}
  BY DEF CreatingOps, ConnectionOps, PassingOps, UsedFor
<1>2. call[j].handle \in Handles /\ stmt[call[j].handle].use = call[j].op
  BY <1>1 DEF AnyInv, NamesInv, Named
<1>3. call[k].op \in CreatingOps
  <2>1. call[k].op \in Ops /\ call[k].op \notin ConnectionOps
    BY <1>2, NamesAssumption DEF AnyInv, NamesInv, Named
  <2>2. call[k].op \notin StatementOps \cup CursorOps
    BY <1>1, <1>2 DEF AnyInv, NamesInv, Named
  <2> QED
    BY <2>1, <2>2 DEF Ops
<1> QED
  BY <1>1, <1>3 DEF AnyInv, MakersInv

\* A step that changes the handle of its call, and no connection but its reference.
LEMMA HandleKeeps ==
  ASSUME AnyInv, NEW j \in Calls, Steps(j), WentTo(j), UsesKept,
         call'[j].at \notin {"queued", "connecting"},
         \A c \in Conns : conn'[c].db = conn[c].db,
         \A h \in Handles : h # call[j].handle => stmt'[h] = stmt[h],
         stmt'[call[j].handle].driver = "live" =>
            stmt[call[j].handle].driver = "live" \/ conn[call[j].on].db = "open",
         /\ stmt[call[j].handle].use \in PassingOps
         /\ stmt'[call[j].handle].driver = "freed" /\ stmt'[call[j].handle].hstmt
         => stmt[call[j].handle].driver = "freed" /\ stmt[call[j].handle].hstmt,
         call[j].op \in PassingOps => stmt'[call[j].handle].data = "live"
  PROVE  NamesInv' /\ MakersInv' /\ LiveInv' /\ PassingInv'
<1> DEFINE mine == call[j].handle
<1>1. call[j].at # "idle" /\ call'[j].at # "idle"
  BY DEF WentTo
<1>2. mine \in Handles => stmt[mine].of = call[j].on /\ stmt[mine].use # "none"
  <2>1. call[j].op \notin ConnectionOps => stmt[mine].of = call[j].on /\ stmt[mine].use # "none"
    BY <1>1 DEF AnyInv, NamesInv, Named, Ops, CreatingOps, PassingOps, UsedFor
  <2>2. mine \in Handles => call[j].op \notin ConnectionOps
    BY <1>1, NamesAssumption DEF AnyInv, NamesInv, Named
  <2> QED
    BY <2>1, <2>2
<1>3. NamesInv'
  BY NamesStep DEF AnyInv
<1>4. MakersInv'
  <2>1. \A c \in Conns : conn[c].db = "asked" => conn'[c].db = "asked"
    OBVIOUS
  <2> QED
    BY <1>1, <2>1, MakersStep DEF AnyInv
<1>5. \A h \in Handles : stmt[h].use # "none" => stmt[h].of \in Conns /\ conn'[stmt[h].of].db = conn[stmt[h].of].db
  BY DEF AnyInv, LiveInv
<1>6. LiveInv'
  <2>1. ASSUME NEW h \in Handles, stmt[h].use = "none" PROVE stmt'[h] = stmt[h]
    BY <1>2, <2>1
  <2>2. ASSUME NEW h \in Handles, stmt'[h].driver = "live" PROVE conn'[stmt[h].of].db = "open"
    <3>1. CASE h = mine
      <4>1. conn[stmt[h].of].db = "open"
        BY <1>2, <2>2, <3>1 DEF AnyInv, LiveInv
      <4> QED
        BY <1>2, <1>5, <3>1, <4>1
    <3>2. CASE h # mine
      <4>1. stmt[h].driver = "live"
        BY <2>2, <3>2
      <4>2. stmt[h].use # "none"
        BY <4>1 DEF AnyInv, LiveInv, NoStmt
      <4> QED
        BY <1>5, <4>1, <4>2 DEF AnyInv, LiveInv
    <3> QED
      BY <3>1, <3>2
  <2> QED
    BY <2>1, <2>2, LiveStep DEF AnyInv
<1>7. PassingInv'
  <2>1. ASSUME NEW h \in Handles, stmt[h].use \in PassingOps, stmt'[h].driver = "freed", stmt'[h].hstmt
        PROVE  conn'[stmt[h].of].db \in {"null", "disconnected"}
    <3>1. stmt[h].driver = "freed" /\ stmt[h].hstmt
      BY <2>1
    <3>2. stmt[h].use # "none"
      BY <2>1 DEF PassingOps
    <3> QED
      BY <1>5, <2>1, <3>1, <3>2 DEF AnyInv, PassingInv
  <2>2. ASSUME NEW h \in Handles, stmt[h].use = "query", stmt'[h].driver = "live"
        PROVE  stmt[h].driver = "live" \/ call[j].handle = h
    BY <2>2
  <2>3. ASSUME NEW k \in Calls, call[k].at # "idle", call[k].op \in PassingOps
        PROVE  /\ stmt'[call[k].handle].data = "live"
               /\ call[k].at = "queued" /\ k # j => stmt'[call[k].handle].driver = "none"
    <3>1. CASE k = j
      BY <2>3, <3>1
    <3>2. CASE k # j
      <4>1. call[k].handle # mine
        BY <1>1, <2>3, <3>2, SoleUser
      <4>2. call[k].handle \in Handles
        BY <2>3 DEF AnyInv, NamesInv, Named, PassingOps, ConnectionOps
      <4>3. stmt'[call[k].handle] = stmt[call[k].handle]
        BY <4>1, <4>2
      <4> QED
        BY <2>3, <4>3 DEF AnyInv, PassingInv
    <3> QED
      BY <3>1, <3>2
  <2> QED
    BY <1>1, <2>1, <2>2, <2>3, PassingStep DEF AnyInv
<1> QED
  BY <1>3, <1>4, <1>6, <1>7

\* Closing takes along the statements of the connection, which is closed then.
LEMMA CloseKeeps ==
  ASSUME AnyInv, NEW j \in Calls, CloseConnection(j)
  PROVE  NamesInv' /\ MakersInv' /\ LiveInv' /\ PassingInv'
<1> DEFINE c == call[j].on
<1>1. /\ call[j].op = "closeConnection" /\ call[j].at = "queued"
      /\ mutex' = mutex
  BY DEF CloseConnection, Running
<1>2. c \in Conns /\ conn \in [Conns -> ConnType] /\ stmt \in [Handles -> StmtType]
  BY <1>1 DEF AnyInv, NamesInv, Named, TypeOK
<1>3. Steps(j) /\ call'[j].at = "done"
  BY StepForms DEF CloseConnection, AnyInv
<1>4. WentTo(j)
  BY <1>1, <1>3 DEF WentTo
<1>5. CASE stmt' = stmt /\ conn' = conn
  BY <1>3, <1>4, <1>5, StillKeeps
<1>6. ASSUME NEW d \in {"disconnected", "null"}, conn' = [conn EXCEPT ![c].db = d],
             conn[c].db = "open", FreeStatementsOf(c)
      PROVE  NamesInv' /\ MakersInv' /\ LiveInv' /\ PassingInv'
  <2>1. \A h \in Handles : /\ stmt'[h].use = stmt[h].use /\ stmt'[h].of = stmt[h].of
                           /\ stmt'[h].hstmt = stmt[h].hstmt /\ stmt'[h].data = stmt[h].data
                           /\ stmt'[h] = stmt[h] \/ (stmt[h].of = c /\ stmt[h].driver = "live" /\ stmt'[h].driver = "freed")
                           /\ stmt[h].of = c => stmt'[h].driver # "live"
    BY <1>2, <1>6 DEF FreeStatementsOf, StmtType
  <2>2. conn'[c].db = d /\ \A b \in Conns : b # c => conn'[b] = conn[b]
    BY <1>2, <1>6 DEF ConnType
  <2> HIDE DEF c
  <2>3. UsesKept
    BY <2>1 DEF UsesKept
  <2>4. NamesInv'
    BY <1>3, <1>4, <2>3, NamesStep DEF AnyInv
  <2>5. MakersInv'
    BY <1>1, <1>3, <1>6, <2>2, MakersStep DEF AnyInv
  <2>6. LiveInv'
    <3>1. ASSUME NEW h \in Handles, stmt[h].use = "none" PROVE stmt'[h] = stmt[h]
      BY <2>1, <3>1 DEF AnyInv, LiveInv, NoStmt
    <3>2. ASSUME NEW h \in Handles, stmt'[h].driver = "live" PROVE conn'[stmt[h].of].db = "open"
      <4>1. stmt[h].driver = "live" /\ stmt[h].of # c
        BY <2>1, <3>2
      <4>2. stmt[h].of \in Conns /\ conn[stmt[h].of].db = "open"
        BY <4>1 DEF AnyInv, LiveInv, NoStmt
      <4> QED
        BY <2>2, <4>1, <4>2
    <3> QED
      BY <2>3, <3>1, <3>2, LiveStep DEF AnyInv
  <2>7. PassingInv'
    <3>1. ASSUME NEW h \in Handles, stmt[h].use \in PassingOps, stmt'[h].driver = "freed", stmt'[h].hstmt
          PROVE  conn'[stmt[h].of].db \in {"null", "disconnected"}
      <4>1. stmt[h].of \in Conns
        BY <3>1 DEF AnyInv, LiveInv, PassingOps
      <4>2. stmt[h].of # c => conn[stmt[h].of].db \in {"null", "disconnected"}
        BY <2>1, <3>1 DEF AnyInv, PassingInv
      <4> QED
        BY <1>6, <2>2, <4>1, <4>2
    <3>2. ASSUME NEW k \in Calls, call[k].at # "idle", call[k].op \in PassingOps
          PROVE  /\ stmt'[call[k].handle].data = "live"
                 /\ call[k].at = "queued" /\ k # j => stmt'[call[k].handle].driver = "none"
      <4>1. call[k].handle \in Handles
        BY <3>2 DEF AnyInv, NamesInv, Named, PassingOps, ConnectionOps
      <4> QED
        BY <2>1, <3>2, <4>1 DEF AnyInv, PassingInv
    <3>3. \A h \in Handles : stmt'[h].driver = "live" => stmt[h].driver = "live"
      BY <2>1
    <3> QED
      BY <1>1, <1>3, <2>3, <3>1, <3>2, <3>3, PassingStep DEF AnyInv
  <2> QED
    BY <2>4, <2>5, <2>6, <2>7
<1>7. \/ stmt' = stmt /\ conn' = conn
      \/ /\ conn[c].db = "open" /\ FreeStatementsOf(c)
         /\ \E d \in {"disconnected", "null"} : conn' = [conn EXCEPT ![c].db = d]
  BY DEF CloseConnection
<1> QED
  BY <1>5, <1>6, <1>7

\* A handle is only made of an open connection.
LEMMA AllocKeeps ==
  ASSUME AnyInv, NEW j \in Calls, CreateStatement(j) \/ QueryBegins(j) \/ CatalogBegins(j)
  PROVE  NamesInv' /\ MakersInv' /\ LiveInv' /\ PassingInv'
<1> DEFINE mine == call[j].handle
<1>1. /\ call[j].op \in CreatingOps /\ call[j].at = "queued"
      /\ mutex' = mutex /\ conn' = conn
  BY DEF CreateStatement, QueryBegins, CatalogBegins, Running, CreatingOps, PassingOps
<1>2. mine \in Handles /\ stmt \in [Handles -> StmtType]
  BY <1>1 DEF AnyInv, NamesInv, Named, TypeOK, CreatingOps, PassingOps, ConnectionOps
<1>3. /\ Steps(j)
      /\ call'[j].at \in {"running", "done"}
      /\ call'[j].at = "running" => call[j].op # "createStatement"
  <2>1. CASE CreateStatement(j)
    BY <2>1, StepForms DEF CreateStatement, AnyInv
  <2>2. CASE QueryBegins(j) \/ CatalogBegins(j)
    BY <2>2, StepForms DEF QueryBegins, CatalogBegins, AnyInv, Running
  <2> QED
    BY <2>1, <2>2
<1>4. WentTo(j)
  BY <1>1, <1>3 DEF WentTo
<1>5. CASE stmt' = stmt
  BY <1>1, <1>3, <1>4, <1>5, StillKeeps
<1>6. CASE /\ conn[call[j].on].db = "open"
           /\ \/ stmt' = [stmt EXCEPT ![mine].driver = "live"]
              \/ stmt' = [stmt EXCEPT ![mine].driver = "live", ![mine].hstmt = TRUE]
  <2>1. /\ \A h \in Handles : h # mine => stmt'[h] = stmt[h]
        /\ stmt'[mine].use = stmt[mine].use /\ stmt'[mine].of = stmt[mine].of
        /\ stmt'[mine].data = stmt[mine].data /\ stmt'[mine].driver = "live"
    BY <1>2, <1>6 DEF StmtType
  <2>2. UsesKept
    BY <2>1 DEF UsesKept
  <2>3. call[j].op \in PassingOps => stmt'[mine].data = "live"
    BY <1>1, <2>1 DEF AnyInv, PassingInv
  <2> QED
    BY <1>1, <1>3, <1>4, <1>6, <2>1, <2>2, <2>3, HandleKeeps
<1>7. \/ stmt' = stmt
      \/ /\ conn[call[j].on].db = "open"
         /\ \/ stmt' = [stmt EXCEPT ![mine].driver = "live"]
            \/ stmt' = [stmt EXCEPT ![mine].driver = "live", ![mine].hstmt = TRUE]
  BY DEF CreateStatement, QueryBegins, CatalogBegins, AllocMayFail
<1> QED
  BY <1>5, <1>6, <1>7

\* What closes is a call on an object.
LEMMA ClosesObject ==
  ASSUME AnyInv, NEW j \in Calls, call[j].at # "idle", Closes(j)
  PROVE  /\ call[j].op \notin PassingOps /\ call[j].handle \in Handles
         /\ stmt[call[j].handle].use \in {"statement", "cursorQuery"}
         /\ stmt[call[j].handle].use \notin PassingOps
<1>1. call[j].op \in {"closeStatement", "closeCursor"}
  BY DEF Closes
<1>2. /\ call[j].op \in StatementOps \cup CursorOps /\ call[j].op \notin ConnectionOps
      /\ call[j].op \notin PassingOps
  BY <1>1 DEF StatementOps, CursorOps, ConnectionOps, PassingOps
<1>3. call[j].handle \in Handles /\ stmt[call[j].handle].use \in {"statement", "cursorQuery"}
  BY <1>2 DEF AnyInv, NamesInv, Named
<1> QED
  BY <1>2, <1>3 DEF PassingOps

LEMMA FreesKeep ==
  ASSUME AnyInv, NEW j \in Calls, CloseCursor(j) \/ FreeBegins(j) \/ FreeHandle(j) \/ FreeData(j)
  PROVE  NamesInv' /\ MakersInv' /\ LiveInv' /\ PassingInv'
<1> DEFINE mine == call[j].handle
<1>1. /\ call[j].at \in {"queued", "closed", "freeing", "deleting"}
      /\ mutex' = mutex /\ conn' = conn
  BY DEF CloseCursor, FreeBegins, FreeHandle, FreeData, Running
<1>2. CASE CloseCursor(j)
  <2>1. /\ Steps(j) /\ call'[j].at \in {"done", "closed"} /\ call[j].op = "closeCursor"
        /\ call'[j].at = "closed" => Closes(j)
        /\ stmt' = stmt
    BY <1>2, StepForms DEF CloseCursor, AnyInv, Running, Closes
  <2>2. WentTo(j)
    BY <1>1, <2>1 DEF WentTo
  <2> QED
    BY <1>1, <2>1, <2>2, StillKeeps
<1>3. CASE FreeBegins(j)
  <2>1. Closes(j)
    BY <1>3 DEF FreeBegins, Running, AnyInv, NamesInv, Named, Closes
  <2>2. Steps(j) /\ call'[j].at \in {"done", "freeing", "deleting"} /\ stmt' = stmt
    BY <1>3, StepForms DEF FreeBegins, AnyInv
  <2>3. WentTo(j)
    BY <1>1, <2>1, <2>2 DEF WentTo
  <2> QED
    BY <1>1, <2>2, <2>3, StillKeeps
<1>4. CASE FreeHandle(j) \/ FreeData(j)
  <2>1. call[j].at \in {"freeing", "deleting"}
    BY <1>4 DEF FreeHandle, FreeData
  <2>2. Closes(j)
    BY <2>1 DEF AnyInv, NamesInv, Named
  <2>3. /\ call[j].op \notin PassingOps /\ mine \in Handles
        /\ stmt[mine].use \notin PassingOps
    BY <2>1, <2>2, ClosesObject
  <2>4. Steps(j) /\ call'[j].at \in {"deleting", "done"}
    <3>1. CASE FreeHandle(j)
      <4>1. call \in [Calls -> CallType] /\ call[j] \in CallType
        BY DEF AnyInv, TypeOK
      <4>2. PICK f : call' = [call EXCEPT ![j].at = "deleting", ![j].failed = f]
        BY <3>1 DEF FreeHandle
      <4>3. \A k \in Calls \ {j} : call'[k] = call[k]
        BY <4>1, <4>2
      <4>4. /\ call'[j].at = "deleting" /\ call'[j].op = call[j].op
            /\ call'[j].on = call[j].on /\ call'[j].handle = call[j].handle
        BY <4>1, <4>2 DEF CallType
      <4> QED
        BY <4>3, <4>4 DEF Steps
    <3>2. CASE FreeData(j)
      BY <3>2, StepForms DEF FreeData, AnyInv
    <3> QED
      BY <1>4, <3>1, <3>2
  <2>5. WentTo(j)
    BY <1>1, <2>2, <2>4 DEF WentTo
  <2>6. /\ \A h \in Handles : h # mine => stmt'[h] = stmt[h]
        /\ stmt'[mine].use = stmt[mine].use /\ stmt'[mine].of = stmt[mine].of
        /\ stmt'[mine].driver \in {stmt[mine].driver, "freed"}
    <3>1. stmt \in [Handles -> StmtType]
      BY DEF AnyInv, TypeOK
    <3>2. CASE FreeHandle(j)
      BY <2>3, <3>1, <3>2 DEF FreeHandle, StmtType
    <3>3. CASE FreeData(j)
      BY <2>3, <3>1, <3>3 DEF FreeData, StmtType
    <3> QED
      BY <1>4, <3>2, <3>3
  <2>7. UsesKept
    BY <2>6 DEF UsesKept
  <2> QED
    BY <1>1, <2>3, <2>4, <2>5, <2>6, <2>7, HandleKeeps
<1> QED
  BY <1>2, <1>3, <1>4

LEMMA ThreadKeeps ==
  ASSUME AnyInv, NEW j \in Calls, Thread(j)
  PROVE  NamesInv' /\ MakersInv' /\ LiveInv' /\ PassingInv'
<1>1. CASE QueryRuns(j) \/ ProcedureRuns(j) \/ CatalogRuns(j) \/ PrepareRuns(j) \/ BindRuns(j)
           \/ ExecuteRuns(j) \/ FetchRuns(j)
  <2>1. UsesStatement(j) /\ call[j].at \in {"queued", "running"}
    BY <1>1 DEF QueryRuns, ProcedureRuns, CatalogRuns, PrepareRuns, BindRuns, ExecuteRuns, FetchRuns, Running
  <2> QED
    BY <2>1, UsesKeeps
<1> QED
  BY <1>1, ConnectingKeeps, CloseKeeps, AllocKeeps, FreesKeep DEF Thread

\* What a call that is not about a connection has a handle for.
LEMMA NamedHandle ==
  ASSUME AnyInv, NEW j \in Calls, call[j].at # "idle"
  PROVE  /\ call[j].op \notin ConnectionOps => /\ call[j].handle \in Handles
                                               /\ stmt[call[j].handle].of = call[j].on
                                               /\ stmt[call[j].handle].use # "none"
         /\ call[j].handle \in Handles => call[j].op \in CreatingOps \cup StatementOps \cup CursorOps
         /\ call[j].handle \in Handles /\ stmt[call[j].handle].use \in PassingOps =>
               call[j].op = stmt[call[j].handle].use
<1>1. call[j].op \notin ConnectionOps => /\ call[j].handle \in Handles
                                         /\ stmt[call[j].handle].of = call[j].on
                                         /\ stmt[call[j].handle].use # "none"
  BY DEF AnyInv, NamesInv, Named, Ops, CreatingOps, PassingOps, UsedFor
<1>2. call[j].handle \in Handles => call[j].op \in CreatingOps \cup StatementOps \cup CursorOps
  BY NamesAssumption DEF AnyInv, NamesInv, Named, Ops
<1>3. call[j].handle \in Handles /\ stmt[call[j].handle].use \in PassingOps =>
        call[j].op = stmt[call[j].handle].use
  BY <1>2 DEF AnyInv, NamesInv, Named, UsedFor, PassingOps
<1> QED
  BY <1>1, <1>2, <1>3

\* What an answer sets in an object over a handle.
LEMMA OutcomeKeeps ==
  ASSUME AnyInv, NEW h \in Handles, NEW op
  PROVE  /\ Outcome(h, op).use = stmt[h].use /\ Outcome(h, op).of = stmt[h].of
         /\ Outcome(h, op).driver = stmt[h].driver
         /\ op # "createStatement" => Outcome(h, op).hstmt = stmt[h].hstmt /\ Outcome(h, op).data = stmt[h].data
         /\ op = "createStatement" => /\ Outcome(h, op).hstmt /\ Outcome(h, op).data = "live"
                                      /\ Outcome(h, op).wrapper
<1> DEFINE s == stmt[h]
<1>1. s \in StmtType
  BY DEF AnyInv, TypeOK
<1>2. Outcome(h, op) \in {[s EXCEPT !.hstmt = TRUE, !.data = "live", !.wrapper = TRUE],
                          [s EXCEPT !.wrapper = TRUE], [s EXCEPT !.wrapper = FALSE],
                          [s EXCEPT !.cursor = TRUE],
                          [s EXCEPT !.wrapper = s.wrapper /\ s.use = "statement", !.cursor = FALSE], s}
  BY DEF Outcome
<1>3. op = "createStatement" => Outcome(h, op) = [s EXCEPT !.hstmt = TRUE, !.data = "live", !.wrapper = TRUE]
  BY DEF Outcome
<1>4. op # "createStatement" => Outcome(h, op) \in {[s EXCEPT !.wrapper = TRUE], [s EXCEPT !.wrapper = FALSE],
                          [s EXCEPT !.cursor = TRUE],
                          [s EXCEPT !.wrapper = s.wrapper /\ s.use = "statement", !.cursor = FALSE], s}
  BY DEF Outcome
<1> HIDE DEF s
<1>5. CASE op = "createStatement"
  BY <1>1, <1>3, <1>5 DEF StmtType, s
<1>6. CASE op # "createStatement"
  BY <1>1, <1>4, <1>6 DEF StmtType, s
<1> QED
  BY <1>5, <1>6

LEMMA AnswerKeeps ==
  ASSUME AnyInv, NEW j \in Calls, Answer(j)
  PROVE  NamesInv' /\ MakersInv' /\ LiveInv' /\ PassingInv'
<1> DEFINE mine == call[j].handle
<1>1. /\ Steps(j) /\ call'[j].at = "answered" /\ call[j].at = "done" /\ mutex' = mutex
  BY StepForms DEF Answer, AnyInv
<1>2. WentTo(j)
  BY <1>1 DEF WentTo
<1>3. \A c \in Conns : conn'[c].db = conn[c].db
  <2>1. conn \in [Conns -> ConnType]
    BY DEF AnyInv, TypeOK
  <2> QED
    BY <2>1 DEF Answer, ConnType
<1>4. \/ stmt' = stmt
      \/ mine \in Handles /\ stmt' = [stmt EXCEPT ![mine] = Outcome(mine, call[j].op)]
  <2>1. mine # NoName => mine \in Handles
    BY <1>1 DEF AnyInv, NamesInv, Named
  <2> QED
    BY <2>1 DEF Answer
<1>5. /\ \A h \in Handles : h # mine => stmt'[h] = stmt[h]
      /\ stmt'[mine].use = stmt[mine].use /\ stmt'[mine].of = stmt[mine].of
      /\ stmt'[mine].driver = stmt[mine].driver
      /\ call[j].op # "createStatement" => stmt'[mine].hstmt = stmt[mine].hstmt /\ stmt'[mine].data = stmt[mine].data
  <2>1. CASE stmt' = stmt
    BY <2>1
  <2>2. CASE mine \in Handles /\ stmt' = [stmt EXCEPT ![mine] = Outcome(mine, call[j].op)]
    <3>1. stmt \in [Handles -> StmtType]
      BY DEF AnyInv, TypeOK
    <3>2. stmt'[mine] = Outcome(mine, call[j].op) /\ \A h \in Handles : h # mine => stmt'[h] = stmt[h]
      BY <2>2, <3>1
    <3> QED
      BY <2>2, <3>2, OutcomeKeeps
  <2> QED
    BY <1>4, <2>1, <2>2
<1>6. call[j].op = "createStatement" => stmt[mine].use \notin PassingOps
  BY <1>1 DEF AnyInv, NamesInv, Named, UsedFor, CreatingOps, PassingOps
<1>7. call[j].op \in PassingOps => stmt'[mine].data = "live"
  BY <1>1, <1>5 DEF AnyInv, PassingInv, PassingOps
<1>8. UsesKept
  BY <1>5 DEF UsesKept
<1> QED
  BY <1>1, <1>2, <1>3, <1>5, <1>6, <1>7, <1>8, HandleKeeps

\* The end of a worker: the handle of a query goes with it, unless its connection
\* took it along.
LEMMA DeletedKeeps ==
  ASSUME AnyInv, NEW j \in Calls, WorkerDeleted(j)
  PROVE  NamesInv' /\ MakersInv' /\ LiveInv' /\ PassingInv'
<1> DEFINE mine == call[j].handle
<1>1. /\ call'[j] = Idle /\ \A k \in Calls \ {j} : call'[k] = call[k]
      /\ mutex' = mutex /\ conn' = conn
  <2>1. call \in [Calls -> CallType] /\ call' = [call EXCEPT ![j] = Idle]
    BY DEF WorkerDeleted, AnyInv, TypeOK
  <2> QED
    BY <2>1 DEF WorkerDeleted
<1>2. \A k \in Calls : call'[k].at # "idle" => call[k].at # "idle" /\ k # j /\ call'[k] = call[k]
  BY <1>1 DEF Idle
<1>3. /\ call'[j].at = "idle" /\ call'[j].handle = NoName
  BY <1>1 DEF Idle
<1>4. /\ \A h \in Handles : h # mine \/ call[j].op \notin PassingOps => stmt'[h] = stmt[h]
      /\ mine \in Handles /\ call[j].op \in PassingOps =>
            /\ stmt'[mine].use = stmt[mine].use /\ stmt'[mine].of = stmt[mine].of
            /\ ~stmt'[mine].hstmt
            /\ stmt'[mine].driver \in {stmt[mine].driver, "freed"}
            /\ call[j].op = "query" /\ stmt[mine].driver = "live" /\ conn[call[j].on].db # "null" =>
                  stmt'[mine].driver = "freed"
  <2>1. stmt \in [Handles -> StmtType]
    BY DEF AnyInv, TypeOK
  <2>2. CASE call[j].op = "query"
    <3>1. QueryFrees(j)
      BY <2>2 DEF WorkerDeleted
    <3> QED
      BY <2>1, <2>2, <3>1 DEF QueryFrees, StmtType, PassingOps
  <2>3. CASE call[j].op \in PassingOps \ {"query"}
    <3>1. CatalogForgets(j)
      BY <2>3 DEF WorkerDeleted
    <3> QED
      BY <2>1, <2>3, <3>1 DEF CatalogForgets, StmtType
  <2>4. CASE call[j].op \notin PassingOps
    BY <2>4 DEF WorkerDeleted, PassingOps
  <2> QED
    BY <2>2, <2>3, <2>4
<1> DEFINE active == call[j].at # "idle"
<1>5. mine \in Handles => active
  BY NamesAssumption DEF AnyInv, NamesInv, Named
<1>6. UsesKept
  BY <1>4 DEF UsesKept
<1>7. NamesInv'
  <2> SUFFICES ASSUME NEW k \in Calls PROVE Named(k)'
    BY DEF NamesInv
  <2>0. CASE call'[k].at = "idle"
    <3>1. call'[k].handle = NoName
      BY <1>1, <1>3, <2>0 DEF AnyInv, NamesInv, Named
    <3> QED
      BY <2>0, <3>1 DEF Named
  <2> SUFFICES ASSUME call'[k].at # "idle" PROVE Named(k)'
    BY <2>0
  <2>1. call'[k] = call[k] /\ call[k].at # "idle"
    BY <1>2
  <2>2. call[k].op \notin ConnectionOps =>
          call[k].handle \in Handles /\ stmt'[call[k].handle].use = stmt[call[k].handle].use
          /\ stmt'[call[k].handle].of = stmt[call[k].handle].of
    BY <1>6, <2>1, NamedHandle DEF UsesKept
  <2>3. Closes(k) => Closes(k)'
    BY <2>1, <2>2 DEF Closes, ConnectionOps
  <2>4. call[k].op \in CreatingOps \cup StatementOps \cup CursorOps => call[k].op \notin ConnectionOps
    BY DEF CreatingOps, StatementOps, CursorOps, ConnectionOps, PassingOps
  <2> QED
    BY <1>1, <2>1, <2>2, <2>3, <2>4 DEF AnyInv, NamesInv, Named
<1>8. MakersInv'
  <2>1. \A k, m \in Calls : /\ call'[k].at # "idle" /\ call'[m].at # "idle"
                            /\ call'[k].op \in CreatingOps /\ call'[m].op \in CreatingOps
                            /\ call'[k].handle = call'[m].handle
                            => k = m
    BY <1>2 DEF AnyInv, MakersInv
  <2>2. \A k \in Calls : call'[k].op = "connect" /\ call'[k].at \in {"queued", "connecting"} =>
           call'[k] = call[k]
    BY <1>2
  <2> QED
    BY <1>1, <2>1, <2>2 DEF AnyInv, MakersInv
<1>9. LiveInv'
  <2>1. ASSUME NEW h \in Handles, stmt[h].use = "none" PROVE stmt'[h] = stmt[h]
    <3>1. mine # h \/ call[j].op \notin PassingOps
      BY <1>5, <2>1, NamedHandle DEF PassingOps, ConnectionOps
    <3> QED
      BY <1>4, <3>1
  <2>2. \A h \in Handles : stmt'[h].driver = "live" => stmt[h].driver = "live"
    BY <1>4
  <2> QED
    BY <1>1, <1>6, <2>1, <2>2, LiveStep DEF AnyInv, LiveInv
<1>10. PassingInv'
  <2>1. ASSUME NEW h \in Handles, stmt'[h].use \in PassingOps, stmt'[h].driver = "freed", stmt'[h].hstmt
        PROVE  conn'[stmt'[h].of].db \in {"null", "disconnected"}
    <3>1. stmt'[h] = stmt[h]
      BY <1>4, <2>1
    <3> QED
      BY <1>1, <2>1, <3>1 DEF AnyInv, PassingInv
  <2>2. ASSUME NEW h \in Handles, stmt'[h].use = "query", stmt'[h].driver = "live"
        PROVE  \E k \in Calls : call'[k].handle = h
    <3>1. stmt[h].use = "query" /\ stmt[h].driver = "live"
      BY <1>4, <1>6, <2>2 DEF UsesKept
    <3>2. PICK k \in Calls : call[k].handle = h
      BY <3>1 DEF AnyInv, PassingInv
    <3>3. k # j
      <4> SUFFICES ASSUME k = j PROVE FALSE
        OBVIOUS
      <4>1. call[j].op = "query" /\ stmt[mine].of = call[j].on
        BY <1>5, <3>1, <3>2, NamedHandle DEF PassingOps, ConnectionOps
      <4>2. conn[call[j].on].db = "open"
        BY <3>1, <3>2, <4>1 DEF AnyInv, LiveInv
      <4> QED
        BY <1>4, <2>2, <3>1, <3>2, <4>1, <4>2 DEF PassingOps
    <3> QED
      BY <1>1, <3>2, <3>3
  <2>3. ASSUME NEW k \in Calls, call'[k].at # "idle", call'[k].op \in PassingOps
        PROVE  /\ stmt'[call'[k].handle].data = "live"
               /\ call'[k].at = "queued" => stmt'[call'[k].handle].driver = "none"
    <3>1. call'[k] = call[k] /\ call[k].at # "idle" /\ k # j
      BY <1>2, <2>3
    <3>2. call[k].handle \in Handles
      BY <2>3, <3>1, NamedHandle DEF PassingOps, ConnectionOps
    <3>3. call[j].op \in PassingOps => call[k].handle # mine
      BY <1>5, <3>1, <3>2, SoleUser
    <3>4. stmt'[call[k].handle] = stmt[call[k].handle]
      BY <1>4, <3>2, <3>3
    <3> QED
      BY <2>3, <3>1, <3>4 DEF AnyInv, PassingInv
  <2> QED
    BY <2>1, <2>2, <2>3 DEF PassingInv
<1> QED
  BY <1>7, <1>8, <1>9, <1>10

\* A new call on what is there, or on what it is the first to name.
LEMMA PassingAsked ==
  ASSUME AnyInv, NEW j \in Calls, NEW op, NEW c \in Conns, NEW h,
         Asks(j, op, c, h),
         op \in PassingOps => stmt'[h].data = "live" /\ stmt'[h].driver = "none",
         \A g \in Handles : \/ stmt'[g] = stmt[g]
                            \/ /\ stmt[g].use = "none" /\ stmt'[g].use # "none"
                               /\ stmt'[g].of \in Conns /\ stmt'[g].driver = "none",
         \A b \in Conns : conn[b].db \in {"open", "null", "disconnected"} => conn'[b].db = conn[b].db
  PROVE  LiveInv' /\ PassingInv'
<1>1. /\ call[j].at = "idle" /\ call'[j].op = op /\ call'[j].on = c /\ call'[j].handle = h
      /\ call'[j].at = "queued" /\ \A k \in Calls : k # j => call'[k] = call[k]
  BY DEF Asks
<1>2. LiveInv'
  <2> SUFFICES ASSUME NEW g \in Handles
               PROVE  /\ stmt'[g].use = "none" => stmt'[g] = NoStmt
                      /\ stmt'[g].use # "none" => stmt'[g].of \in Conns
                      /\ stmt'[g].driver = "live" => conn'[stmt'[g].of].db = "open"
    BY DEF LiveInv
  <2>1. CASE stmt'[g] = stmt[g]
    <3>1. stmt[g].driver = "live" => stmt[g].of \in Conns
      BY DEF AnyInv, LiveInv, NoStmt
    <3> QED
      BY <2>1, <3>1 DEF AnyInv, LiveInv
  <2> QED
    BY <2>1
<1>3. PassingInv'
  <2>1. ASSUME NEW g \in Handles, stmt'[g].use \in PassingOps, stmt'[g].driver = "freed", stmt'[g].hstmt
        PROVE  conn'[stmt'[g].of].db \in {"null", "disconnected"}
    <3>1. stmt'[g] = stmt[g]
      BY <2>1
    <3>2. stmt[g].of \in Conns
      BY <2>1, <3>1 DEF AnyInv, LiveInv, PassingOps
    <3>3. conn[stmt[g].of].db \in {"null", "disconnected"}
      BY <2>1, <3>1 DEF AnyInv, PassingInv
    <3> QED
      BY <3>1, <3>2, <3>3
  <2>2. ASSUME NEW g \in Handles, stmt'[g].use = "query", stmt'[g].driver = "live"
        PROVE  \E k \in Calls : call'[k].handle = g
    <3>1. PICK k \in Calls : call[k].handle = g
      BY <2>2 DEF AnyInv, PassingInv
    <3>2. k # j
      BY <1>1, <3>1, NamesAssumption DEF AnyInv, NamesInv, Named
    <3> QED
      BY <1>1, <3>1, <3>2
  <2>3. ASSUME NEW k \in Calls, call'[k].at # "idle", call'[k].op \in PassingOps
        PROVE  /\ stmt'[call'[k].handle].data = "live"
               /\ call'[k].at = "queued" => stmt'[call'[k].handle].driver = "none"
    <3>1. CASE k = j
      BY <1>1, <2>3, <3>1
    <3>2. CASE k # j
      <4>1. call'[k] = call[k]
        BY <1>1, <3>2
      <4>2. call[k].handle \in Handles /\ stmt[call[k].handle].use # "none"
        BY <2>3, <4>1, NamedHandle DEF PassingOps, ConnectionOps
      <4>3. stmt'[call[k].handle] = stmt[call[k].handle]
        BY <4>2
      <4> QED
        BY <2>3, <4>1, <4>3 DEF AnyInv, PassingInv
    <3> QED
      BY <3>1, <3>2
  <2> QED
    BY <2>1, <2>2, <2>3 DEF PassingInv
<1> QED
  BY <1>2, <1>3

LEMMA StoodStill ==
  ASSUME AnyInv, call' = call, stmt' = stmt, conn' = conn, mutex' = mutex
  PROVE  NamesInv' /\ MakersInv' /\ LiveInv' /\ PassingInv'
<1>1. NamesInv'
  BY DEF AnyInv, NamesInv, Named, Closes
<1>2. MakersInv'
  BY DEF AnyInv, MakersInv
<1>3. LiveInv' /\ PassingInv'
  BY DEF AnyInv, LiveInv, PassingInv
<1> QED
  BY <1>1, <1>2, <1>3

\* A call on an object that is there changes nothing else.
LEMMA AskedKeeps ==
  ASSUME AnyInv, NEW j \in Calls, NEW op \in ConnectionOps \cup StatementOps \cup CursorOps,
         NEW c \in Conns, NEW h,
         Asks(j, op, c, h),
         op \in ConnectionOps => h = NoName,
         op \notin ConnectionOps => h \in Handles /\ stmt[h].of = c,
         op \in StatementOps => stmt[h].use = "statement",
         op \in CursorOps => stmt[h].use \in {"statement", "cursorQuery"},
         stmt' = stmt, mutex' = mutex,
         \/ op # "connect" /\ conn' = conn
         \/ op = "connect" /\ conn[c].db = "none" /\ conn' = [conn EXCEPT ![c].db = "asked"]
  PROVE  NamesInv' /\ MakersInv' /\ LiveInv' /\ PassingInv'
<1>1. op \in Ops /\ op \notin CreatingOps /\ op \notin PassingOps
  BY DEF Ops, CreatingOps, PassingOps, ConnectionOps, StatementOps, CursorOps
<1>2. /\ \A b \in Conns : conn[b].db \in {"open", "null", "disconnected", "asked"} => conn'[b].db = conn[b].db
      /\ op = "connect" => conn[c].db = "none" /\ conn'[c].db = "asked"
  <2>1. conn \in [Conns -> ConnType]
    BY DEF AnyInv, TypeOK
  <2>2. CASE op = "connect" /\ conn[c].db = "none" /\ conn' = [conn EXCEPT ![c].db = "asked"]
    BY <2>1, <2>2 DEF ConnType
  <2> QED
    BY <2>2
<1>3. NamesInv'
  BY <1>1, NamesAsked DEF AnyInv
<1>4. MakersInv'
  BY <1>1, <1>2, MakersAsked DEF AnyInv
<1>5. LiveInv' /\ PassingInv'
  BY <1>1, <1>2, PassingAsked
<1> QED
  BY <1>3, <1>4, <1>5

LEMMA ProgramKeeps ==
  ASSUME AnyInv, Program
  PROVE  NamesInv' /\ MakersInv' /\ LiveInv' /\ PassingInv'
<1>1. ASSUME NEW j \in Calls, NEW c \in Conns, CallConnect(j, c) \/ CallCloseConnection(j, c)
      PROVE  NamesInv' /\ MakersInv' /\ LiveInv' /\ PassingInv'
  <2>1. PICK op \in ConnectionOps :
          /\ Asks(j, op, c, NoName)
          /\ stmt' = stmt /\ mutex' = mutex
          /\ \/ op # "connect" /\ conn' = conn
             \/ op = "connect" /\ conn[c].db = "none" /\ conn' = [conn EXCEPT ![c].db = "asked"]
    BY <1>1, StepForms DEF CallConnect, CallCloseConnection, AnyInv, ConnectionOps
  <2>2. op \notin StatementOps /\ op \notin CursorOps
    BY DEF ConnectionOps, StatementOps, CursorOps
  <2> QED
    BY <2>1, <2>2, AskedKeeps
<1>2. ASSUME NEW j \in Calls, NEW op \in CreatingOps, NEW c \in Conns, NEW h \in Handles,
             CallCreate(j, op, c, h)
      PROVE  NamesInv' /\ MakersInv' /\ LiveInv' /\ PassingInv'
  <2>1. /\ Asks(j, op, c, h) /\ stmt[h].use = "none" /\ stmt[h] = NoStmt
        /\ mutex' = mutex /\ conn' = conn
    BY <1>2, StepForms DEF CallCreate, AnyInv, LiveInv
  <2>2. /\ stmt'[h].use = UsedFor(op) /\ stmt'[h].of = c /\ stmt'[h].driver = "none"
        /\ op \in PassingOps => stmt'[h].data = "live"
        /\ \A g \in Handles : g # h => stmt'[g] = stmt[g]
    <3>1. stmt \in [Handles -> StmtType]
      BY DEF AnyInv, TypeOK
    <3>2. stmt' = [stmt EXCEPT ![h].use = UsedFor(op), ![h].of = c,
                               ![h].data = IF op = "createStatement" THEN @ ELSE "live"]
      BY <1>2 DEF CallCreate, UsedFor
    <3> HIDE DEF UsedFor
    <3> QED
      BY <2>1, <3>1, <3>2 DEF NoStmt, StmtType, PassingOps
  <2>3. /\ op \in Ops /\ op \notin ConnectionOps /\ op \notin StatementOps /\ op \notin CursorOps
        /\ op # "connect" /\ UsedFor(op) # "none"
    BY DEF Ops, CreatingOps, PassingOps, ConnectionOps, StatementOps, CursorOps, UsedFor
  <2>4. NamesInv'
    <3>1. \A k \in Calls : call[k].at # "idle" /\ call[k].op \notin ConnectionOps =>
            stmt'[call[k].handle] = stmt[call[k].handle]
      BY <2>1, <2>2, NamedHandle
    <3>2. NamesInv
      BY DEF AnyInv
    <3> QED
      BY <2>1, <2>2, <2>3, <3>1, <3>2, NamesAsked
  <2>5. MakersInv'
    BY <2>1, <2>3, MakersAsked DEF AnyInv
  <2>6. LiveInv' /\ PassingInv'
    BY <2>1, <2>2, <2>3, PassingAsked
  <2> QED
    BY <2>4, <2>5, <2>6
<1>3. ASSUME NEW j \in Calls, NEW op \in StatementOps, NEW h \in Handles, CallStatement(j, op, h)
      PROVE  NamesInv' /\ MakersInv' /\ LiveInv' /\ PassingInv'
  <2>1. /\ stmt' = stmt /\ conn' = conn /\ mutex' = mutex /\ stmt[h].use = "statement"
        /\ call' = call \/ Asks(j, op, stmt[h].of, h)
    BY <1>3, StepForms DEF CallStatement, LooksAtHandle, AnyInv
  <2>2. stmt[h].of \in Conns
    BY <2>1 DEF AnyInv, LiveInv
  <2>3. op \notin ConnectionOps /\ op \notin CursorOps /\ op # "connect"
    BY DEF ConnectionOps, StatementOps, CursorOps
  <2>4. CASE Asks(j, op, stmt[h].of, h)
    BY <2>1, <2>2, <2>3, <2>4, AskedKeeps
  <2> QED
    BY <2>1, <2>4, StoodStill
<1>4. ASSUME NEW j \in Calls, NEW op \in CursorOps, NEW h \in Handles, CallCursor(j, op, h)
      PROVE  NamesInv' /\ MakersInv' /\ LiveInv' /\ PassingInv'
  <2>1. /\ stmt' = stmt /\ conn' = conn /\ mutex' = mutex
        /\ Asks(j, op, stmt[h].of, h)
    BY <1>4, StepForms DEF CallCursor, AnyInv
  <2>2. stmt[h].use \in {"statement", "cursorQuery"}
    BY <1>4 DEF CallCursor, HasCursor, AnyInv, CursorsInv
  <2>3. stmt[h].of \in Conns
    BY <2>2 DEF AnyInv, LiveInv
  <2>4. op \notin ConnectionOps /\ op \notin StatementOps /\ op # "connect"
    BY DEF ConnectionOps, StatementOps, CursorOps
  <2> QED
    BY <2>1, <2>2, <2>3, <2>4, AskedKeeps
<1>5. ASSUME NEW h \in Handles, ReadNoData(h)
      PROVE  NamesInv' /\ MakersInv' /\ LiveInv' /\ PassingInv'
  BY <1>5, StoodStill DEF ReadNoData
<1> QED
  BY <1>1, <1>2, <1>3, <1>4, <1>5 DEF Program

\* Only an answer makes a cursor.
LEMMA CursorsKeep == ASSUME AnyInv, [Next]_vars PROVE CursorsInv'
<1> USE DEF CursorsInv
<1>1. stmt \in [Handles -> StmtType] /\ CursorsInv
  BY DEF AnyInv, TypeOK
<1>2. ASSUME NEW j \in Calls, Thread(j) PROVE CursorsInv'
  <2>1. CASE CloseConnection(j)
    <3>1. stmt' = stmt \/ FreeStatementsOf(call[j].on)
      BY <2>1 DEF CloseConnection
    <3> QED
      <4>1. \A g \in Handles : stmt'[g] \in {stmt[g], [stmt[g] EXCEPT !.driver = "freed"]}
        BY <1>1, <3>1 DEF FreeStatementsOf
      <4>2. \A g \in Handles : stmt'[g].cursor = stmt[g].cursor /\ stmt'[g].use = stmt[g].use
        BY <1>1, <4>1 DEF StmtType
      <4> QED
        BY <1>1, <4>2
  <2>2. CASE CreateStatement(j) \/ QueryBegins(j) \/ CatalogBegins(j)
    <3> DEFINE h == call[j].handle
    <3>1. \/ stmt' = stmt
          \/ stmt' = [stmt EXCEPT ![h].driver = "live"]
          \/ stmt' = [stmt EXCEPT ![h].driver = "live", ![h].hstmt = TRUE]
      BY <2>2 DEF CreateStatement, QueryBegins, CatalogBegins
    <3> HIDE DEF h
    <3>2. \A g \in Handles : stmt'[g].cursor = stmt[g].cursor /\ stmt'[g].use = stmt[g].use
      BY <1>1, <3>1 DEF StmtType
    <3> QED
      BY <1>1, <3>2
  <2>3. CASE FreeHandle(j) \/ FreeData(j)
    <3> DEFINE h == call[j].handle
    <3>1. \/ \E d : stmt' = [stmt EXCEPT ![h].hstmt = FALSE, ![h].driver = d]
          \/ stmt' = [stmt EXCEPT ![h].data = "deleted"]
      BY <2>3 DEF FreeHandle, FreeData
    <3> HIDE DEF h
    <3>2. \A g \in Handles : stmt'[g].cursor = stmt[g].cursor /\ stmt'[g].use = stmt[g].use
      BY <1>1, <3>1 DEF StmtType
    <3> QED
      BY <1>1, <3>2
  <2>4. CASE stmt' = stmt
    BY <1>1, <2>4
  <2>5. \/ CloseConnection(j) \/ CreateStatement(j) \/ QueryBegins(j) \/ CatalogBegins(j)
        \/ FreeHandle(j) \/ FreeData(j) \/ stmt' = stmt
    BY <1>2 DEF Thread, ConnectBegins, ConnectEnds, CloseCursor, FreeBegins, QueryRuns, ProcedureRuns,
       CatalogRuns, PrepareRuns, BindRuns, ExecuteRuns, FetchRuns, UsesStatement
  <2> QED
    BY <2>1, <2>2, <2>3, <2>4, <2>5
<1>3. ASSUME NEW j \in Calls, Answer(j) PROVE CursorsInv'
  <2> DEFINE h == call[j].handle
  <2>1. call[j].op = "executeCursor" => stmt[h].use = "statement"
    BY <1>3 DEF Answer, AnyInv, NamesInv, Named, StatementOps
  <2>3. ASSUME h \in Handles PROVE Outcome(h, call[j].op).cursor => stmt[h].use = "statement"
    <3>1. stmt[h] \in StmtType /\ (stmt[h].cursor => stmt[h].use = "statement")
      BY <1>1, <2>3
    <3> QED
      BY <2>1, <3>1 DEF Outcome, StmtType
  <2>4. ASSUME h \in Handles PROVE Outcome(h, call[j].op).use = stmt[h].use
    BY <2>4, OutcomeKeeps
  <2>5. stmt' = stmt \/ stmt' = [stmt EXCEPT ![h] = Outcome(h, call[j].op)]
    BY <1>3 DEF Answer
  <2> HIDE DEF h
  <2>6. ASSUME NEW g \in Handles, stmt'[g].cursor PROVE stmt'[g].use = "statement"
    BY <1>1, <2>3, <2>4, <2>5, <2>6
  <2> QED
    BY <2>6
<1>4. ASSUME NEW j \in Calls, WorkerDeleted(j) PROVE CursorsInv'
  <2>1. QueryFrees(j) \/ CatalogForgets(j) \/ stmt' = stmt
    BY <1>4 DEF WorkerDeleted
  <2>2. CASE QueryFrees(j)
    BY <1>1, <2>2 DEF QueryFrees, StmtType
  <2>3. CASE CatalogForgets(j)
    BY <1>1, <2>3 DEF CatalogForgets, StmtType
  <2> QED
    BY <1>1, <2>1, <2>2, <2>3
<1>5. ASSUME Program PROVE CursorsInv'
  <2>1. ASSUME NEW j \in Calls, NEW op \in CreatingOps, NEW c \in Conns, NEW h \in Handles,
               CallCreate(j, op, c, h)
        PROVE  CursorsInv'
    <3>1. stmt[h] = NoStmt
      BY <2>1 DEF CallCreate, AnyInv, LiveInv
    <3>2. \A g \in Handles : g # h => stmt'[g] = stmt[g]
      BY <1>1, <2>1 DEF CallCreate
    <3>3. ~stmt'[h].cursor
      BY <1>1, <2>1, <3>1 DEF CallCreate, NoStmt, StmtType
    <3> QED
      BY <1>1, <3>2, <3>3
  <2>2. CASE stmt' = stmt
    BY <1>1, <2>2
  <2> QED
    BY <1>5, <2>1, <2>2 DEF Program, CallConnect, CallCloseConnection, CallStatement, CallCursor, ReadNoData
<1>6. CASE UNCHANGED vars
  BY <1>1, <1>6 DEF vars
<1> QED
  BY <1>2, <1>3, <1>4, <1>5, <1>6 DEF Next

LEMMA AnsweringKeep == ASSUME AnyInv, [Next]_vars PROVE AnsweringInv'
<1>1. /\ js # NoCall => js \in Calls /\ call[js].at = "answered"
      /\ call \in [Calls -> CallType]
  BY DEF AnyInv, TypeOK, AnsweringInv
<1>2. ASSUME js' = js, NEW j \in Calls, call[j].at # "answered",
             \A k \in Calls \ {j} : call'[k] = call[k]
      PROVE  AnsweringInv'
  BY <1>1, <1>2 DEF AnsweringInv
<1>3. ASSUME NEW j \in Calls, Thread(j) PROVE AnsweringInv'
  <2>1. js' = js /\ call[j].at # "answered"
    BY <1>3 DEF Thread, ConnectBegins, ConnectEnds, CloseConnection, CreateStatement, QueryBegins,
       CatalogBegins, CloseCursor, FreeBegins, FreeHandle, FreeData, QueryRuns, ProcedureRuns,
       CatalogRuns, PrepareRuns, BindRuns, ExecuteRuns, FetchRuns, UsesStatement, Running
  <2>2. \/ \E w : Moves(j, w)
        \/ \E f : Ends(j, f)
        \/ \E f : call' = [call EXCEPT ![j].at = "deleting", ![j].failed = f]
    BY <1>3 DEF Thread, ConnectBegins, ConnectEnds, CloseConnection, CreateStatement, QueryBegins,
       CatalogBegins, CloseCursor, FreeBegins, FreeHandle, FreeData, QueryRuns, ProcedureRuns,
       CatalogRuns, PrepareRuns, BindRuns, ExecuteRuns, FetchRuns, UsesStatement
  <2>3. \A k \in Calls \ {j} : call'[k] = call[k]
    BY <1>1, <2>2 DEF Moves, Ends
  <2> QED
    BY <1>2, <2>1, <2>3
<1>4. ASSUME NEW j \in Calls, Answer(j) PROVE AnsweringInv'
  BY <1>1, <1>4 DEF Answer, Moves, AnsweringInv, CallType
<1>5. ASSUME NEW j \in Calls, WorkerDeleted(j) PROVE AnsweringInv'
  BY <1>5 DEF WorkerDeleted, AnsweringInv
<1>6. ASSUME Program PROVE AnsweringInv'
  <2>1. js' = js /\ (call' = call \/ \E j \in Calls : \E op, c, h : Queue(j, op, c, h))
    BY <1>6 DEF Program, CallConnect, CallCloseConnection, CallCreate, CallStatement, LooksAtHandle,
       CallCursor, ReadNoData
  <2>2. ASSUME NEW j \in Calls, NEW op, NEW c, NEW h, Queue(j, op, c, h) PROVE AnsweringInv'
    <3>1. Asks(j, op, c, h)
      BY <2>2, StepForms DEF AnyInv
    <3> QED
      BY <1>2, <2>1, <3>1 DEF Asks
  <2> QED
    BY <1>1, <2>1, <2>2 DEF AnsweringInv
<1>7. CASE UNCHANGED vars
  BY <1>1, <1>7 DEF vars, AnsweringInv
<1> QED
  BY <1>3, <1>4, <1>5, <1>6, <1>7 DEF Next

LEMMA AnyInit == Init => AnyInv
<1> SUFFICES ASSUME Init PROVE AnyInv
  OBVIOUS
<1>1. \A j \in Calls : call[j] = Idle
  BY DEF Init
<1>2. \A h \in Handles : stmt[h] = NoStmt
  BY DEF Init
<1>3. NamesInv /\ MakersInv
  BY <1>1 DEF NamesInv, Named, MakersInv, Idle
<1>4. LiveInv /\ PassingInv /\ CursorsInv
  <2>1. \A h \in Handles : /\ stmt[h] = NoStmt /\ stmt[h].use = "none" /\ stmt[h].driver = "none"
                           /\ ~stmt[h].cursor
    <3>1. NoStmt.use = "none" /\ NoStmt.driver = "none" /\ ~NoStmt.cursor
      BY DEF NoStmt
    <3> QED
      BY <1>2, <3>1
  <2>2. \A j \in Calls : call[j].at = "idle"
    BY <1>1 DEF Idle
  <2> QED
    BY <2>1, <2>2 DEF LiveInv, PassingInv, CursorsInv
<1> QED
  BY <1>3, <1>4, InitType DEF AnyInv, AnsweringInv, Init

LEMMA AnyStep == AnyInv /\ [Next]_vars => AnyInv'
<1> SUFFICES ASSUME AnyInv, [Next]_vars PROVE AnyInv'
  OBVIOUS
<1>1. TypeOK' /\ CursorsInv'
  BY StepType, CursorsKeep DEF AnyInv
<1>3. AnsweringInv'
  BY AnsweringKeep
<1>2. NamesInv' /\ MakersInv' /\ LiveInv' /\ PassingInv'
  <2>1. CASE UNCHANGED vars
    BY <2>1, StoodStill DEF vars
  <2> QED
    BY <2>1, ProgramKeeps, ThreadKeeps, AnswerKeeps, DeletedKeeps DEF Next
<1> QED
  BY <1>1, <1>2, <1>3 DEF AnyInv

\* The variables of the model always have their types.
THEOREM HandleTypes == Spec => []TypeOK
BY InitType, StepType, PTL DEF Spec

LEMMA AlwaysAny == Spec => []AnyInv
BY AnyInit, AnyStep, PTL DEF Spec

-----------------------------------------------------------------------------
(* The mutex.                                                              *)

\* What a connect in the driver keeps others from doing, since it has the mutex.
LEMMA ConnectAlone ==
  ASSUME AnyInv, [Next]_vars, NEW i \in Calls, call[i].at = "connecting"
  PROVE  /\ \A h \in Handles : stmt'[h].driver = stmt[h].driver
         /\ \A c \in Conns : conn[c].db = "open" => conn'[c].db = "open"
<1> DEFINE Kept == /\ \A h \in Handles : stmt'[h].driver = stmt[h].driver
                   /\ \A c \in Conns : conn[c].db = "open" => conn'[c].db = "open"
<1>1. ~MutexFree
  BY NamesAssumption DEF AnyInv, NamesInv, Named, MutexFree
<1>2. stmt \in [Handles -> StmtType] /\ conn \in [Conns -> ConnType]
  BY DEF AnyInv, TypeOK
<1>3. ASSUME NEW j \in Calls, Thread(j) PROVE Kept
  <2>1. CASE ConnectEnds(j)
    <3>1. /\ stmt' = stmt
          /\ \E d \in {"lost", "open"} : conn' = [conn EXCEPT ![call[j].on].db = d]
      BY <2>1 DEF ConnectEnds
    <3>2. conn[call[j].on].db = "asked"
      BY <2>1 DEF ConnectEnds, Running, AnyInv, MakersInv
    <3> QED
      BY <1>2, <3>1, <3>2 DEF ConnType
  <2>2. CASE FreeData(j)
    <3>1. conn' = conn /\ stmt' = [stmt EXCEPT ![call[j].handle].data = "deleted"]
      BY <2>2 DEF FreeData
    <3> QED
      BY <1>2, <3>1 DEF StmtType
  <2>3. CASE stmt' = stmt /\ conn' = conn
    BY <2>3
  <2> QED
    BY <1>1, <1>3, <2>1, <2>2, <2>3
    DEF Thread, ConnectBegins, CloseConnection, CreateStatement, QueryBegins, CatalogBegins, CloseCursor,
        FreeBegins, FreeHandle, QueryRuns, ProcedureRuns, CatalogRuns, PrepareRuns, BindRuns, ExecuteRuns,
        FetchRuns, UsesStatement
<1>4. ASSUME NEW j \in Calls, Answer(j) PROVE Kept
  <2> DEFINE h == call[j].handle
  <2>1. \A c \in Conns : conn'[c].db = conn[c].db
    BY <1>2, <1>4 DEF Answer, ConnType
  <2>2. stmt' = stmt \/ stmt' = [stmt EXCEPT ![h] = Outcome(h, call[j].op)]
    BY <1>4 DEF Answer
  <2>3. h \in Handles => Outcome(h, call[j].op).driver = stmt[h].driver
    BY OutcomeKeeps
  <2> HIDE DEF h
  <2> QED
    BY <1>2, <2>1, <2>2, <2>3
<1>5. ASSUME NEW j \in Calls, WorkerDeleted(j) PROVE Kept
  <2>1. conn' = conn /\ (CatalogForgets(j) \/ stmt' = stmt)
    BY <1>1, <1>5 DEF WorkerDeleted, QueryFrees
  <2>2. CASE CatalogForgets(j)
    BY <1>2, <2>1, <2>2 DEF CatalogForgets, StmtType
  <2> QED
    BY <2>1, <2>2
<1>6. ASSUME Program PROVE Kept
  <2>1. ASSUME NEW j \in Calls, NEW op \in CreatingOps, NEW c \in Conns, NEW h \in Handles,
               CallCreate(j, op, c, h)
        PROVE  Kept
    <3>1. conn' = conn
      BY <2>1 DEF CallCreate
    <3>2. \A g \in Handles : stmt'[g].driver = stmt[g].driver
      BY <1>2, <2>1 DEF CallCreate, StmtType
    <3> QED
      BY <3>1, <3>2
  <2>2. ASSUME NEW j \in Calls, NEW c \in Conns, CallConnect(j, c)
        PROVE  Kept
    <3>1. /\ stmt' = stmt /\ conn[c].db = "none"
          /\ conn' = [conn EXCEPT ![c].db = "asked"]
      BY <2>2 DEF CallConnect
    <3> QED
      BY <1>2, <3>1
  <2>3. CASE stmt' = stmt /\ conn' = conn
    BY <2>3
  <2> QED
    BY <1>6, <2>1, <2>2, <2>3 DEF Program, CallCloseConnection, CallStatement, CallCursor, ReadNoData
<1>7. CASE UNCHANGED vars
  BY <1>7 DEF vars
<1> QED
  BY <1>3, <1>4, <1>5, <1>6, <1>7 DEF Next

\* Whatever the program does and whatever fails, while a connect is inside the
\* driver no statement handle is allocated or freed and no connection is closed.
THEOREM DriverAlwaysToItself == Spec => DriverToItself
<1>1. AnyInv /\ [Next]_vars =>
        [(\E j \in Calls : call[j].at = "connecting") =>
            /\ \A h \in Handles : stmt'[h].driver = stmt[h].driver
            /\ \A c \in Conns : conn[c].db = "open" => conn'[c].db = "open"]_vars
  BY ConnectAlone
<1> QED
  BY <1>1, AlwaysAny, PTL DEF Spec, DriverToItself

-----------------------------------------------------------------------------
(* Handles have owners.                                                    *)

\* The state of a statement's handle that is not being made.
Settled(h) == stmt[h].driver # "live" \/ (stmt[h].wrapper /\ stmt[h].hstmt /\ stmt[h].data = "live")

LEMMA MadeSettled ==
  ASSUME AnyInv, OwnedInv, NEW j \in Calls, call[j].handle \in Handles, call[j].op # "createStatement",
         stmt[call[j].handle].use = "statement"
  PROVE  Settled(call[j].handle)
BY DEF OwnedInv, Settled

\* A step that changes no statement's handle but that of its call.
LEMMA OwnedStep ==
  ASSUME AnyInv, OwnedInv, NEW j \in Calls, Steps(j), UsesKept,
         Pending(j), call'[j].at \notin {"queued", "idle"},
         \A h \in Handles : stmt[h].use = "statement" /\ h # call[j].handle =>
            /\ stmt'[h].wrapper = stmt[h].wrapper /\ stmt'[h].cursor = stmt[h].cursor
            /\ stmt'[h].hstmt = stmt[h].hstmt /\ stmt'[h].data = stmt[h].data
            /\ stmt[h].driver = stmt'[h].driver \/ (stmt[h].driver = "live" /\ stmt'[h].driver = "freed"),
         /\ call[j].handle \in Handles /\ call[j].op # "createStatement"
         /\ stmt[call[j].handle].use = "statement"
         => /\ Settled(call[j].handle)'
            /\ stmt'[call[j].handle].driver = "live" => stmt[call[j].handle].driver = "live",
         call[j].op = "closeStatement" /\ (call'[j].at = "deleting" \/ (call'[j].at = "done" /\ ~call'[j].failed))
         => stmt'[call[j].handle].driver # "live",
         call[j].op = "createStatement" =>
            \/ /\ call'[j].at # "answered"
               /\ ~stmt'[call[j].handle].wrapper /\ ~stmt'[call[j].handle].cursor
               /\ call'[j].at = "done" /\ call'[j].failed => stmt'[call[j].handle].driver = "none"
            \/ call'[j].at = "answered" /\ Settled(call[j].handle)'
  PROVE  OwnedInv'
<1> DEFINE mine == call[j].handle
<1>1. /\ \A k \in Calls : /\ call'[k].op = call[k].op /\ call'[k].handle = call[k].handle
                          /\ k # j => call'[k] = call[k]
      /\ \A h \in Handles : stmt'[h].use = stmt[h].use
  BY DEF Steps, UsesKept
<1>2. \A k \in Calls : k # j => Pending(k)' = Pending(k)
  BY <1>1 DEF Pending
<1>3. ASSUME NEW k \in Calls, call[k].op = "createStatement", call[k].at # "idle"
      PROVE  call[k].handle \in Handles /\ stmt[call[k].handle].use = "statement"
  BY <1>3 DEF AnyInv, NamesInv, Named, UsedFor, ConnectionOps, CreatingOps
<1>4. ASSUME NEW h \in Handles, stmt'[h].use = "statement"
      PROVE  \/ \E k \in Calls : Pending(k)' /\ call'[k].op = "createStatement" /\ call'[k].handle = h
             \/ Settled(h)'
  <2>1. CASE h = mine
    <3>1. CASE call[j].op = "createStatement"
      BY <1>1, <2>1, <3>1 DEF Pending
    <3>2. CASE call[j].op # "createStatement"
      BY <1>1, <1>4, <2>1, <3>2
    <3> QED
      BY <3>1, <3>2
  <2>2. CASE h # mine
    <3>1. stmt[h].use = "statement"
      BY <1>1, <1>4
    <3>2. CASE Settled(h)
      BY <2>2, <3>1, <3>2 DEF Settled
    <3>3. CASE \E k \in Calls : Pending(k) /\ call[k].op = "createStatement" /\ call[k].handle = h
      <4>1. PICK k \in Calls : Pending(k) /\ call[k].op = "createStatement" /\ call[k].handle = h
        BY <3>3
      <4> QED
        BY <1>1, <1>2, <2>2, <4>1
    <3> QED
      BY <3>1, <3>2, <3>3 DEF OwnedInv, Settled
  <2> QED
    BY <2>1, <2>2
<1>5. ASSUME NEW k \in Calls, Pending(k)', call'[k].op = "createStatement"
      PROVE  /\ ~stmt'[call'[k].handle].wrapper /\ ~stmt'[call'[k].handle].cursor
             /\ call'[k].at = "queued" \/ (call'[k].at = "done" /\ call'[k].failed) =>
                   stmt'[call'[k].handle].driver = "none"
             /\ \A m \in Calls : call'[m].handle = call'[k].handle => m = k
  <2>1. Pending(k) /\ call[k].op = "createStatement"
    <3>1. CASE k = j
      BY <1>1, <1>5, <3>1
    <3>2. CASE k # j
      BY <1>1, <1>2, <1>5, <3>2
    <3> QED
      BY <3>1, <3>2
  <2>2. call[k].handle \in Handles /\ stmt[call[k].handle].use = "statement"
    BY <1>3, <2>1 DEF Pending
  <2>3. \A m \in Calls : call[m].handle = call[k].handle => m = k
    BY <2>1 DEF OwnedInv
  <2>4. CASE k = j
    BY <1>1, <1>5, <2>1, <2>3, <2>4 DEF Pending
  <2>5. CASE k # j
    <3>1. call[k].handle # mine
      BY <2>3, <2>5
    <3>2. /\ ~stmt[call[k].handle].wrapper /\ ~stmt[call[k].handle].cursor
          /\ call[k].at = "queued" \/ (call[k].at = "done" /\ call[k].failed) =>
                stmt[call[k].handle].driver = "none"
      BY <2>1 DEF OwnedInv
    <3>3. call'[k] = call[k]
      BY <1>1, <2>5
    <3> QED
      BY <1>1, <2>2, <2>3, <3>1, <3>2, <3>3
  <2> QED
    BY <2>4, <2>5
<1>6. ASSUME NEW k \in Calls, call'[k].op = "closeStatement",
             call'[k].at = "deleting" \/ (call'[k].at = "done" /\ ~call'[k].failed)
      PROVE  stmt'[call'[k].handle].driver # "live"
  <2>1. CASE k = j
    BY <1>1, <1>6, <2>1
  <2>2. CASE k # j
    <3>1. call'[k] = call[k]
      BY <1>1, <2>2
    <3>2. stmt[call[k].handle].driver # "live"
      BY <1>6, <3>1 DEF OwnedInv
    <3>3. call[k].handle \in Handles /\ stmt[call[k].handle].use = "statement"
      BY <1>6, <3>1 DEF AnyInv, NamesInv, Named, StatementOps, ConnectionOps
    <3>4. CASE call[k].handle = mine
      <4>1. call[j].op # "createStatement"
        BY <2>2, <3>4 DEF OwnedInv
      <4> QED
        BY <3>1, <3>2, <3>3, <3>4, <4>1
    <3>5. CASE call[k].handle # mine
      BY <3>1, <3>2, <3>3, <3>5
    <3> QED
      BY <3>4, <3>5
  <2> QED
    BY <2>1, <2>2
<1>7. (\A h \in Handles : stmt[h].use = "statement" =>
         \/ \E k \in Calls : Pending(k) /\ call[k].op = "createStatement" /\ call[k].handle = h
         \/ stmt[h].driver # "live"
         \/ stmt[h].wrapper /\ stmt[h].hstmt /\ stmt[h].data = "live")'
  BY <1>4 DEF Settled
<1> QED
  BY <1>5, <1>6, <1>7 DEF OwnedInv

\* A step that leaves handles as they are, of a call that neither makes nor closes one.
LEMMA OwnedStill ==
  ASSUME AnyInv, OwnedInv, NEW j \in Calls, Steps(j), Pending(j), call'[j].at \notin {"queued", "idle"},
         call[j].op \notin {"createStatement", "closeStatement"}, stmt' = stmt
  PROVE  OwnedInv'
<1>1. UsesKept
  BY DEF UsesKept
<1>2. call[j].handle \in Handles /\ stmt[call[j].handle].use = "statement" => Settled(call[j].handle)'
  <2>1. call'[j].handle = call[j].handle
    BY DEF Steps
  <2>2. call[j].handle \in Handles /\ stmt[call[j].handle].use = "statement" => Settled(call[j].handle)
    BY MadeSettled
  <2> QED
    BY <2>1, <2>2 DEF Settled
<1> QED
  BY <1>1, <1>2, OwnedStep

\* Statements are made, ...
LEMMA OwnedAlloc ==
  ASSUME AnyInv, OwnedInv, NEW j \in Calls, CreateStatement(j) \/ QueryBegins(j) \/ CatalogBegins(j)
  PROVE  OwnedInv'
<1> DEFINE mine == call[j].handle
<1>1. /\ call[j].op \in CreatingOps /\ call[j].at = "queued" /\ call[j].op # "closeStatement"
      /\ Pending(j)
  BY DEF CreateStatement, QueryBegins, CatalogBegins, Running, CreatingOps, PassingOps, Pending
<1>2. mine \in Handles /\ stmt \in [Handles -> StmtType] /\ stmt[mine].use = UsedFor(call[j].op)
  BY <1>1 DEF AnyInv, NamesInv, Named, TypeOK, CreatingOps, PassingOps, ConnectionOps
<1>3. Steps(j) /\ call'[j].at \in {"running", "done"}
  <2>1. CASE CreateStatement(j)
    BY <2>1, StepForms DEF CreateStatement, AnyInv
  <2>2. CASE QueryBegins(j) \/ CatalogBegins(j)
    BY <2>2, StepForms DEF QueryBegins, CatalogBegins, AnyInv
  <2> QED
    BY <2>1, <2>2
<1>4. /\ \A h \in Handles : h # mine => stmt'[h] = stmt[h]
      /\ stmt'[mine].use = stmt[mine].use /\ stmt'[mine].of = stmt[mine].of
      /\ stmt'[mine].wrapper = stmt[mine].wrapper /\ stmt'[mine].cursor = stmt[mine].cursor
  <2>1. \/ stmt' = stmt
        \/ stmt' = [stmt EXCEPT ![mine].driver = "live"]
        \/ stmt' = [stmt EXCEPT ![mine].driver = "live", ![mine].hstmt = TRUE]
    BY DEF CreateStatement, QueryBegins, CatalogBegins
  <2> HIDE DEF mine
  <2> QED
    BY <1>2, <2>1 DEF StmtType
<1>5. UsesKept
  BY <1>4 DEF UsesKept
<1>6. CASE CreateStatement(j)
  <2>1. call[j].op = "createStatement"
    BY <1>6 DEF CreateStatement, Running
  <2>2. ~stmt[mine].wrapper /\ ~stmt[mine].cursor /\ stmt[mine].driver = "none"
    BY <1>1, <2>1 DEF OwnedInv
  <2>3. call'[j].at = "done" /\ (call'[j].failed => stmt' = stmt)
    BY <1>6, StepForms DEF CreateStatement, AnyInv
  <2> QED
    BY <1>1, <1>3, <1>4, <1>5, <2>1, <2>2, <2>3, OwnedStep
<1>7. CASE QueryBegins(j) \/ CatalogBegins(j)
  <2>1. call[j].op # "createStatement"
    BY <1>7 DEF QueryBegins, CatalogBegins, Running
  <2>2. stmt[mine].use # "statement"
    BY <1>1, <1>2, <2>1 DEF UsedFor, CreatingOps, PassingOps
  <2> QED
    BY <1>1, <1>3, <1>4, <1>5, <2>1, <2>2, OwnedStep
<1> QED
  BY <1>6, <1>7

\* ... taken along by their connection, ...
LEMMA OwnedClose ==
  ASSUME AnyInv, OwnedInv, NEW j \in Calls, CloseConnection(j)
  PROVE  OwnedInv'
<1>1. /\ call[j].op = "closeConnection" /\ call[j].at = "queued" /\ Pending(j)
      /\ call[j].handle = NoName
  BY DEF CloseConnection, Running, AnyInv, NamesInv, Named, ConnectionOps, Pending
<1>2. Steps(j) /\ call'[j].at = "done"
  BY StepForms DEF CloseConnection, AnyInv
<1>3. stmt' = stmt \/ FreeStatementsOf(call[j].on)
  BY DEF CloseConnection
<1>4. \A h \in Handles : /\ stmt'[h].use = stmt[h].use /\ stmt'[h].of = stmt[h].of
                         /\ stmt'[h].wrapper = stmt[h].wrapper /\ stmt'[h].cursor = stmt[h].cursor
                         /\ stmt'[h].hstmt = stmt[h].hstmt /\ stmt'[h].data = stmt[h].data
                         /\ \/ stmt'[h].driver = stmt[h].driver
                            \/ stmt[h].driver = "live" /\ stmt'[h].driver = "freed"
  <2>1. stmt \in [Handles -> StmtType]
    BY DEF AnyInv, TypeOK
  <2> QED
    BY <1>3, <2>1 DEF FreeStatementsOf, StmtType
<1>5. UsesKept
  BY <1>4 DEF UsesKept
<1> QED
  BY <1>1, <1>2, <1>4, <1>5, NamesAssumption, OwnedStep

\* ... freed and forgotten. If SQLFreeHandle does not fail, what is forgotten is freed.
LEMMA OwnedFrees ==
  ASSUME AnyInv, OwnedInv, NEW j \in Calls, "freeStatement" \notin Failures,
         CloseCursor(j) \/ FreeBegins(j) \/ FreeHandle(j) \/ FreeData(j)
  PROVE  OwnedInv'
<1> DEFINE mine == call[j].handle
<1>1. call[j].at \in {"queued", "closed", "freeing", "deleting"} /\ Pending(j)
  BY DEF CloseCursor, FreeBegins, FreeHandle, FreeData, Running, Pending
<1>2. CASE CloseCursor(j)
  <2>1. /\ Steps(j) /\ call'[j].at \in {"done", "closed"} /\ call[j].op = "closeCursor"
        /\ stmt' = stmt
    BY <1>2, StepForms DEF CloseCursor, AnyInv, Running
  <2> QED
    BY <1>1, <2>1, OwnedStill
<1>3. CASE FreeBegins(j) \/ FreeHandle(j) \/ FreeData(j)
  <2>1. Closes(j)
    BY <1>3 DEF FreeBegins, FreeHandle, FreeData, Running, AnyInv, NamesInv, Named, Closes
  <2>2. mine \in Handles /\ call[j].op \in {"closeStatement", "closeCursor"}
    BY <1>1, <2>1, ClosesObject DEF Closes
  <2>3. call[j].op = "closeCursor" => stmt[mine].use # "statement"
    BY <2>1 DEF Closes
  <2>4. call[j].op = "closeStatement" => stmt[mine].use = "statement"
    BY <1>1 DEF AnyInv, NamesInv, Named, StatementOps
  <2>5. call[j].op = "closeStatement" => Settled(mine)
    BY <2>2, <2>4, MadeSettled
  <2>6. stmt \in [Handles -> StmtType]
    BY DEF AnyInv, TypeOK
  <2>7. CASE FreeBegins(j)
    <3>1. /\ Steps(j) /\ call'[j].at \in {"done", "freeing", "deleting"} /\ stmt' = stmt
          /\ call'[j].at = "done" => stmt[mine].data = "deleted"
          /\ call'[j].at = "deleting" => ~stmt[mine].hstmt
      <4>1. TypeOK
        BY DEF AnyInv
      <4>2. CASE stmt[mine].data = "deleted"
        BY <2>7, <4>1, <4>2, StepForms DEF FreeBegins
      <4>3. CASE stmt[mine].data # "deleted"
        <5>1. /\ Moves(j, IF stmt[mine].hstmt THEN "freeing" ELSE "deleting")
              /\ stmt' = stmt
          BY <2>7, <4>3 DEF FreeBegins
        <5> QED
          BY <4>1, <5>1, StepForms
      <4> QED
        BY <4>2, <4>3
    <3>2. /\ call[j].op = "closeStatement"
          /\ call'[j].at = "deleting" \/ (call'[j].at = "done" /\ ~call'[j].failed)
          => stmt'[mine].driver # "live"
      BY <2>5, <3>1 DEF Settled
    <3>3. UsesKept
      BY <3>1 DEF UsesKept
    <3> QED
      <4>1. call[j].op = "closeStatement" => Settled(mine)'
        BY <2>5, <3>1 DEF Settled, Steps
      <4> QED
        BY <1>1, <2>2, <2>3, <3>1, <3>2, <3>3, <4>1, OwnedStep
  <2>8. CASE FreeHandle(j)
    <3>1. PICK failed \in FreeMayFail(mine) :
            /\ call' = [call EXCEPT ![j].at = "deleting", ![j].failed = failed]
            /\ stmt' = [stmt EXCEPT ![mine].hstmt = FALSE, ![mine].driver = IF failed THEN @ ELSE "freed"]
      BY <2>8 DEF FreeHandle
    <3>2. failed => ~stmt[mine].hstmt
      BY <3>1 DEF FreeMayFail, MayFail
    <3>3. Steps(j) /\ call'[j].at = "deleting"
      <4>1. call \in [Calls -> CallType] /\ call[j] \in CallType
        BY DEF AnyInv, TypeOK
      <4>2. \A k \in Calls \ {j} : call'[k] = call[k]
        BY <3>1, <4>1
      <4>3. /\ call'[j].at = "deleting" /\ call'[j].op = call[j].op
            /\ call'[j].on = call[j].on /\ call'[j].handle = call[j].handle
        BY <3>1, <4>1 DEF CallType
      <4> QED
        BY <4>2, <4>3 DEF Steps
    <3>4. /\ \A h \in Handles : h # mine => stmt'[h] = stmt[h]
          /\ stmt'[mine].use = stmt[mine].use /\ stmt'[mine].of = stmt[mine].of
          /\ failed => stmt'[mine].driver = stmt[mine].driver
          /\ ~failed => stmt'[mine].driver = "freed"
      BY <2>2, <2>6, <3>1 DEF StmtType
    <3>5. call[j].op = "closeStatement" => stmt'[mine].driver # "live"
      BY <2>5, <3>2, <3>4 DEF Settled
    <3>6. UsesKept
      BY <3>4 DEF UsesKept
    <3> QED
      <4>1. call[j].op = "closeStatement" => Settled(mine)'
        BY <3>3, <3>5 DEF Settled, Steps
      <4>2. "freed" # "live" /\ (stmt'[mine].driver = "live" => stmt[mine].driver = "live")
        BY <3>4
      <4> QED
        BY <1>1, <2>2, <2>3, <3>3, <3>4, <3>5, <3>6, <4>1, <4>2, OwnedStep
  <2>9. CASE FreeData(j)
    <3>1. stmt' = [stmt EXCEPT ![mine].data = "deleted"] /\ call[j].at = "deleting"
      BY <2>9 DEF FreeData
    <3>2. Steps(j) /\ call'[j].at = "done"
      BY <2>9, StepForms DEF FreeData, AnyInv
    <3>3. /\ \A h \in Handles : h # mine => stmt'[h] = stmt[h]
          /\ stmt'[mine].use = stmt[mine].use /\ stmt'[mine].of = stmt[mine].of
          /\ stmt'[mine].driver = stmt[mine].driver
      BY <2>2, <2>6, <3>1 DEF StmtType
    <3>4. call[j].op = "closeStatement" => stmt'[mine].driver # "live"
      BY <3>1, <3>3 DEF OwnedInv
    <3>5. UsesKept
      BY <3>3 DEF UsesKept
    <3> QED
      <4>1. call[j].op = "closeStatement" => Settled(mine)'
        BY <3>2, <3>4 DEF Settled, Steps
      <4> QED
        BY <1>1, <2>2, <2>3, <3>2, <3>3, <3>4, <3>5, <4>1, OwnedStep
  <2> QED
    BY <1>3, <2>7, <2>8, <2>9
<1> QED
  BY <1>2, <1>3

LEMMA OwnedThread ==
  ASSUME AnyInv, OwnedInv, NEW j \in Calls, "freeStatement" \notin Failures, Thread(j)
  PROVE  OwnedInv'
<1>1. CASE QueryRuns(j) \/ ProcedureRuns(j) \/ CatalogRuns(j) \/ PrepareRuns(j) \/ BindRuns(j)
           \/ ExecuteRuns(j) \/ FetchRuns(j)
  <2>1. UsesStatement(j) /\ Pending(j) /\ call[j].op \notin {"createStatement", "closeStatement"}
    BY <1>1 DEF QueryRuns, ProcedureRuns, CatalogRuns, PrepareRuns, BindRuns, ExecuteRuns, FetchRuns,
       Running, Pending
  <2>2. Steps(j) /\ call'[j].at = "done" /\ stmt' = stmt
    BY <2>1, StepForms DEF UsesStatement, AnyInv
  <2> QED
    BY <2>1, <2>2, OwnedStill
<1>2. CASE ConnectBegins(j) \/ ConnectEnds(j)
  <2>1. /\ Steps(j) /\ call'[j].at \in {"connecting", "done"} /\ stmt' = stmt
    BY <1>2, StepForms DEF ConnectBegins, ConnectEnds, AnyInv
  <2>2. Pending(j) /\ call[j].op = "connect"
    BY <1>2 DEF ConnectBegins, ConnectEnds, Running, Pending
  <2> QED
    BY <2>1, <2>2, OwnedStill
<1> QED
  BY <1>1, <1>2, OwnedAlloc, OwnedClose, OwnedFrees DEF Thread

\* Only close() makes a statement object forget its handle.
LEMMA OutcomeWrapper ==
  ASSUME AnyInv, NEW h \in Handles, NEW op, op # "closeStatement", stmt[h].use = "statement", stmt[h].wrapper
  PROVE  Outcome(h, op).wrapper
<1> DEFINE s == stmt[h]
<1>1. s \in StmtType /\ s.use = "statement" /\ s.wrapper
  BY DEF AnyInv, TypeOK
<1>2. Outcome(h, op) \in {[s EXCEPT !.hstmt = TRUE, !.data = "live", !.wrapper = TRUE],
                          [s EXCEPT !.wrapper = TRUE], [s EXCEPT !.cursor = TRUE],
                          [s EXCEPT !.wrapper = s.wrapper /\ s.use = "statement", !.cursor = FALSE], s}
  BY DEF Outcome
<1> HIDE DEF s
<1> QED
  BY <1>1, <1>2 DEF StmtType

LEMMA OwnedAnswer ==
  ASSUME AnyInv, OwnedInv, NEW j \in Calls, Answer(j)
  PROVE  OwnedInv'
<1> DEFINE mine == call[j].handle
<1>1. /\ Steps(j) /\ call'[j].at = "answered" /\ call[j].at = "done" /\ Pending(j)
      /\ call'[j].handle = mine
  BY StepForms DEF Answer, AnyInv, Pending, Steps
<1>2. \/ stmt' = stmt /\ (call[j].failed \/ mine \notin Handles)
      \/ mine \in Handles /\ ~call[j].failed /\ stmt' = [stmt EXCEPT ![mine] = Outcome(mine, call[j].op)]
  <2>1. mine # NoName => mine \in Handles
    BY <1>1 DEF AnyInv, NamesInv, Named
  <2> QED
    BY <2>1, NamesAssumption DEF Answer
<1>3. CASE stmt' = stmt /\ (call[j].failed \/ mine \notin Handles)
  <2>1. UsesKept
    BY <1>3 DEF UsesKept
  <2>2. call[j].op = "createStatement" => mine \in Handles /\ stmt'[mine].driver # "live"
    BY <1>1, <1>3 DEF OwnedInv, AnyInv, NamesInv, Named, ConnectionOps
  <2>3. mine \in Handles /\ call[j].op # "createStatement" /\ stmt[mine].use = "statement" => Settled(mine)
    BY MadeSettled
  <2>4. mine \in Handles /\ call[j].op # "createStatement" /\ stmt[mine].use = "statement" => Settled(mine)'
    BY <1>1, <1>3, <2>3 DEF Settled
  <2>5. call[j].op = "createStatement" => Settled(mine)'
    BY <1>1, <2>2 DEF Settled
  <2> QED
    BY <1>1, <1>3, <2>1, <2>4, <2>5, OwnedStep
<1>4. CASE mine \in Handles /\ ~call[j].failed /\ stmt' = [stmt EXCEPT ![mine] = Outcome(mine, call[j].op)]
  <2>1. /\ stmt'[mine] = Outcome(mine, call[j].op)
        /\ \A h \in Handles : h # mine => stmt'[h] = stmt[h]
    BY <1>4 DEF AnyInv, TypeOK
  <2>2. UsesKept
    BY <1>4, <2>1, OutcomeKeeps DEF UsesKept
  <2>3. call[j].op = "createStatement" => Settled(mine)'
    BY <1>1, <1>4, <2>1, OutcomeKeeps DEF Settled
  <2>4. ASSUME call[j].op # "createStatement", stmt[mine].use = "statement"
        PROVE  Settled(mine)' /\ (stmt'[mine].driver = "live" => stmt[mine].driver = "live")
    <3>1. Settled(mine)
      BY <1>4, <2>4, MadeSettled
    <3>2. /\ stmt'[mine].driver = stmt[mine].driver /\ stmt'[mine].hstmt = stmt[mine].hstmt
          /\ stmt'[mine].data = stmt[mine].data
      BY <1>4, <2>1, <2>4, OutcomeKeeps
    <3>3. call[j].op = "closeStatement" => stmt[mine].driver # "live"
      BY <1>1, <1>4 DEF OwnedInv
    <3>4. call[j].op # "closeStatement" /\ stmt[mine].wrapper => stmt'[mine].wrapper
      BY <1>4, <2>1, <2>4, OutcomeWrapper
    <3> QED
      BY <1>1, <3>1, <3>2, <3>3, <3>4 DEF Settled
  <2> QED
    BY <1>1, <1>4, <2>1, <2>2, <2>3, <2>4, OwnedStep
<1> QED
  BY <1>2, <1>3, <1>4

\* The end of a worker changes no handle of a statement or cursor.
LEMMA DeletedForms ==
  ASSUME AnyInv, NEW j \in Calls, WorkerDeleted(j)
  PROVE  /\ call'[j] = Idle /\ ~Pending(j) /\ ~Pending(j)'
         /\ \A k \in Calls \ {j} : call'[k] = call[k] /\ Pending(k)' = Pending(k)
         /\ \A h \in Handles : stmt'[h].use = stmt[h].use /\ stmt'[h].of = stmt[h].of
         /\ \A h \in Handles : stmt[h].use \notin PassingOps => stmt'[h] = stmt[h]
<1> DEFINE mine == call[j].handle
<1>1. /\ call'[j] = Idle /\ call[j].at = "answered" /\ ~Pending(j)
      /\ \A k \in Calls \ {j} : call'[k] = call[k]
  <2>1. call \in [Calls -> CallType] /\ call' = [call EXCEPT ![j] = Idle] /\ js = j /\ js # NoCall
    BY NamesAssumption DEF WorkerDeleted, AnyInv, TypeOK
  <2> QED
    BY <2>1 DEF AnyInv, AnsweringInv, Pending
<1>2. ~Pending(j)' /\ \A k \in Calls \ {j} : Pending(k)' = Pending(k)
  BY <1>1 DEF Idle, Pending
<1>3. /\ \A h \in Handles : h # mine \/ call[j].op \notin PassingOps => stmt'[h] = stmt[h]
      /\ mine \in Handles => stmt'[mine].use = stmt[mine].use /\ stmt'[mine].of = stmt[mine].of
  <2>1. stmt \in [Handles -> StmtType]
    BY DEF AnyInv, TypeOK
  <2>2. CASE call[j].op = "query"
    <3>1. QueryFrees(j)
      BY <2>2 DEF WorkerDeleted
    <3> QED
      BY <2>1, <2>2, <3>1 DEF QueryFrees, StmtType, PassingOps
  <2>3. CASE call[j].op \in PassingOps \ {"query"}
    <3>1. CatalogForgets(j)
      BY <2>3 DEF WorkerDeleted
    <3> QED
      BY <2>1, <2>3, <3>1 DEF CatalogForgets, StmtType
  <2>4. CASE call[j].op \notin PassingOps
    BY <2>4 DEF WorkerDeleted, PassingOps
  <2> QED
    BY <2>2, <2>3, <2>4
<1>4. call[j].op \in PassingOps => stmt[mine].use \in PassingOps
  BY <1>1 DEF AnyInv, NamesInv, Named, CreatingOps, PassingOps, UsedFor
<1> QED
  BY <1>1, <1>2, <1>3, <1>4

LEMMA OwnedDeleted ==
  ASSUME AnyInv, OwnedInv, NEW j \in Calls, WorkerDeleted(j)
  PROVE  OwnedInv'
<1> DEFINE mine == call[j].handle
<1>1. call'[j] = Idle /\ ~Pending(j) /\ \A k \in Calls \ {j} : call'[k] = call[k]
  BY DeletedForms
<1>2. /\ call'[j].at = "idle" /\ call'[j].op = "none" /\ call'[j].handle = NoName /\ ~Pending(j)'
  BY <1>1 DEF Idle, Pending
<1>3. \A k \in Calls : k # j => Pending(k)' = Pending(k)
  BY DeletedForms
<1>6. \A h \in Handles : stmt[h].use = "statement" \/ stmt'[h].use = "statement" => stmt'[h] = stmt[h]
  BY DeletedForms DEF PassingOps
<1>7. \A k \in Calls : /\ call'[k].op \in {"createStatement", "closeStatement"}
                       => /\ k # j /\ call'[k] = call[k]
  BY <1>1, <1>2
<1>8. \A k \in Calls : /\ call[k].op \in {"createStatement", "closeStatement"} /\ call[k].at # "idle"
                       => call[k].handle \in Handles /\ stmt[call[k].handle].use = "statement"
  BY DEF AnyInv, NamesInv, Named, UsedFor, ConnectionOps, CreatingOps, StatementOps
<1>9. ASSUME NEW h \in Handles, stmt'[h].use = "statement"
      PROVE  \/ \E k \in Calls : Pending(k)' /\ call'[k].op = "createStatement" /\ call'[k].handle = h
             \/ stmt'[h].driver # "live"
             \/ stmt'[h].wrapper /\ stmt'[h].hstmt /\ stmt'[h].data = "live"
  <2>1. stmt'[h] = stmt[h]
    BY <1>6, <1>9
  <2>2. CASE \E k \in Calls : Pending(k) /\ call[k].op = "createStatement" /\ call[k].handle = h
    BY <1>1, <1>3, <2>2
  <2> QED
    BY <1>9, <2>1, <2>2 DEF OwnedInv
<1>10. ASSUME NEW k \in Calls, Pending(k)', call'[k].op = "createStatement"
       PROVE  /\ ~stmt'[call'[k].handle].wrapper /\ ~stmt'[call'[k].handle].cursor
              /\ call'[k].at = "queued" \/ (call'[k].at = "done" /\ call'[k].failed) =>
                   stmt'[call'[k].handle].driver = "none"
              /\ \A m \in Calls : call'[m].handle = call'[k].handle => m = k
  <2>1. k # j /\ call'[k] = call[k] /\ Pending(k)
    BY <1>3, <1>7, <1>10
  <2>2. call[k].handle \in Handles /\ stmt'[call[k].handle] = stmt[call[k].handle]
    BY <1>6, <1>8, <1>10, <2>1 DEF Pending
  <2>3. \A m \in Calls : call'[m].handle = call'[k].handle => m = k
    BY <1>1, <1>2, <1>10, <2>1, <2>2, NamesAssumption DEF OwnedInv
  <2> QED
    BY <1>10, <2>1, <2>2, <2>3 DEF OwnedInv
<1>11. ASSUME NEW k \in Calls, call'[k].op = "closeStatement",
              call'[k].at = "deleting" \/ (call'[k].at = "done" /\ ~call'[k].failed)
       PROVE  stmt'[call'[k].handle].driver # "live"
  <2>1. k # j /\ call'[k] = call[k]
    BY <1>7, <1>11
  <2>2. stmt'[call[k].handle] = stmt[call[k].handle]
    BY <1>6, <1>8, <1>11, <2>1
  <2> QED
    BY <1>11, <2>1, <2>2 DEF OwnedInv
<1> QED
  BY <1>9, <1>10, <1>11 DEF OwnedInv

\* A new call makes a new handle or is made on an object.
LEMMA OwnedAsked ==
  ASSUME AnyInv, OwnedInv, NEW j \in Calls, NEW op, NEW c, NEW h, Asks(j, op, c, h),
         \A g \in Handles : stmt[g].use # "none" => stmt'[g] = stmt[g],
         \A g \in Handles : stmt[g].use = "none" => /\ stmt'[g].driver = "none"
                                                    /\ ~stmt'[g].wrapper /\ ~stmt'[g].cursor,
         op = "createStatement" => h \in Handles /\ stmt[h].use = "none",
         op # "createStatement" /\ h \in Handles =>
            stmt[h].wrapper \/ stmt[h].cursor \/ stmt[h].use = "none"
  PROVE  OwnedInv'
<1>1. /\ call[j].at = "idle" /\ call'[j].op = op /\ call'[j].handle = h
      /\ call'[j].at = "queued" /\ \A k \in Calls : k # j => call'[k] = call[k]
      /\ ~Pending(j) /\ Pending(j)'
  BY DEF Asks, Pending
<1>2. \A k \in Calls : k # j => Pending(k)' = Pending(k)
  BY <1>1 DEF Pending
<1>3. \A k \in Calls : call[k].at # "idle" /\ call[k].op \in {"createStatement", "closeStatement"} =>
         /\ call[k].handle \in Handles /\ stmt[call[k].handle].use # "none"
         /\ stmt'[call[k].handle] = stmt[call[k].handle]
  BY NamedHandle DEF ConnectionOps
<1>4. ASSUME NEW g \in Handles, stmt'[g].use = "statement"
      PROVE  \/ \E k \in Calls : Pending(k)' /\ call'[k].op = "createStatement" /\ call'[k].handle = g
             \/ stmt'[g].driver # "live"
             \/ stmt'[g].wrapper /\ stmt'[g].hstmt /\ stmt'[g].data = "live"
  <2>1. CASE stmt[g].use = "none"
    BY <2>1
  <2>2. CASE stmt[g].use # "none" /\ \E k \in Calls : Pending(k) /\ call[k].op = "createStatement" /\ call[k].handle = g
    BY <1>1, <1>2, <2>2
  <2> QED
    BY <1>4, <2>1, <2>2 DEF OwnedInv
<1>5. ASSUME NEW k \in Calls, Pending(k)', call'[k].op = "createStatement"
      PROVE  /\ ~stmt'[call'[k].handle].wrapper /\ ~stmt'[call'[k].handle].cursor
             /\ call'[k].at = "queued" \/ (call'[k].at = "done" /\ call'[k].failed) =>
                  stmt'[call'[k].handle].driver = "none"
             /\ \A m \in Calls : call'[m].handle = call'[k].handle => m = k
  <2>1. CASE k = j
    <3>1. h \in Handles /\ stmt[h].use = "none"
      BY <1>1, <1>5, <2>1
    <3>2. \A m \in Calls : m # j => call[m].handle # h
      BY <3>1, NamedHandle, NamesAssumption DEF AnyInv, NamesInv, Named
    <3> QED
      BY <1>1, <2>1, <3>1, <3>2
  <2>2. CASE k # j
    <3>1. call'[k] = call[k] /\ Pending(k) /\ call[k].op = "createStatement" /\ call[k].at # "idle"
      BY <1>1, <1>2, <1>5, <2>2 DEF Pending
    <3>2. /\ call[k].handle \in Handles /\ stmt[call[k].handle].use # "none"
          /\ stmt'[call[k].handle] = stmt[call[k].handle]
      BY <1>3, <3>1
    <3>3. call[k].handle # h
      BY <3>1, <3>2 DEF OwnedInv
    <3> QED
      BY <1>1, <3>1, <3>2, <3>3 DEF OwnedInv
  <2> QED
    BY <2>1, <2>2
<1>6. ASSUME NEW k \in Calls, call'[k].op = "closeStatement",
             call'[k].at = "deleting" \/ (call'[k].at = "done" /\ ~call'[k].failed)
      PROVE  stmt'[call'[k].handle].driver # "live"
  <2>1. call'[k] = call[k] /\ call[k].at # "idle"
    BY <1>1, <1>6
  <2> QED
    BY <1>3, <1>6, <2>1 DEF OwnedInv
<1> QED
  BY <1>4, <1>5, <1>6 DEF OwnedInv

LEMMA OwnedStays ==
  ASSUME OwnedInv, call' = call, stmt' = stmt
  PROVE  OwnedInv'
BY DEF OwnedInv, Pending

LEMMA OwnedProgram == ASSUME AnyInv, OwnedInv, Program PROVE OwnedInv'
<1>0. /\ TypeOK
      /\ \A g \in Handles : stmt[g].use = "none" => /\ stmt[g].driver = "none"
                                                    /\ ~stmt[g].wrapper /\ ~stmt[g].cursor
  <2>1. NoStmt.driver = "none" /\ ~NoStmt.wrapper /\ ~NoStmt.cursor
    BY DEF NoStmt
  <2> QED
    BY <2>1 DEF AnyInv, LiveInv
<1>1. ASSUME NEW j \in Calls, NEW c \in Conns, CallConnect(j, c) \/ CallCloseConnection(j, c)
      PROVE  OwnedInv'
  <2>1. stmt' = stmt /\ \E op \in {"connect", "closeConnection"} : Asks(j, op, c, NoName)
    BY <1>0, <1>1, StepForms DEF CallConnect, CallCloseConnection
  <2> QED
    BY <1>0, <2>1, OwnedAsked, NamesAssumption
<1>2. ASSUME NEW j \in Calls, NEW op \in CreatingOps, NEW c \in Conns, NEW h \in Handles,
             CallCreate(j, op, c, h)
      PROVE  OwnedInv'
  <2>1. Asks(j, op, c, h) /\ stmt[h].use = "none"
    BY <1>0, <1>2, StepForms DEF CallCreate
  <2>2. /\ stmt'[h].driver = stmt[h].driver /\ stmt'[h].wrapper = stmt[h].wrapper
        /\ stmt'[h].cursor = stmt[h].cursor
        /\ \A g \in Handles : g # h => stmt'[g] = stmt[g]
    BY <1>0, <1>2 DEF CallCreate, TypeOK, StmtType
  <2> QED
    BY <1>0, <2>1, <2>2, OwnedAsked
<1>3. ASSUME NEW j \in Calls, NEW op \in StatementOps, NEW h \in Handles, CallStatement(j, op, h)
      PROVE  OwnedInv'
  <2>1. /\ stmt' = stmt /\ stmt[h].wrapper /\ op # "createStatement"
        /\ call' = call \/ Asks(j, op, stmt[h].of, h)
    BY <1>0, <1>3, StepForms DEF CallStatement, LooksAtHandle, StatementOps
  <2> QED
    BY <1>0, <2>1, OwnedAsked, OwnedStays
<1>4. ASSUME NEW j \in Calls, NEW op \in CursorOps, NEW h \in Handles, CallCursor(j, op, h)
      PROVE  OwnedInv'
  <2>1. /\ stmt' = stmt /\ (stmt[h].wrapper \/ stmt[h].cursor) /\ op # "createStatement"
        /\ Asks(j, op, stmt[h].of, h)
    BY <1>0, <1>4, StepForms DEF CallCursor, HasCursor, CursorOps
  <2> QED
    BY <1>0, <2>1, OwnedAsked
<1>5. ASSUME NEW h \in Handles, ReadNoData(h)
      PROVE  OwnedInv'
  BY <1>5, OwnedStays DEF ReadNoData
<1> QED
  BY <1>1, <1>2, <1>3, <1>4, <1>5 DEF Program

LEMMA OwnedInit == Init => OwnedInv
<1> SUFFICES ASSUME Init PROVE OwnedInv
  OBVIOUS
<1>1. \A j \in Calls : call[j].at = "idle"
  BY DEF Init, Idle
<1>2. \A h \in Handles : stmt[h].use = "none"
  BY DEF Init, NoStmt
<1> QED
  BY <1>1, <1>2 DEF OwnedInv, Pending

LEMMA OwnedEnough == ASSUME AnyInv, OwnedInv PROVE HandlesOwned
<1> SUFFICES ASSUME NEW h \in Handles, stmt[h].driver = "live", stmt[h].use \in {"query", "statement"}
             PROVE  stmt[h].wrapper \/ \E j \in Calls : call[j].handle = h
  BY DEF HandlesOwned
<1>1. CASE stmt[h].use = "query"
  BY <1>1 DEF AnyInv, PassingInv
<1>2. CASE stmt[h].use = "statement"
  BY <1>2 DEF OwnedInv
<1> QED
  BY <1>1, <1>2

\* Whatever the program does, a live handle of a query or statement has a worker or
\* an object that will free it, as long as SQLFreeHandle does not fail on it.
THEOREM HandlesAlwaysOwned ==
  ASSUME "freeStatement" \notin Failures
  PROVE  Spec => []HandlesOwned
<1>1. Init => AnyInv /\ OwnedInv
  BY AnyInit, OwnedInit
<1>2. AnyInv /\ OwnedInv /\ [Next]_vars => (AnyInv /\ OwnedInv)'
  <2> SUFFICES ASSUME AnyInv, OwnedInv, [Next]_vars PROVE OwnedInv'
    BY AnyStep
  <2>1. CASE UNCHANGED vars
    BY <2>1, OwnedStays DEF vars
  <2> QED
    BY <2>1, OwnedProgram, OwnedThread, OwnedAnswer, OwnedDeleted DEF Next
<1>3. AnyInv /\ OwnedInv => HandlesOwned
  BY OwnedEnough
<1> QED
  BY <1>1, <1>2, <1>3, PTL DEF Spec

-----------------------------------------------------------------------------
(* Programs that await and close in order, when freeing does not fail.     *)

\* Statements and cursors are not handles without an object.
LEMMA UsingObject ==
  ASSUME AnyInv, NEW j \in Calls, call[j].at # "idle",
         call[j].op \in {"createStatement", "cursorQuery"} \cup StatementOps \cup CursorOps
  PROVE  /\ call[j].handle \in Handles /\ stmt[call[j].handle].use \notin PassingOps
         /\ stmt[call[j].handle].use \in {"statement", "cursorQuery"}
<1>1. /\ call[j].op \notin ConnectionOps
      /\ call[j].op \in {"createStatement", "cursorQuery"} => call[j].op \in CreatingOps
  BY DEF ConnectionOps, StatementOps, CursorOps, CreatingOps
<1>2. call[j].handle \in Handles /\ stmt[call[j].handle].use \in {"statement", "cursorQuery"}
  BY <1>1 DEF AnyInv, NamesInv, Named, UsedFor
<1> QED
  BY <1>2 DEF PassingOps

\* A step that changes no object but that of its call. Handles that nobody has any
\* more may change too.
LEMMA OrderlyStep ==
  ASSUME AnyInv, OrderlyInv, NEW j \in Calls, Steps(j), UsesKept,
         Pending(j), call'[j].at \notin {"queued", "idle"},
         \A c \in Conns : conn'[c].db # "disconnected",
         \A h \in Handles : stmt[h].use \notin PassingOps /\ h # call[j].handle =>
            \/ stmt'[h] = stmt[h]
            \/ ~stmt[h].wrapper /\ ~Busy(h) /\ ~stmt'[h].wrapper,
         call[j].handle \in Handles /\ stmt[call[j].handle].use \notin PassingOps =>
            ObjectOK(call[j].handle)',
         call'[j].at # "answered" => CallOK(j)',
         FreedOnce' /\ NothingUsedAfterFree'
  PROVE  OrderlyInv'
<1> DEFINE mine == call[j].handle
<1>1. /\ \A k \in Calls : /\ call'[k].op = call[k].op /\ call'[k].on = call[k].on
                          /\ call'[k].handle = call[k].handle
                          /\ k # j => call'[k] = call[k]
      /\ \A h \in Handles : stmt'[h].use = stmt[h].use /\ stmt'[h].of = stmt[h].of
  BY DEF Steps, UsesKept
<1>2. /\ \A k \in Calls : k # j => Pending(k)' = Pending(k)
      /\ \A k \in Calls : Pending(k)' => Pending(k)
  BY <1>1 DEF Pending
<1>3. \A h \in Handles : /\ Busy(h)' => Busy(h)
                         /\ h # mine => (Busy(h)' <=> Busy(h))
  BY <1>1, <1>2 DEF Busy
<1>4. AwaitedInv'
  BY <1>1, <1>2 DEF OrderlyInv, AwaitedInv
<1>5. ClosingInv'
  <2> SUFFICES ASSUME NEW k \in Calls, Pending(k)', call'[k].op = "closeConnection",
                      NEW h \in Handles, stmt'[h].of = call'[k].on
               PROVE  \/ stmt'[h].use \in PassingOps
                      \/ ~stmt'[h].wrapper /\ ~Busy(h)'
    BY DEF ClosingInv, MayClose
  <2>1. \/ stmt[h].use \in PassingOps
        \/ ~stmt[h].wrapper /\ ~Busy(h)
    BY <1>1, <1>2 DEF OrderlyInv, ClosingInv, MayClose
  <2>2. ~Busy(h) => h # mine
    BY DEF Busy
  <2> QED
    BY <1>1, <1>3, <2>1, <2>2
<1>6. ObjectsInv'
  <2> SUFFICES ASSUME NEW h \in Handles, stmt'[h].use \notin PassingOps PROVE ObjectOK(h)'
    BY DEF ObjectsInv
  <2>1. CASE h = mine
    BY <1>1, <2>1
  <2>2. CASE h # mine
    <3>1. stmt[h].use \notin PassingOps /\ ObjectOK(h)
      BY <1>1 DEF OrderlyInv, ObjectsInv
    <3>2. CASE stmt'[h] = stmt[h]
      BY <1>3, <2>2, <3>1, <3>2 DEF ObjectOK, Sound
    <3>3. CASE ~stmt'[h].wrapper
      BY <3>3 DEF ObjectOK
    <3> QED
      BY <2>2, <3>1, <3>2, <3>3
  <2> QED
    BY <2>1, <2>2
<1>7. CallsInv'
  <2> SUFFICES ASSUME NEW k \in Calls, Pending(k)' PROVE CallOK(k)'
    BY DEF CallsInv
  <2>1. CASE k = j
    BY <2>1 DEF Pending
  <2>2. CASE k # j
    <3>1. call'[k] = call[k] /\ Pending(k) /\ CallOK(k) /\ call[k].at # "idle"
      BY <1>1, <1>2, <2>2 DEF OrderlyInv, CallsInv, Pending
    <3>2. CASE call[k].op \in {"createStatement", "cursorQuery"} \cup StatementOps \cup CursorOps
      <4>1. call[k].handle \in Handles /\ stmt[call[k].handle].use \notin PassingOps
        BY <3>1, <3>2, UsingObject
      <4>2. call[k].handle # mine
        BY <2>2, <3>1, <4>1 DEF OrderlyInv, AwaitedInv
      <4>3. Busy(call[k].handle)
        BY <3>1 DEF Busy
      <4>4. stmt'[call[k].handle] = stmt[call[k].handle]
        BY <4>1, <4>2, <4>3
      <4>5. Sound(call[k].handle) => Sound(call[k].handle)'
        BY <1>1, <4>4 DEF Sound
      <4>6. Closes(k) => Closes(k)'
        BY <3>1, <4>4 DEF Closes
      <4> QED
        BY <3>1, <4>4, <4>5, <4>6 DEF CallOK, CreatingOK, QueryingOK, UsingOK
    <3>3. CASE call[k].op \notin {"createStatement", "cursorQuery"} \cup StatementOps \cup CursorOps
      BY <3>1, <3>3 DEF CallOK, CreatingOK, QueryingOK, UsingOK
    <3> QED
      BY <3>2, <3>3
  <2> QED
    BY <2>1, <2>2
<1> QED
  BY <1>4, <1>5, <1>6, <1>7 DEF OrderlyInv

LEMMA NoMisuse == ASSUME OrderlyInv, misuse' = misuse PROVE FreedOnce' /\ NothingUsedAfterFree'
BY DEF OrderlyInv, FreedOnce, NothingUsedAfterFree

\* Calls about connections.
LEMMA OrderlyConnection ==
  ASSUME AnyInv, OrderlyInv, NEW j \in Calls, "freeConnection" \notin Failures,
         ConnectBegins(j) \/ ConnectEnds(j) \/ CloseConnection(j)
  PROVE  OrderlyInv'
<1>1. /\ call[j].op \in ConnectionOps /\ call[j].at \in {"queued", "connecting"}
      /\ Pending(j) /\ call[j].handle = NoName
  BY DEF ConnectBegins, ConnectEnds, CloseConnection, Running, ConnectionOps, Pending, AnyInv, NamesInv, Named
<1>2. /\ Steps(j) /\ call'[j].at \in {"connecting", "done"} /\ misuse' = misuse
      /\ stmt' = stmt \/ (FreeStatementsOf(call[j].on) /\ call[j].op = "closeConnection")
  <2>1. TypeOK
    BY DEF AnyInv
  <2>2. CASE ConnectBegins(j) \/ ConnectEnds(j)
    BY <2>1, <2>2, StepForms DEF ConnectBegins, ConnectEnds
  <2>3. CASE CloseConnection(j)
    BY <2>1, <2>3, StepForms DEF CloseConnection, Running
  <2> QED
    BY <2>2, <2>3
<1>3. \A c \in Conns : conn'[c].db # "disconnected"
  <2>1. \/ conn' = conn
        \/ \E d \in {"lost", "open", "null"} : conn' = [conn EXCEPT ![call[j].on].db = d]
    BY DEF ConnectBegins, ConnectEnds, CloseConnection, MayFail
  <2>2. conn \in [Conns -> ConnType] /\ \A c \in Conns : conn[c].db # "disconnected"
    BY DEF AnyInv, TypeOK, OrderlyInv
  <2> QED
    BY <2>1, <2>2 DEF ConnType
<1>4. UsesKept
      /\ \A h \in Handles : stmt[h].use \notin PassingOps =>
            \/ stmt'[h] = stmt[h]
            \/ ~stmt[h].wrapper /\ ~Busy(h) /\ ~stmt'[h].wrapper
  <2>1. CASE stmt' = stmt
    BY <2>1 DEF UsesKept
  <2>2. CASE FreeStatementsOf(call[j].on) /\ call[j].op = "closeConnection"
    <3>1. \A h \in Handles : /\ stmt'[h].use = stmt[h].use /\ stmt'[h].of = stmt[h].of
                             /\ stmt'[h].wrapper = stmt[h].wrapper
                             /\ stmt[h].of # call[j].on => stmt'[h] = stmt[h]
      BY <2>2 DEF FreeStatementsOf, AnyInv, TypeOK, StmtType
    <3>2. MayClose(call[j].on)
      BY <1>1, <2>2 DEF OrderlyInv, ClosingInv
    <3> QED
      BY <3>1, <3>2 DEF UsesKept, MayClose
  <2> QED
    BY <1>2, <2>1, <2>2
<1>5. CallOK(j)'
  <2>1. call'[j].op = call[j].op
    BY <1>2 DEF Steps
  <2> QED
    BY <1>1, <2>1 DEF CallOK, CreatingOK, QueryingOK, UsingOK, ConnectionOps, StatementOps, CursorOps
<1> QED
  BY <1>1, <1>2, <1>3, <1>4, <1>5, NoMisuse, NamesAssumption, OrderlyStep

\* A handle is allocated.
LEMMA OrderlyAlloc ==
  ASSUME AnyInv, OrderlyInv, NEW j \in Calls,
         CreateStatement(j) \/ QueryBegins(j) \/ CatalogBegins(j)
  PROVE  OrderlyInv'
<1> DEFINE mine == call[j].handle
<1>1. /\ call[j].op \in CreatingOps /\ call[j].at = "queued" /\ Pending(j)
      /\ call[j].op \notin StatementOps /\ call[j].op \notin CursorOps
      /\ misuse' = misuse /\ conn' = conn
  BY DEF CreateStatement, QueryBegins, CatalogBegins, Running, CreatingOps, PassingOps, Pending,
     StatementOps, CursorOps
<1>2. mine \in Handles /\ stmt \in [Handles -> StmtType] /\ stmt[mine].use = UsedFor(call[j].op)
  BY <1>1 DEF AnyInv, NamesInv, Named, TypeOK, CreatingOps, PassingOps, ConnectionOps
<1>3. /\ Steps(j) /\ call'[j].at \in {"running", "done"} /\ call'[j].op = call[j].op
      /\ call'[j].handle = mine
      /\ call'[j].at = "done" /\ ~call'[j].failed => CreateStatement(j) /\ stmt'[mine].driver = "live"
      /\ call'[j].at = "running" => stmt' = [stmt EXCEPT ![mine].driver = "live", ![mine].hstmt = TRUE]
  <2>1. CASE CreateStatement(j)
    <3>1. PICK failed \in AllocMayFail(call[j].on) :
            /\ Ends(j, failed)
            /\ stmt' = IF failed THEN stmt ELSE [stmt EXCEPT ![mine].driver = "live"]
      BY <2>1 DEF CreateStatement
    <3>2. Steps(j) /\ call'[j].at = "done" /\ call'[j].failed = failed
      BY <3>1, StepForms DEF AnyInv
    <3>3. ~failed => stmt'[mine].driver = "live"
      BY <1>2, <3>1 DEF StmtType
    <3> QED
      BY <2>1, <3>2, <3>3 DEF Steps
  <2>2. CASE QueryBegins(j) \/ CatalogBegins(j)
    <3>1. \/ Ends(j, TRUE)
          \/ Moves(j, "running") /\ stmt' = [stmt EXCEPT ![mine].driver = "live", ![mine].hstmt = TRUE]
      BY <2>2 DEF QueryBegins, CatalogBegins
    <3>2. TypeOK
      BY DEF AnyInv
    <3>3. CASE Ends(j, TRUE)
      BY <3>2, <3>3, StepForms DEF Steps
    <3>4. CASE Moves(j, "running") /\ stmt' = [stmt EXCEPT ![mine].driver = "live", ![mine].hstmt = TRUE]
      BY <3>2, <3>4, StepForms DEF Steps
    <3> QED
      BY <3>1, <3>3, <3>4
  <2> QED
    BY <2>1, <2>2
<1>4. /\ \A h \in Handles : h # mine => stmt'[h] = stmt[h]
      /\ stmt'[mine].use = stmt[mine].use /\ stmt'[mine].of = stmt[mine].of
      /\ stmt'[mine].wrapper = stmt[mine].wrapper
      /\ stmt'[mine].data = stmt[mine].data
      /\ call'[j].at = "running" => stmt'[mine].driver = "live" /\ stmt'[mine].hstmt
  <2>1. \/ stmt' = stmt
        \/ stmt' = [stmt EXCEPT ![mine].driver = "live"]
        \/ stmt' = [stmt EXCEPT ![mine].driver = "live", ![mine].hstmt = TRUE]
    BY DEF CreateStatement, QueryBegins, CatalogBegins
  <2>2. call'[j].at = "running" => stmt' = [stmt EXCEPT ![mine].driver = "live", ![mine].hstmt = TRUE]
    BY <1>3
  <2> HIDE DEF mine
  <2> QED
    BY <1>2, <2>1, <2>2 DEF StmtType
<1>5. UsesKept
  BY <1>4 DEF UsesKept
<1>6. CallOK(j)
  BY <1>1 DEF OrderlyInv, CallsInv
<1>7. CreatingOK(j)'
  BY <1>3, <1>4, <1>6 DEF CallOK, CreatingOK
<1>8. QueryingOK(j)'
  <2>1. call[j].op = "cursorQuery" => ~CreateStatement(j)
    BY DEF CreateStatement, Running
  <2> QED
    BY <1>1, <1>3, <1>4, <1>6, <2>1 DEF CallOK, QueryingOK, Sound
<1>9. UsingOK(j)'
  BY <1>1, <1>3 DEF UsingOK
<1>10. stmt[mine].use \notin PassingOps => ~stmt'[mine].wrapper
  <2>1. stmt[mine].use \notin PassingOps => call[j].op \in {"createStatement", "cursorQuery"}
    BY <1>1, <1>2 DEF UsedFor, CreatingOps, PassingOps
  <2> QED
    BY <1>4, <1>6, <2>1 DEF CallOK, CreatingOK, QueryingOK
<1>11. stmt[mine].use \notin PassingOps => ObjectOK(mine)'
  BY <1>3, <1>10 DEF ObjectOK
<1>12. \A c \in Conns : conn'[c].db # "disconnected"
  BY <1>1 DEF OrderlyInv
<1> QED
  BY <1>1, <1>3, <1>4, <1>5, <1>7, <1>8, <1>9, <1>11, <1>12, NoMisuse, OrderlyStep DEF CallOK

\* A step of a worker leaves its object busy.
LEMMA OrderlyWork ==
  ASSUME AnyInv, OrderlyInv, NEW j \in Calls, Steps(j), UsesKept,
         Pending(j), call'[j].at \notin {"queued", "idle", "answered"}, conn' = conn,
         \A h \in Handles : h # call[j].handle => stmt'[h] = stmt[h],
         stmt'[call[j].handle].wrapper = stmt[call[j].handle].wrapper,
         CallOK(j)', FreedOnce' /\ NothingUsedAfterFree'
  PROVE  OrderlyInv'
<1> DEFINE mine == call[j].handle
<1>1. call'[j].handle = mine /\ Busy(mine)'
  BY DEF Steps, Busy, Pending
<1>2. mine \in Handles /\ stmt[mine].use \notin PassingOps => ObjectOK(mine)'
  BY <1>1 DEF ObjectOK, OrderlyInv, ObjectsInv
<1>3. \A c \in Conns : conn'[c].db # "disconnected"
  BY DEF OrderlyInv
<1> QED
  BY <1>2, <1>3, OrderlyStep

LEMMA SoundUse ==
  ASSUME NEW h, Sound(h)
  PROVE  MisuseOf(h) = {} /\ FreedTwice(h) = {} /\ stmt[h].data # "deleted"
BY DEF Sound, MisuseOf, FreedTwice

\* Handles are used while they are there.
LEMMA OrderlyUses ==
  ASSUME AnyInv, OrderlyInv, NEW j \in Calls, UsesStatement(j),
         \/ call[j].at = "running"
         \/ call[j].at = "queued" /\ call[j].op \in StatementOps \cup CursorOps
  PROVE  OrderlyInv'
<1> DEFINE mine == call[j].handle
<1>1. /\ Steps(j) /\ call'[j].at = "done" /\ stmt' = stmt /\ conn' = conn
      /\ misuse' = misuse \cup MisuseOf(mine) /\ Pending(j)
      /\ call'[j].op = call[j].op /\ call'[j].handle = mine
  <2>1. Steps(j) /\ call'[j].at = "done"
    BY StepForms DEF UsesStatement, AnyInv
  <2> QED
    BY <2>1 DEF UsesStatement, Pending, Steps
<1>2. CallOK(j)
  BY <1>1 DEF OrderlyInv, CallsInv
<1>3. call[j].op \notin PassingOps => Sound(mine)
  <2>1. CASE call[j].at = "running"
    BY <1>2, <2>1 DEF AnyInv, NamesInv, Named, CreatingOps, CallOK, QueryingOK
  <2>2. CASE call[j].at = "queued" /\ call[j].op \in StatementOps \cup CursorOps
    BY <1>2, <2>2 DEF CallOK, UsingOK
  <2> QED
    BY <2>1, <2>2
<1>4. call[j].op \in PassingOps => stmt[mine].data = "live" /\ stmt[mine].use \in PassingOps
  BY DEF AnyInv, PassingInv, NamesInv, Named, CreatingOps, UsedFor, PassingOps, StatementOps, CursorOps
<1>5. misuse' \subseteq misuse \cup {"queryAfterFree"}
  <2>1. CASE call[j].op \notin PassingOps
    BY <1>1, <1>3, <2>1, SoundUse
  <2>2. CASE call[j].op \in PassingOps
    BY <1>1, <1>4, <2>2 DEF MisuseOf
  <2> QED
    BY <2>1, <2>2
<1>6. FreedOnce' /\ NothingUsedAfterFree'
  BY <1>5 DEF OrderlyInv, FreedOnce, NothingUsedAfterFree
<1>7. UsesKept
  BY <1>1 DEF UsesKept
<1>8. call[j].op # "createStatement"
  BY DEF AnyInv, NamesInv, Named, StatementOps, CursorOps
<1>9. call[j].op \in PassingOps => call[j].op \notin {"cursorQuery"} \cup StatementOps \cup CursorOps
  BY DEF PassingOps, StatementOps, CursorOps
<1>10. CallOK(j)'
  <2>1. Sound(mine) => Sound(mine)'
    BY <1>1 DEF Sound
  <2>2. QueryingOK(j)' /\ CreatingOK(j)'
    BY <1>1, <1>2, <1>3, <1>8, <1>9, <2>1 DEF CallOK, QueryingOK, CreatingOK
  <2>3. UsingOK(j)'
    BY <1>1, <1>2, <1>3, <1>9, <2>1 DEF CallOK, UsingOK
  <2> QED
    BY <2>2, <2>3 DEF CallOK
<1> QED
  BY <1>1, <1>6, <1>7, <1>10, OrderlyWork

\* A handle is freed and its data deleted by the one call that has them.
LEMMA OrderlyFrees ==
  ASSUME AnyInv, OrderlyInv, NEW j \in Calls, "freeStatement" \notin Failures,
         CloseCursor(j) \/ FreeBegins(j) \/ FreeHandle(j) \/ FreeData(j)
  PROVE  OrderlyInv'
<1> DEFINE mine == call[j].handle
<1>1. /\ call[j].at \in {"queued", "closed", "freeing", "deleting"} /\ Pending(j) /\ call[j].at # "idle"
      /\ conn' = conn
  BY DEF CloseCursor, FreeBegins, FreeHandle, FreeData, Running, Pending
<1>2. call[j].op \in {"closeStatement", "closeCursor"}
  BY DEF CloseCursor, FreeBegins, FreeHandle, FreeData, Running, AnyInv, NamesInv, Named, Closes
<1>3. /\ call[j].op \in StatementOps \cup CursorOps
      /\ call[j].op \notin {"createStatement", "cursorQuery"}
  BY <1>2 DEF StatementOps, CursorOps
<1>4. mine \in Handles /\ stmt[mine].use \notin PassingOps
  BY <1>1, <1>3, UsingObject
<1>5. CallOK(j) /\ UsingOK(j)
  BY <1>1 DEF OrderlyInv, CallsInv, CallOK
<1>6. /\ stmt \in [Handles -> StmtType] /\ TypeOK /\ call[j].failed \in BOOLEAN
  BY DEF AnyInv, TypeOK, CallType
<1>7. /\ stmt[mine].wrapper
      /\ call[j].at = "deleting" => ~call[j].failed /\ stmt[mine].data = "live"
      /\ call[j].at \in {"queued", "closed", "freeing"} => Sound(mine)
  BY <1>3, <1>5 DEF UsingOK
<1>8. CASE CloseCursor(j)
  <2>1. /\ Steps(j) /\ call'[j].at \in {"done", "closed"} /\ stmt' = stmt
        /\ misuse' = misuse \cup MisuseOf(mine)
    BY <1>6, <1>8, StepForms DEF CloseCursor
  <2>2. Sound(mine)
    BY <1>7, <1>8 DEF CloseCursor, Running
  <2>3. misuse' = misuse
    BY <2>1, <2>2, SoundUse
  <2>4. UsesKept
    BY <2>1 DEF UsesKept
  <2>5. CallOK(j)'
    <3>1. call'[j].op = call[j].op /\ call'[j].handle = mine
      BY <2>1 DEF Steps
    <3>2. Sound(mine)'
      BY <2>1, <2>2, <3>1 DEF Sound
    <3> QED
      BY <1>3, <1>7, <2>1, <3>1, <3>2 DEF CallOK, CreatingOK, QueryingOK, UsingOK
  <2> QED
    BY <1>1, <2>1, <2>3, <2>4, <2>5, NoMisuse, OrderlyWork
<1>9. CASE FreeBegins(j)
  <2>1. Sound(mine)
    BY <1>7, <1>9 DEF FreeBegins, Running
  <2>2. Moves(j, "freeing") /\ stmt' = stmt /\ misuse' = misuse
    BY <1>9, <2>1 DEF FreeBegins, Sound
  <2>3. Steps(j) /\ call'[j].at = "freeing"
    BY <1>6, <2>2, StepForms
  <2>4. UsesKept
    BY <2>2 DEF UsesKept
  <2>5. CallOK(j)'
    <3>1. call'[j].op = call[j].op /\ call'[j].handle = mine
      BY <2>3 DEF Steps
    <3>2. Sound(mine)'
      BY <2>1, <2>2, <3>1 DEF Sound
    <3> QED
      BY <1>3, <1>7, <2>2, <2>3, <3>1, <3>2 DEF CallOK, CreatingOK, QueryingOK, UsingOK
  <2> QED
    BY <1>1, <2>2, <2>3, <2>4, <2>5, NoMisuse, OrderlyWork
<1>10. CASE FreeHandle(j)
  <2>1. Sound(mine) /\ call[j].at = "freeing"
    BY <1>7, <1>10 DEF FreeHandle
  <2>2. /\ call' = [call EXCEPT ![j].at = "deleting", ![j].failed = FALSE]
        /\ stmt' = [stmt EXCEPT ![mine].hstmt = FALSE, ![mine].driver = "freed"]
        /\ misuse' = misuse
    <3>1. FreeMayFail(mine) = {FALSE}
      BY <2>1 DEF FreeMayFail, MayFail, Sound
    <3>2. misuse' = misuse
      BY <1>10, <2>1, SoundUse DEF FreeHandle
    <3> QED
      BY <1>10, <3>1, <3>2 DEF FreeHandle
  <2>3. Steps(j) /\ call'[j].at = "deleting" /\ ~call'[j].failed
    <3>1. call \in [Calls -> CallType] /\ call[j] \in CallType
      BY DEF AnyInv, TypeOK
    <3>2. \A k \in Calls \ {j} : call'[k] = call[k]
      BY <2>2, <3>1
    <3>3. /\ call'[j].at = "deleting" /\ call'[j].op = call[j].op /\ ~call'[j].failed
          /\ call'[j].on = call[j].on /\ call'[j].handle = call[j].handle
      BY <2>2, <3>1 DEF CallType
    <3> QED
      BY <3>2, <3>3 DEF Steps
  <2>4. /\ \A h \in Handles : h # mine => stmt'[h] = stmt[h]
        /\ stmt'[mine].use = stmt[mine].use /\ stmt'[mine].of = stmt[mine].of
        /\ stmt'[mine].wrapper = stmt[mine].wrapper
        /\ stmt'[mine].data = stmt[mine].data
    BY <1>4, <1>6, <2>2 DEF StmtType
  <2>5. UsesKept
    BY <2>4 DEF UsesKept
  <2>6. CallOK(j)'
    <3>1. call'[j].op = call[j].op /\ call'[j].handle = mine /\ stmt[mine].data = "live"
      BY <2>1, <2>3 DEF Steps, Sound
    <3> QED
      BY <1>3, <1>7, <2>3, <2>4, <3>1 DEF CallOK, CreatingOK, QueryingOK, UsingOK
  <2> QED
    BY <1>1, <2>2, <2>3, <2>4, <2>5, <2>6, NoMisuse, OrderlyWork
<1>11. CASE FreeData(j)
  <2>1. /\ call[j].at = "deleting" /\ ~call[j].failed /\ Closes(j)
    BY <1>7, <1>11 DEF FreeData, AnyInv, NamesInv, Named
  <2>2. /\ stmt' = [stmt EXCEPT ![mine].data = "deleted"] /\ misuse' = misuse
        /\ Ends(j, call[j].failed)
    BY <1>11, <2>1 DEF FreeData
  <2>3. Steps(j) /\ call'[j].at = "done" /\ ~call'[j].failed
    BY <1>6, <2>1, <2>2, StepForms
  <2>4. /\ \A h \in Handles : h # mine => stmt'[h] = stmt[h]
        /\ stmt'[mine].use = stmt[mine].use /\ stmt'[mine].of = stmt[mine].of
        /\ stmt'[mine].wrapper = stmt[mine].wrapper
    BY <1>4, <1>6, <2>2 DEF StmtType
  <2>5. UsesKept
    BY <2>4 DEF UsesKept
  <2>6. CallOK(j)'
    <3>1. call'[j].op = call[j].op /\ call'[j].handle = mine
      BY <2>3 DEF Steps
    <3>2. Closes(j)'
      BY <2>1, <2>4, <3>1 DEF Closes
    <3> QED
      BY <1>3, <1>7, <2>3, <2>4, <3>1, <3>2 DEF CallOK, CreatingOK, QueryingOK, UsingOK
  <2> QED
    BY <1>1, <2>2, <2>3, <2>4, <2>5, <2>6, NoMisuse, OrderlyWork
<1> QED
  BY <1>8, <1>9, <1>10, <1>11

LEMMA OrderlyThread ==
  ASSUME AnyInv, OrderlyInv, NEW j \in Calls, Thread(j),
         "freeConnection" \notin Failures, "freeStatement" \notin Failures
  PROVE  OrderlyInv'
<1>1. CASE QueryRuns(j) \/ ProcedureRuns(j) \/ CatalogRuns(j) \/ PrepareRuns(j) \/ BindRuns(j)
           \/ ExecuteRuns(j) \/ FetchRuns(j)
  <2>1. /\ UsesStatement(j)
        /\ \/ call[j].at = "running"
           \/ call[j].at = "queued" /\ call[j].op \in StatementOps \cup CursorOps
    BY <1>1 DEF QueryRuns, ProcedureRuns, CatalogRuns, PrepareRuns, BindRuns, ExecuteRuns, FetchRuns,
       Running, StatementOps, CursorOps
  <2> QED
    BY <2>1, OrderlyUses
<1> QED
  BY <1>1, OrderlyConnection, OrderlyAlloc, OrderlyFrees DEF Thread

\* After a call the object it leaves refers to a live handle.
LEMMA OutcomeObject ==
  ASSUME AnyInv, NEW j \in Calls, call[j].at = "done", ~call[j].failed, CallOK(j),
         call[j].handle \in Handles, stmt[call[j].handle].use \notin PassingOps,
         NEW t, t = Outcome(call[j].handle, call[j].op)
  PROVE  t.wrapper => t.data = "live" /\ t.hstmt /\ t.driver = "live"
<1> DEFINE mine == call[j].handle
           s == stmt[mine]
<1>1. s \in StmtType /\ call[j].op \in CreatingOps \cup StatementOps \cup CursorOps
  BY NamedHandle DEF AnyInv, TypeOK
<1>2. CASE call[j].op = "createStatement"
  <2>1. ~s.wrapper /\ s.driver = "live"
    BY <1>2 DEF CallOK, CreatingOK
  <2>2. t = [s EXCEPT !.hstmt = TRUE, !.data = "live", !.wrapper = TRUE]
    BY <1>2 DEF Outcome
  <2> HIDE DEF s, mine
  <2> QED
    BY <1>1, <2>1, <2>2 DEF StmtType
<1>3. CASE call[j].op = "cursorQuery"
  <2>1. s.driver = "live" /\ s.data = "live" /\ s.hstmt
    BY <1>3 DEF CallOK, QueryingOK, Sound
  <2>2. t = [s EXCEPT !.wrapper = TRUE]
    BY <1>3 DEF Outcome
  <2> HIDE DEF s, mine
  <2> QED
    BY <1>1, <2>1, <2>2 DEF StmtType
<1>4. CASE call[j].op \in StatementOps \cup CursorOps
  <2>1. /\ s.wrapper
        /\ (s.data = "live" /\ s.hstmt /\ s.driver = "live") \/ Closes(j)
    BY <1>4 DEF CallOK, UsingOK, Sound
  <2>2. CASE call[j].op = "closeStatement"
    <3>1. t = [s EXCEPT !.wrapper = FALSE]
      BY <2>2 DEF Outcome, StatementOps
    <3> HIDE DEF s, mine
    <3> QED
      BY <1>1, <3>1 DEF StmtType
  <2>3. CASE call[j].op = "closeCursor"
    <3>1. /\ t = [s EXCEPT !.wrapper = s.wrapper /\ s.use = "statement", !.cursor = FALSE]
          /\ s.use # "statement" \/ (s.data = "live" /\ s.hstmt /\ s.driver = "live")
      BY <2>1, <2>3 DEF Outcome, Closes
    <3> HIDE DEF s, mine
    <3> QED
      BY <1>1, <3>1 DEF StmtType
  <2>4. CASE call[j].op \notin {"closeStatement", "closeCursor"}
    <3>1. /\ t = s \/ t = [s EXCEPT !.cursor = TRUE]
          /\ s.data = "live" /\ s.hstmt /\ s.driver = "live"
      BY <1>4, <2>1, <2>4 DEF Outcome, Closes, StatementOps, CursorOps
    <3> HIDE DEF s, mine
    <3> QED
      BY <1>1, <2>1, <3>1 DEF StmtType
  <2> QED
    BY <2>2, <2>3, <2>4
<1>5. call[j].op \notin PassingOps
  BY DEF AnyInv, NamesInv, Named, CreatingOps, UsedFor, PassingOps
<1> QED
  BY <1>1, <1>2, <1>3, <1>4, <1>5 DEF CreatingOps

LEMMA OrderlyAnswer ==
  ASSUME AnyInv, OrderlyInv, NEW j \in Calls, Answer(j)
  PROVE  OrderlyInv'
<1> DEFINE mine == call[j].handle
<1>1. /\ Steps(j) /\ call'[j].at = "answered" /\ call[j].at = "done" /\ Pending(j)
      /\ call'[j].handle = mine /\ misuse' = misuse
  BY StepForms DEF Answer, AnyInv, Pending, Steps
<1>2. \A c \in Conns : conn'[c].db # "disconnected"
  <2>1. conn \in [Conns -> ConnType] /\ \A c \in Conns : conn[c].db # "disconnected"
    BY DEF AnyInv, TypeOK, OrderlyInv
  <2> QED
    BY <2>1 DEF Answer, ConnType
<1>3. CallOK(j)
  BY <1>1 DEF OrderlyInv, CallsInv
<1>4. \/ stmt' = stmt /\ (call[j].failed \/ mine \notin Handles)
      \/ mine \in Handles /\ ~call[j].failed /\ stmt' = [stmt EXCEPT ![mine] = Outcome(mine, call[j].op)]
  <2>1. mine # NoName => mine \in Handles
    BY <1>1 DEF AnyInv, NamesInv, Named
  <2> QED
    BY <2>1, NamesAssumption DEF Answer
<1>5. CASE stmt' = stmt /\ (call[j].failed \/ mine \notin Handles)
  <2>1. UsesKept
    BY <1>5 DEF UsesKept
  <2>2. ASSUME mine \in Handles, stmt[mine].use \notin PassingOps PROVE ObjectOK(mine)'
    <3>1. call[j].op \in CreatingOps \cup StatementOps \cup CursorOps /\ call[j].failed
      BY <1>1, <1>5, <2>2, NamedHandle
    <3>2. call[j].op \notin PassingOps
      BY <1>1, <2>2 DEF AnyInv, NamesInv, Named, CreatingOps, UsedFor, PassingOps
    <3>3. CASE call[j].op \in {"createStatement", "cursorQuery"}
      BY <1>1, <1>3, <1>5, <3>3 DEF CallOK, CreatingOK, QueryingOK, ObjectOK
    <3>4. CASE call[j].op \in StatementOps \cup CursorOps
      BY <1>1, <1>3, <1>5, <3>1, <3>4 DEF CallOK, UsingOK, ObjectOK, Sound
    <3> QED
      BY <3>1, <3>2, <3>3, <3>4 DEF CreatingOps
  <2> QED
    BY <1>1, <1>2, <1>5, <2>1, <2>2, NoMisuse, OrderlyStep
<1>6. CASE mine \in Handles /\ ~call[j].failed /\ stmt' = [stmt EXCEPT ![mine] = Outcome(mine, call[j].op)]
  <2>1. /\ stmt'[mine] = Outcome(mine, call[j].op)
        /\ \A h \in Handles : h # mine => stmt'[h] = stmt[h]
    BY <1>6 DEF AnyInv, TypeOK
  <2>2. UsesKept
    BY <1>6, <2>1, OutcomeKeeps DEF UsesKept
  <2>3. ASSUME stmt[mine].use \notin PassingOps PROVE ObjectOK(mine)'
    <3>1. PICK t : t = Outcome(mine, call[j].op)
      OBVIOUS
    <3>2. t.wrapper => t.data = "live" /\ t.hstmt /\ t.driver = "live"
      BY <1>1, <1>3, <1>6, <2>3, <3>1, OutcomeObject
    <3>3. stmt'[mine] = t
      BY <2>1, <3>1
    <3> QED
      BY <1>1, <3>2, <3>3 DEF ObjectOK, Sound
  <2> QED
    BY <1>1, <1>2, <1>6, <2>1, <2>2, <2>3, NoMisuse, OrderlyStep
<1> QED
  BY <1>4, <1>5, <1>6

\* The handle of a query is freed at the end of its worker unless its connection is closed.
LEMMA OrderlyDeleted ==
  ASSUME AnyInv, OrderlyInv, NEW j \in Calls, WorkerDeleted(j)
  PROVE  OrderlyInv'
<1> DEFINE mine == call[j].handle
<1>1. /\ call'[j] = Idle /\ ~Pending(j) /\ ~Pending(j)'
      /\ \A k \in Calls \ {j} : call'[k] = call[k] /\ Pending(k)' = Pending(k)
      /\ \A h \in Handles : stmt'[h].use = stmt[h].use /\ stmt'[h].of = stmt[h].of
      /\ \A h \in Handles : stmt[h].use \notin PassingOps => stmt'[h] = stmt[h]
      /\ conn' = conn
  BY DeletedForms DEF WorkerDeleted
<1>2. misuse' = misuse
  <2>1. CASE call[j].op = "query"
    <3>1. QueryFrees(j) /\ js = j /\ js # NoCall
      BY <2>1, NamesAssumption DEF WorkerDeleted
    <3>2. call[j].at # "idle"
      BY <3>1 DEF AnyInv, AnsweringInv
    <3>3. mine \in Handles /\ stmt[mine].use = "query" /\ stmt[mine].of = call[j].on
          /\ call[j].on \in Conns
      BY <2>1, <3>2 DEF AnyInv, NamesInv, Named, CreatingOps, PassingOps, ConnectionOps, UsedFor
    <3>4. stmt[mine].driver = "freed" /\ stmt[mine].hstmt => conn[call[j].on].db = "null"
      BY <3>3 DEF AnyInv, PassingInv, OrderlyInv, PassingOps
    <3> QED
      BY <3>1, <3>4 DEF QueryFrees, FreedTwice
  <2>2. CASE call[j].op # "query"
    BY <2>2 DEF WorkerDeleted, CatalogForgets
  <2> QED
    BY <2>1, <2>2
<1>3. \A k \in Calls : Pending(k)' => Pending(k) /\ call'[k] = call[k] /\ k # j
  BY <1>1
<1>4. \A h \in Handles : Busy(h)' <=> Busy(h)
  BY <1>1 DEF Busy
<1>5. AwaitedInv'
  BY <1>3 DEF OrderlyInv, AwaitedInv
<1>6. ClosingInv'
  <2> SUFFICES ASSUME NEW k \in Calls, Pending(k)', call'[k].op = "closeConnection",
                      NEW h \in Handles, stmt'[h].of = call'[k].on
               PROVE  \/ stmt'[h].use \in PassingOps
                      \/ ~stmt'[h].wrapper /\ ~Busy(h)'
    BY DEF ClosingInv, MayClose
  <2>1. \/ stmt[h].use \in PassingOps
        \/ ~stmt[h].wrapper /\ ~Busy(h)
    BY <1>1, <1>3 DEF OrderlyInv, ClosingInv, MayClose
  <2> QED
    BY <1>1, <1>4, <2>1
<1>7. ObjectsInv'
  <2> SUFFICES ASSUME NEW h \in Handles, stmt'[h].use \notin PassingOps PROVE ObjectOK(h)'
    BY DEF ObjectsInv
  <2>1. ObjectOK(h) /\ stmt'[h] = stmt[h]
    BY <1>1 DEF OrderlyInv, ObjectsInv
  <2> QED
    BY <1>4, <2>1 DEF ObjectOK, Sound
<1>8. CallsInv'
  <2> SUFFICES ASSUME NEW k \in Calls, Pending(k)' PROVE CallOK(k)'
    BY DEF CallsInv
  <2>1. call'[k] = call[k] /\ CallOK(k) /\ call[k].at # "idle"
    BY <1>3 DEF OrderlyInv, CallsInv, Pending
  <2>2. CASE call[k].op \in {"createStatement", "cursorQuery"} \cup StatementOps \cup CursorOps
    <3>1. stmt'[call[k].handle] = stmt[call[k].handle]
      BY <1>1, <2>1, <2>2, UsingObject
    <3>2. Sound(call[k].handle) => Sound(call[k].handle)'
      BY <2>1, <3>1 DEF Sound
    <3>3. Closes(k) => Closes(k)'
      BY <2>1, <3>1 DEF Closes
    <3> QED
      BY <2>1, <3>1, <3>2, <3>3 DEF CallOK, CreatingOK, QueryingOK, UsingOK
  <2>3. CASE call[k].op \notin {"createStatement", "cursorQuery"} \cup StatementOps \cup CursorOps
    BY <2>1, <2>3 DEF CallOK, CreatingOK, QueryingOK, UsingOK
  <2> QED
    BY <2>2, <2>3
<1> QED
  BY <1>1, <1>2, <1>5, <1>6, <1>7, <1>8, NoMisuse DEF OrderlyInv

\* A new call is the only one about its handle, and none about a connection being closed.
LEMMA OrderlyAsked ==
  ASSUME AnyInv, OrderlyInv, NEW j \in Calls, NEW op, NEW c \in Conns, NEW h, Asks(j, op, c, h),
         \A d \in Conns : conn'[d].db # "disconnected",
         misuse' = misuse,
         \A g \in Handles : g # h => stmt'[g] = stmt[g],
         h \in Handles => ~Busy(h),
         op \in ConnectionOps => h = NoName /\ stmt' = stmt,
         op = "closeConnection" => MayClose(c),
         op \in CreatingOps =>
            /\ h \in Handles /\ stmt'[h].use = UsedFor(op) /\ stmt'[h].of = c
            /\ ~stmt'[h].wrapper
            /\ op = "cursorQuery" => stmt'[h].data = "live"
            /\ op \notin PassingOps =>
                 \A k \in Calls : ~(Pending(k) /\ call[k].op = "closeConnection" /\ call[k].on = c),
         op \in StatementOps \cup CursorOps =>
            h \in Handles /\ stmt' = stmt /\ Sound(h) /\ stmt[h].wrapper,
         op \in Ops
  PROVE  OrderlyInv'
<1>1. /\ call'[j].op = op /\ call'[j].on = c /\ call'[j].handle = h /\ call'[j].at = "queued"
      /\ ~Pending(j) /\ Pending(j)'
      /\ \A k \in Calls \ {j} : call'[k] = call[k] /\ Pending(k)' = Pending(k)
  BY DEF Asks, Pending
<1>2. \A k \in Calls : Pending(k) => k # j /\ (h \in Handles => call[k].handle # h)
  BY <1>1 DEF Busy
<1>3. /\ h \in Handles => Busy(h)'
      /\ \A g \in Handles : g # h => (Busy(g)' <=> Busy(g))
  BY <1>1 DEF Busy
<1>4. AwaitedInv'
  BY <1>1, <1>2 DEF OrderlyInv, AwaitedInv
<1>5. op \notin ConnectionOps => h \in Handles
  BY DEF Ops
<1>6. ClosingInv'
  <2> SUFFICES ASSUME NEW k \in Calls, Pending(k)', call'[k].op = "closeConnection",
                      NEW g \in Handles, stmt'[g].of = call'[k].on
               PROVE  \/ stmt'[g].use \in PassingOps
                      \/ ~stmt'[g].wrapper /\ ~Busy(g)'
    BY DEF ClosingInv, MayClose
  <2>1. CASE k = j
    <3>1. op = "closeConnection" /\ h = NoName /\ stmt' = stmt /\ MayClose(c)
      BY <1>1, <2>1 DEF ConnectionOps
    <3> QED
      BY <1>1, <1>3, <2>1, <3>1, NamesAssumption DEF MayClose
  <2>2. CASE k # j
    <3>1. call'[k] = call[k] /\ Pending(k) /\ MayClose(call[k].on)
      BY <1>1, <2>2 DEF OrderlyInv, ClosingInv
    <3>2. CASE g # h
      BY <1>3, <3>1, <3>2 DEF MayClose
    <3>3. CASE g = h /\ op \in CreatingOps
      <4>1. op \in PassingOps
        BY <1>1, <3>1, <3>3
      <4> QED
        BY <3>3, <4>1 DEF UsedFor, PassingOps
    <3>4. CASE g = h /\ op \in StatementOps \cup CursorOps
      BY <3>1, <3>4 DEF MayClose
    <3>5. CASE op \in ConnectionOps
      BY <1>3, <3>1, <3>2, <3>5, NamesAssumption
    <3> QED
      BY <3>2, <3>3, <3>4, <3>5 DEF Ops
  <2> QED
    BY <2>1, <2>2
<1>7. ObjectsInv'
  <2> SUFFICES ASSUME NEW g \in Handles, stmt'[g].use \notin PassingOps PROVE ObjectOK(g)'
    BY DEF ObjectsInv
  <2>1. CASE g # h
    <3>1. ObjectOK(g) /\ stmt'[g] = stmt[g]
      BY <2>1 DEF OrderlyInv, ObjectsInv
    <3> QED
      BY <1>3, <2>1, <3>1 DEF ObjectOK, Sound
  <2>2. CASE g = h
    <3>1. op \in CreatingOps \/ op \in StatementOps \cup CursorOps
      BY <2>2, NamesAssumption DEF Ops
    <3> QED
      BY <1>3, <2>2, <3>1 DEF ObjectOK
  <2> QED
    BY <2>1, <2>2
<1>8. CallsInv'
  <2> SUFFICES ASSUME NEW k \in Calls, Pending(k)' PROVE CallOK(k)'
    BY DEF CallsInv
  <2>1. CASE k = j
    <3>1. op \in {"createStatement", "cursorQuery"} => op \in CreatingOps
      BY DEF CreatingOps
    <3>2. Sound(h) /\ stmt' = stmt => Sound(h)'
      BY DEF Sound
    <3>3. CreatingOK(j)'
      BY <1>1, <3>1 DEF CreatingOK
    <3>4. QueryingOK(j)'
      BY <1>1, <3>1 DEF QueryingOK
    <3>5. UsingOK(j)'
      <4>1. CASE op \in StatementOps \cup CursorOps
        <5>1. Sound(h)' /\ stmt'[h].wrapper
          BY <3>2, <4>1
        <5> QED
          BY <1>1, <5>1 DEF UsingOK, Sound
      <4>2. CASE op \notin StatementOps \cup CursorOps
        BY <1>1, <4>2 DEF UsingOK
      <4> QED
        BY <4>1, <4>2
    <3> QED
      BY <2>1, <3>3, <3>4, <3>5 DEF CallOK
  <2>2. CASE k # j
    <3>1. call'[k] = call[k] /\ Pending(k) /\ CallOK(k) /\ call[k].at # "idle"
      BY <1>1, <2>2 DEF OrderlyInv, CallsInv, Pending
    <3>2. CASE call[k].op \in {"createStatement", "cursorQuery"} \cup StatementOps \cup CursorOps
      <4>1. stmt'[call[k].handle] = stmt[call[k].handle]
        BY <1>2, <3>1, <3>2, UsingObject
      <4>2. Sound(call[k].handle) => Sound(call[k].handle)'
        BY <3>1, <4>1 DEF Sound
      <4>3. Closes(k) => Closes(k)'
        BY <3>1, <4>1 DEF Closes
      <4> QED
        BY <3>1, <4>1, <4>2, <4>3 DEF CallOK, CreatingOK, QueryingOK, UsingOK
    <3>3. CASE call[k].op \notin {"createStatement", "cursorQuery"} \cup StatementOps \cup CursorOps
      BY <3>1, <3>3 DEF CallOK, CreatingOK, QueryingOK, UsingOK
    <3> QED
      BY <3>2, <3>3
  <2> QED
    BY <2>1, <2>2
<1> QED
  BY <1>4, <1>6, <1>7, <1>8, NoMisuse DEF OrderlyInv

LEMMA OrderlyStays ==
  ASSUME OrderlyInv, call' = call, stmt' = stmt, conn' = conn, misuse' = misuse
  PROVE  OrderlyInv'
<1>1. \A j \in Calls : Pending(j)' = Pending(j)
  BY DEF Pending
<1>2. \A h \in Handles : (Busy(h)' <=> Busy(h)) /\ (Sound(h)' <=> Sound(h))
  BY <1>1 DEF Busy, Sound
<1>3. AwaitedInv' /\ ClosingInv' /\ ObjectsInv'
  BY <1>1, <1>2 DEF OrderlyInv, AwaitedInv, ClosingInv, MayClose, ObjectsInv, ObjectOK
<1>4. CallsInv'
  <2>1. \A j \in Calls : CallOK(j) => CallOK(j)'
    BY DEF CallOK, CreatingOK, QueryingOK, UsingOK, Sound, Closes
  <2> QED
    BY <1>1, <2>1 DEF OrderlyInv, CallsInv
<1> QED
  BY <1>3, <1>4, NoMisuse DEF OrderlyInv

\* An object that nobody uses has a live handle.
LEMMA RestingObject ==
  ASSUME AnyInv, OrderlyInv, NEW h \in Handles, ~Busy(h), stmt[h].wrapper,
         HasCursor(h) \/ stmt[h].use = "statement"
  PROVE  Sound(h) /\ stmt[h].data # "deleted"
<1>1. stmt[h].use \in {"statement", "cursorQuery"}
  BY DEF HasCursor, AnyInv, CursorsInv
<1>2. ObjectOK(h)
  BY <1>1 DEF OrderlyInv, ObjectsInv, PassingOps
<1> QED
  BY <1>2 DEF ObjectOK, Sound

LEMMA OrderlyProgram ==
  ASSUME AnyInv, OrderlyInv, Orderly = TRUE, Program
  PROVE  OrderlyInv'
<1>0. TypeOK /\ \A d \in Conns : conn[d].db # "disconnected"
  BY DEF AnyInv, OrderlyInv
<1>1. ASSUME NEW j \in Calls, NEW c \in Conns, CallConnect(j, c) \/ CallCloseConnection(j, c)
      PROVE  OrderlyInv'
  <2>1. PICK op \in ConnectionOps :
          /\ Asks(j, op, c, NoName)
          /\ op = "closeConnection" => MayClose(c)
    BY <1>0, <1>1, StepForms DEF CallConnect, CallCloseConnection, ConnectionOps
  <2>2. stmt' = stmt /\ misuse' = misuse /\ (conn' = conn \/ conn' = [conn EXCEPT ![c].db = "asked"])
    BY <1>1 DEF CallConnect, CallCloseConnection
  <2>3. \A d \in Conns : conn'[d].db # "disconnected"
    BY <1>0, <2>2 DEF TypeOK, ConnType
  <2>4. op \in Ops /\ op \notin CreatingOps /\ op \notin StatementOps \cup CursorOps
    BY DEF Ops, ConnectionOps, CreatingOps, PassingOps, StatementOps, CursorOps
  <2> QED
    BY <2>1, <2>2, <2>3, <2>4, OrderlyAsked, NamesAssumption
<1>2. ASSUME NEW j \in Calls, NEW op \in CreatingOps, NEW c \in Conns, NEW h \in Handles,
             CallCreate(j, op, c, h)
      PROVE  OrderlyInv'
  <2>1. /\ Asks(j, op, c, h) /\ stmt[h].use = "none" /\ stmt[h] = NoStmt
        /\ misuse' = misuse /\ conn' = conn
        /\ op \notin PassingOps =>
             \A k \in Calls : ~(Pending(k) /\ call[k].op = "closeConnection" /\ call[k].on = c)
    BY <1>0, <1>2, StepForms DEF CallCreate, AnyInv, LiveInv
  <2>2. /\ stmt'[h].use = UsedFor(op) /\ stmt'[h].of = c
        /\ stmt'[h].wrapper = stmt[h].wrapper
        /\ op = "cursorQuery" => stmt'[h].data = "live"
        /\ \A g \in Handles : g # h => stmt'[g] = stmt[g]
    <3>1. stmt' = [stmt EXCEPT ![h].use = UsedFor(op), ![h].of = c,
                               ![h].data = IF op = "createStatement" THEN @ ELSE "live"]
      BY <1>2 DEF CallCreate, UsedFor
    <3> HIDE DEF UsedFor
    <3> QED
      BY <1>0, <3>1 DEF TypeOK, StmtType
  <2>3. ~stmt[h].wrapper
    <3>1. ~NoStmt.wrapper
      BY DEF NoStmt
    <3> QED
      BY <2>1, <3>1
  <2>4. ~Busy(h)
    BY <2>1, NamedHandle, NamesAssumption DEF Busy, Pending, AnyInv, NamesInv, Named
  <2>5. /\ op \in Ops /\ op \notin ConnectionOps /\ op \notin StatementOps \cup CursorOps
        /\ op # "closeConnection"
    BY DEF Ops, ConnectionOps, CreatingOps, PassingOps, StatementOps, CursorOps
  <2> QED
    BY <1>0, <2>1, <2>2, <2>3, <2>4, <2>5, OrderlyAsked
<1>3. ASSUME NEW j \in Calls, NEW op \in StatementOps, NEW h \in Handles, CallStatement(j, op, h)
      PROVE  OrderlyInv'
  <2>1. /\ stmt[h].use = "statement" /\ stmt[h].wrapper /\ ~Busy(h)
        /\ stmt' = stmt /\ conn' = conn
    BY <1>3 DEF CallStatement
  <2>2. Sound(h) /\ stmt[h].data # "deleted"
    BY <2>1, RestingObject
  <2>3. Queue(j, op, stmt[h].of, h) /\ misuse' = misuse
    BY <1>3, <2>2 DEF CallStatement, LooksAtHandle
  <2>4. Asks(j, op, stmt[h].of, h) /\ stmt[h].of \in Conns
    BY <1>0, <2>1, <2>3, StepForms DEF AnyInv, LiveInv
  <2>5. op \in Ops /\ op \notin ConnectionOps /\ op \notin CreatingOps /\ op # "closeConnection"
    BY DEF Ops, ConnectionOps, CreatingOps, PassingOps, StatementOps
  <2> QED
    BY <1>0, <2>1, <2>2, <2>3, <2>4, <2>5, OrderlyAsked
<1>4. ASSUME NEW j \in Calls, NEW op \in CursorOps, NEW h \in Handles, CallCursor(j, op, h)
      PROVE  OrderlyInv'
  <2>1. /\ HasCursor(h) /\ ~Busy(h) /\ stmt[h].wrapper /\ Queue(j, op, stmt[h].of, h)
        /\ stmt' = stmt /\ conn' = conn /\ misuse' = misuse
    BY <1>4 DEF CallCursor, MayUseCursor
  <2>2. Sound(h)
    BY <2>1, RestingObject
  <2>3. Asks(j, op, stmt[h].of, h) /\ stmt[h].of \in Conns
    BY <1>0, <2>1, StepForms DEF AnyInv, LiveInv, CursorsInv, HasCursor
  <2>4. /\ op \in Ops /\ op \notin ConnectionOps /\ op \notin CreatingOps /\ op # "closeConnection"
        /\ op \notin StatementOps
    BY DEF Ops, ConnectionOps, CreatingOps, PassingOps, StatementOps, CursorOps
  <2> QED
    BY <1>0, <2>1, <2>2, <2>3, <2>4, OrderlyAsked
<1>5. ASSUME NEW h \in Handles, ReadNoData(h)
      PROVE  OrderlyInv'
  <2>1. stmt[h].data # "deleted"
    BY <1>5, RestingObject DEF ReadNoData, MayUseCursor
  <2> QED
    BY <1>5, <2>1, OrderlyStays DEF ReadNoData
<1> QED
  BY <1>1, <1>2, <1>3, <1>4, <1>5 DEF Program

LEMMA OrderlyInit == Init => OrderlyInv
<1> SUFFICES ASSUME Init PROVE OrderlyInv
  OBVIOUS
<1>1. \A j \in Calls : ~Pending(j)
  BY DEF Init, Idle, Pending
<1>2. \A h \in Handles : ~stmt[h].wrapper
  BY DEF Init, NoStmt
<1>3. \A c \in Conns : conn[c].db # "disconnected"
  BY DEF Init
<1>4. FreedOnce /\ NothingUsedAfterFree
  BY DEF Init, FreedOnce, NothingUsedAfterFree
<1> QED
  BY <1>1, <1>2, <1>3, <1>4 DEF OrderlyInv, AwaitedInv, ClosingInv, ObjectsInv, ObjectOK, CallsInv

LEMMA AlwaysOrderly ==
  ASSUME Orderly = TRUE, "freeConnection" \notin Failures, "freeStatement" \notin Failures
  PROVE  Spec => []OrderlyInv
<1>1. Init => AnyInv /\ OrderlyInv
  BY AnyInit, OrderlyInit
<1>2. AnyInv /\ OrderlyInv /\ [Next]_vars => (AnyInv /\ OrderlyInv)'
  <2> SUFFICES ASSUME AnyInv, OrderlyInv, [Next]_vars PROVE OrderlyInv'
    BY AnyStep
  <2>1. CASE UNCHANGED vars
    BY <2>1, OrderlyStays DEF vars
  <2> QED
    BY <2>1, OrderlyProgram, OrderlyThread, OrderlyAnswer, OrderlyDeleted DEF Next
<1> QED
  BY <1>1, <1>2, PTL DEF Spec

\* A program that awaits and closes in order never has a statement handle freed
\* twice: not by its close() and its connection, nor by a query's worker and its
\* connection, which may be closed while other queries run.
THEOREM AlwaysFreedOnce ==
  ASSUME Orderly = TRUE, "freeConnection" \notin Failures, "freeStatement" \notin Failures
  PROVE  Spec => []FreedOnce
<1>1. OrderlyInv => FreedOnce
  BY DEF OrderlyInv
<1> QED
  BY <1>1, AlwaysOrderly, PTL

\* Nor does any of its calls use a freed handle or deleted data, queries that
\* outlive their connection apart.
THEOREM NeverUsedAfterFree ==
  ASSUME Orderly = TRUE, "freeConnection" \notin Failures, "freeStatement" \notin Failures
  PROVE  Spec => []NothingUsedAfterFree
<1>1. OrderlyInv => NothingUsedAfterFree
  BY DEF OrderlyInv
<1> QED
  BY <1>1, AlwaysOrderly, PTL

=============================================================================
