---------------------------- MODULE Transactions ----------------------------
(***************************************************************************)
(* Transactions on connections that pools lend: who has a connection is    *)
(* Lending's, which module Pool implements; what a connection is doing is  *)
(* the driver's, through autocommit and the workers of begin, commit,      *)
(* rollback, setIsolationLevel, query and close.                           *)
(*                                                                         *)
(* A pool outside Reusing closes a connection that is brought back; so     *)
(* does close() of a connection that belongs to no pool. A piece of work   *)
(* is one statement that changes the database; names are used once.        *)
(***************************************************************************)
EXTENDS Lending

CONSTANTS
    Reusing,                 \* the pools with reuseConnections
    Works,                   \* statements that are ever executed, a bound
    Calls,                   \* calls that can be under way together, a bound
    NoPool, NoUser, Nothing, \* no pool, no user, no argument
    Failures,                \* the driver calls that may fail
    Tidy                     \* users settle before they give back to a reusing pool

Levels == {"default", "other"}
EndOps == {"commit", "rollback"}
TransactionOps == EndOps \cup {"begin"}
UserOps == TransactionOps \cup {"query", "setIsolationLevel"}

\* "autocommit": SQLSetConnectAttr when a transaction ends; "end": SQLEndTran;
\* "close": the rollback of close(); "disconnect": SQLDisconnect.
FailureKinds == {"begin", "end", "autocommit", "level", "query", "close", "disconnect"}

ASSUME PoolsAssumption == Reusing \subseteq Pools /\ NoPool \notin Pools
ASSUME NobodyAssumption == /\ NoUser \notin Users
                           /\ NoConn \notin Conns
                           /\ Nothing \notin Works \cup Levels
ASSUME ProgramAssumption == Failures \subseteq FailureKinds /\ Tidy \in BOOLEAN

VARIABLES
    session,   \* [Conns -> a native connection and its session in the database]
    work,      \* [Works -> a statement, what became of it, what its user was told]
    call,      \* [Calls -> a call and its worker]
    tx,        \* [Users -> what the user knows of its transaction]
    isolation  \* [Users -> what the user knows of its isolation level]

vars == <<line, lent, session, work, call, tx, isolation>>

\* auto: SQL_ATTR_AUTOCOMMIT is on. of: the pool that opened it.
SessionType == [at : {"none", "open", "closing"}, of : Pools \cup {NoPool},
                auto : BOOLEAN, level : Levels]

\* due: what the user may rely on. "auto" and "tx" are for a statement under way
\* outside or inside a transaction and nothing else of it; "open", "kept", "undone":
\* it was told so; "dropped": it closed the connection and with it the transaction
\* in which the statement was; "none": no promise.
WorkType == [by : Users \cup {NoUser}, on : Conns \cup {NoConn},
             at : {"none", "asked", "open", "kept", "undone", "failed"},
             due : {"none", "auto", "tx", "open", "kept", "undone", "dropped"}]

\* A query on NoConn is one whose connection was freed before it ran.
CallType == [op : UserOps \cup {"none", "close"}, by : Users \cup {NoUser},
             on : Conns \cup {NoConn}, arg : Works \cup Levels \cup {Nothing},
             at : {"idle", "queued", "ended", "done"}, failed : BOOLEAN]

\* Type correctness.
TypeOK ==
    /\ line \in [Pools -> Seq(Users)]
    /\ lent \in [Users -> Conns \cup {NoConn}]
    /\ session \in [Conns -> SessionType]
    /\ work \in [Works -> WorkType]
    /\ call \in [Calls -> CallType]
    /\ tx \in [Users -> {"none", "open", "unsure"}]
    /\ isolation \in [Users -> Levels \cup {"unsure"}]

NoSession == [at |-> "none", of |-> NoPool, auto |-> TRUE, level |-> "default"]
\* A faulty one, whose isolation level nobody set.
ConnectedUnset(p) == [at |-> "open", of |-> p, auto |-> TRUE, level |-> Nothing]
Connected(p) == [at |-> "open", of |-> p, auto |-> TRUE, level |-> "default"]
Idle == [op |-> "none", by |-> NoUser, on |-> NoConn, arg |-> Nothing, at |-> "idle",
         failed |-> FALSE]

Init ==
    /\ LendingInit
    /\ session = [c \in Conns |-> NoSession]
    /\ work = [w \in Works |-> [by |-> NoUser, on |-> NoConn, at |-> "none", due |-> "none"]]
    /\ call = [j \in Calls |-> Idle]
    /\ tx = [u \in Users |-> "none"]
    /\ isolation = [u \in Users |-> "default"]

-----------------------------------------------------------------------------
(* Terms used by the actions.                                              *)

MayFail(kind) == IF kind \in Failures THEN BOOLEAN ELSE {FALSE}

Pending(u, ops) == \E j \in Calls : call[j].at # "idle" /\ call[j].by = u /\ call[j].op \in ops
OpenOn(c) == {w \in Works : work[w].on = c /\ work[w].at = "open"}
Running(j, op, at) == call[j].op = op /\ call[j].at = at

\* Everything that is open on c is committed ("kept") or rolled back ("undone").
Settle(c, how) == work' = [w \in Works |-> IF w \in OpenOn(c) THEN [work[w] EXCEPT !.at = how]
                                                              ELSE work[w]]

\* What user u was told of its work, where that was "from", is now "to".
Told(u, from, to) ==
    work' = [w \in Works |-> IF work[w].by = u /\ work[w].due \in from
                               THEN [work[w] EXCEPT !.due = to] ELSE work[w]]

Ends(j, failed) == call' = [call EXCEPT ![j].at = "done", ![j].failed = failed]

-----------------------------------------------------------------------------
(* Pools and their users.                                                  *)

\* A faulty one, that may give a connection that is being closed.
ServableClosing(p, c) == session[c].at = "none" \/ session[c].of = p

\* What a pool can give: a new connection, or one that was left in it.
Servable(p, c) == \/ session[c].at = "none"
                  \/ session[c].at = "open" /\ session[c].of = p /\ p \in Reusing

Given(p, c) == session' = [session EXCEPT ![c] = IF @.at = "none" THEN Connected(p) ELSE @]

\* A user takes what it gets for a new connection.
Fresh(users) ==
    /\ tx' = [u \in Users |-> IF u \in users THEN "none" ELSE tx[u]]
    /\ isolation' = [u \in Users |-> IF u \in users THEN "default" ELSE isolation[u]]

\* Connecting takes no time here: who asks waits only for what others have.
Asks(p, u) ==
    /\ Ask(p, u)
    /\ \A c \in Conns : ~(Available(c) /\ Servable(p, c))
    /\ UNCHANGED <<session, work, call, tx, isolation>>

GetsAtOnce(p, u, c) ==
    /\ LendAtOnce(p, u, c) /\ Servable(p, c)
    /\ Given(p, c)
    /\ Fresh({u})
    /\ UNCHANGED <<work, call>>

GetsInTurn(p, c) ==
    /\ Serve(p, c) /\ Servable(p, c)
    /\ Given(p, c)
    /\ Fresh({Head(line[p])})
    /\ UNCHANGED <<work, call>>

IsRefused(p) == Refuse(p) /\ UNCHANGED <<session, work, call, tx, isolation>>

\* Before a user closes a connection it awaits its calls, all but its statements.
Awaited(u) == lent[u] # NoConn /\ ~Pending(u, UserOps \ {"query"})

\* As far as the user knows, nothing of it is left.
Tidied(u) == tx[u] = "none" /\ isolation[u] = "default" /\ ~Pending(u, {"query"})

\* What was open, and what is under way inside the transaction, is given up.
GivesUp(u) == Told(u, {"open", "tx"}, "dropped")

\* close() in a reusing pool: 'connected' is emitted, the connection is left as it
\* is and goes to whoever waits first.
GivesBack(p, u) ==
    /\ Awaited(u)
    /\ session[lent[u]].of = p /\ p \in Reusing
    /\ Tidy => Tidied(u)
    /\ IF line[p] # <<>> THEN HandOver(p, u) /\ Fresh({u, Head(line[p])})
                         ELSE Return(u) /\ Fresh({u})
    /\ GivesUp(u)
    /\ UNCHANGED <<session, call>>

\* A close() that closes the native connection.
Closes(j, u) ==
    /\ Awaited(u)
    /\ session[lent[u]].of \notin Reusing
    /\ call[j].at = "idle"
    /\ Return(u)
    /\ Fresh({u})
    /\ session' = [session EXCEPT ![lent[u]].at = "closing"]
    /\ call' = [call EXCEPT ![j] = [Idle EXCEPT !.op = "close", !.on = lent[u], !.at = "queued"]]
    /\ GivesUp(u)

-----------------------------------------------------------------------------
(* What a user calls. It awaits begin, commit, rollback and                *)
(* setIsolationLevel before it calls another of them; statements may be    *)
(* under way at any time, and then nothing is promised of them.            *)

Queue(j, u, op, arg) ==
    /\ lent[u] # NoConn
    /\ call[j].at = "idle"
    /\ call' = [call EXCEPT ![j] = [op |-> op, by |-> u, on |-> lent[u], arg |-> arg,
                                    at |-> "queued", failed |-> FALSE]]

\* beginTransaction(), commit() and rollback().
CallTransaction(j, u, op) ==
    /\ op \in TransactionOps
    /\ ~Pending(u, UserOps \ {"query"})
    /\ Queue(j, u, op, Nothing)
    /\ Told(u, {"auto", "tx"}, "none")
    /\ UNCHANGED <<line, lent, session, tx, isolation>>

\* Until it is answered, and after an error, the user does not know the level.
CallSetLevel(j, u, level) ==
    /\ ~Pending(u, UserOps \ {"query"})
    /\ Queue(j, u, "setIsolationLevel", level)
    /\ isolation' = [isolation EXCEPT ![u] = "unsure"]
    /\ UNCHANGED <<line, lent, session, work, tx>>

\* What user u may rely on for a statement it calls now.
Promised(u) == IF Pending(u, TransactionOps) \/ tx[u] = "unsure" THEN "none"
               ELSE IF tx[u] = "none" THEN "auto" ELSE "tx"

CallQuery(j, u, w) ==
    /\ work[w].at = "none"
    /\ Queue(j, u, "query", w)
    /\ work' = [work EXCEPT ![w] =
          [by |-> u, on |-> lent[u], at |-> "asked", due |-> Promised(u)]]
    /\ UNCHANGED <<line, lent, session, tx, isolation>>

-----------------------------------------------------------------------------
(* The workers, each step one call of the driver.                          *)

\* A faulty one, that does not look at what the driver answered.
BeginsUnseen(j) ==
    /\ Running(j, "begin", "queued")
    /\ \E failed \in MayFail("begin") :
          /\ Ends(j, FALSE)
          /\ session' = IF failed THEN session ELSE [session EXCEPT ![call[j].on].auto = FALSE]
    /\ UNCHANGED <<line, lent, work, tx, isolation>>

\* BeginTransactionAsyncWorker.
Begins(j) ==
    /\ Running(j, "begin", "queued")
    /\ \E failed \in MayFail("begin") :
          /\ Ends(j, failed)
          /\ session' = IF failed THEN session ELSE [session EXCEPT ![call[j].on].auto = FALSE]
    /\ UNCHANGED <<line, lent, work, tx, isolation>>

\* A faulty one, that reports success after a failure.
EndsTransactionUnseen(j, op, how) ==
    /\ Running(j, op, "queued")
    /\ \/ /\ Settle(call[j].on, how)
          /\ call' = [call EXCEPT ![j].at = "ended"]
       \/ /\ "end" \in Failures
          /\ Ends(j, FALSE)
          /\ UNCHANGED work
    /\ UNCHANGED <<line, lent, session, tx, isolation>>

\* EndTransactionAsyncWorker: SQLEndTran. After a failure nothing else is done.
EndsTransaction(j, op, how) ==
    /\ Running(j, op, "queued")
    /\ \/ /\ Settle(call[j].on, how)
          /\ call' = [call EXCEPT ![j].at = "ended"]
       \/ /\ "end" \in Failures
          /\ Ends(j, TRUE)
          /\ UNCHANGED work
    /\ UNCHANGED <<line, lent, session, tx, isolation>>

Commits(j) == EndsTransaction(j, "commit", "kept")
RollsBack(j) == EndsTransaction(j, "rollback", "undone")

\* A faulty one, that does not report that autocommit stayed off.
ReturnsToAutocommitUnseen(j) ==
    /\ call[j].op \in EndOps /\ call[j].at = "ended"
    /\ Ends(j, FALSE)
    /\ \E failed \in MayFail("autocommit") :
          IF failed THEN UNCHANGED <<session, work>>
                    ELSE /\ session' = [session EXCEPT ![call[j].on].auto = TRUE]
                         /\ Settle(call[j].on, "kept")
    /\ UNCHANGED <<line, lent, tx, isolation>>

\* Then autocommit is turned on again, which commits what was done in between.
ReturnsToAutocommit(j) ==
    /\ call[j].op \in EndOps /\ call[j].at = "ended"
    /\ \E failed \in MayFail("autocommit") :
          /\ Ends(j, failed)
          /\ IF failed THEN UNCHANGED <<session, work>>
                       ELSE /\ session' = [session EXCEPT ![call[j].on].auto = TRUE]
                            /\ Settle(call[j].on, "kept")
    /\ UNCHANGED <<line, lent, tx, isolation>>

\* A faulty one, that reports success after a failure.
SetsLevelUnseen(j) ==
    /\ Running(j, "setIsolationLevel", "queued")
    /\ \E failed \in MayFail("level") \cup {OpenOn(call[j].on) # {}} :
          /\ OpenOn(call[j].on) # {} => failed
          /\ Ends(j, FALSE)
          /\ session' = [session EXCEPT ![call[j].on].level = IF failed THEN @ ELSE call[j].arg]
    /\ UNCHANGED <<line, lent, work, tx, isolation>>

\* SetIsolationLevelAsyncWorker; drivers refuse while a transaction is open.
SetsLevel(j) ==
    /\ Running(j, "setIsolationLevel", "queued")
    /\ \E failed \in MayFail("level") \cup {OpenOn(call[j].on) # {}} :
          /\ OpenOn(call[j].on) # {} => failed
          /\ Ends(j, failed)
          /\ session' = [session EXCEPT ![call[j].on].level = IF failed THEN @ ELSE call[j].arg]
    /\ UNCHANGED <<line, lent, work, tx, isolation>>

\* QueryAsyncWorker, at SQLExecute or SQLExecDirect: nothing runs once hDBC is null.
Executes(j) ==
    /\ Running(j, "query", "queued")
    /\ \E failed \in IF call[j].on = NoConn THEN {TRUE} ELSE MayFail("query") :
          /\ Ends(j, failed)
          /\ work' = [work EXCEPT ![call[j].arg].at =
                CASE failed -> "failed"
                  [] ~failed /\ session[call[j].on].auto -> "kept"
                  [] ~failed /\ ~session[call[j].on].auto -> "open"]
    /\ UNCHANGED <<line, lent, session, tx, isolation>>

\* CloseAsyncWorker: SQLEndTran with SQL_ROLLBACK, whoever has done what.
CloseRollsBack(j) ==
    /\ Running(j, "close", "queued")
    /\ \/ /\ Settle(call[j].on, "undone")
          /\ call' = [call EXCEPT ![j].at = "ended"]
       \/ /\ "close" \in Failures
          /\ Ends(j, TRUE)
          /\ UNCHANGED work
    /\ UNCHANGED <<line, lent, session, tx, isolation>>

\* Then SQLDisconnect, which a driver refuses inside a transaction, and SQLFreeHandle,
\* after which hDBC is null for the statements that wait for their turn. What is not
\* disconnected stays open, with nobody to use it but these.
Disconnects(j) ==
    LET c == call[j].on IN
    /\ Running(j, "close", "ended")
    /\ \/ /\ OpenOn(c) # {} \/ "disconnect" \in Failures
          /\ Ends(j, TRUE)
          /\ UNCHANGED session
       \/ /\ OpenOn(c) = {}
          /\ session' = [session EXCEPT ![c] = NoSession]
          /\ call' = [k \in Calls |->
                CASE k = j -> [call[j] EXCEPT !.at = "done", !.failed = FALSE]
                  [] k # j /\ call[k].op = "query" /\ call[k].on = c -> [call[k] EXCEPT !.on = NoConn]
                  [] OTHER -> call[k]]
    /\ UNCHANGED <<line, lent, work, tx, isolation>>

-----------------------------------------------------------------------------
(* OnOK or OnError: the callback tells the user, who draws conclusions.    *)

\* After an error of commit() or rollback() the user cannot know which half failed.
Learns(u, op, failed) ==
    CASE op = "begin" /\ ~failed -> tx' = [tx EXCEPT ![u] = IF @ = "none" THEN "open" ELSE @]
      [] op \in EndOps -> tx' = [tx EXCEPT ![u] = IF failed THEN "unsure" ELSE "none"]
      [] OTHER -> UNCHANGED tx

LearnsLevel(j) ==
    isolation' = IF call[j].op = "setIsolationLevel" /\ ~call[j].failed
                   THEN [isolation EXCEPT ![call[j].by] = call[j].arg] ELSE isolation

Believes(j) ==
    LET u == call[j].by  w == call[j].arg IN
    CASE call[j].op \in EndOps ->
           Told(u, {"open"}, CASE call[j].failed -> "none"
                               [] ~call[j].failed /\ call[j].op = "commit" -> "kept"
                               [] ~call[j].failed /\ call[j].op = "rollback" -> "undone")
      [] call[j].op = "query" ->
           work' = [work EXCEPT ![w].due = CASE call[j].failed -> "none"
                                             [] ~call[j].failed /\ @ = "auto" -> "kept"
                                             [] ~call[j].failed /\ @ = "tx" -> "open"
                                             [] OTHER -> @]
      [] OTHER -> UNCHANGED work

Answer(j) ==
    /\ call[j].at = "done"
    /\ Believes(j)
    /\ Learns(call[j].by, call[j].op, call[j].failed)
    /\ LearnsLevel(j)
    /\ call' = [call EXCEPT ![j] = Idle]
    /\ UNCHANGED <<line, lent, session>>

-----------------------------------------------------------------------------

PoolSteps ==
    \/ \E p \in Pools, u \in Users : Asks(p, u) \/ GivesBack(p, u)
    \/ \E p \in Pools, u \in Users, c \in Conns : GetsAtOnce(p, u, c)
    \/ \E p \in Pools, c \in Conns : GetsInTurn(p, c)
    \/ \E p \in Pools : IsRefused(p)
    \/ \E j \in Calls, u \in Users : Closes(j, u)

UserSteps == \E j \in Calls, u \in Users :
    \/ \E op \in TransactionOps : CallTransaction(j, u, op)
    \/ \E level \in Levels : CallSetLevel(j, u, level)
    \/ \E w \in Works : CallQuery(j, u, w)

WorkerSteps == \E j \in Calls :
    \/ Begins(j) \/ Commits(j) \/ RollsBack(j) \/ ReturnsToAutocommit(j)
    \/ SetsLevel(j) \/ Executes(j) \/ CloseRollsBack(j) \/ Disconnects(j)
    \/ Answer(j)

Next == PoolSteps \/ UserSteps \/ WorkerSteps

Spec == Init /\ [][Next]_vars

-----------------------------------------------------------------------------
(* Properties.                                                             *)

\* A user that was told its work is kept, undone or part of its open transaction was
\* told the truth, whatever else was under way: what was done outside a transaction
\* is in the database, a commit kept all and a rollback none of what was done before
\* it was called, nothing is settled before the user says so, and what was open when
\* a connection was closed is never kept (odbc_connection.cpp 2984-3015, 255-298).
AsTold == \A w \in Works :
    /\ work[w].due = "kept" => work[w].at = "kept"
    /\ work[w].due = "undone" => work[w].at = "undone"
    /\ work[w].due = "open" /\ ~Pending(work[w].by, EndOps) => work[w].at = "open"
    /\ work[w].due = "dropped" => work[w].at # "kept"

\* A connection that nobody has and that is not being closed is as a new one: no
\* work of anybody is open on it, it is in autocommit, at the default level. Its next
\* user does not know who had it before (Pool.js 422-452).
LeftClean == \A c \in Conns :
    session[c].at = "open" /\ Available(c)
        => OpenOn(c) = {} /\ session[c].auto /\ session[c].level = "default"

\* What is open on the connection of a user is the user's own work.
OwnWorkOnly == \A u \in Users : lent[u] # NoConn => \A w \in OpenOn(lent[u]) : work[w].by = u

\* Connections, autocommit and workers implement units of work: what is open on a
\* connection is one user's, and is committed or rolled back as a whole.
Executed(w) == work[w].at \in {"open", "kept", "undone"}
Units == INSTANCE WorkUnits WITH
    units <- {OpenOn(c) : c \in Conns} \ {{}},
    owner <- [w \in Works |-> IF Executed(w) THEN work[w].by ELSE NoUser],
    kept <- {w \in Works : work[w].at = "kept"}
SettledAsUnits == Units!UnitsSpec

\* README.md 510: "If a connection is closed with an open transaction, it will be
\* rolled back": what was open when its user closed the connection is never kept.
ClosedIsRolledBack == \A w \in Works : work[w].due = "dropped" => work[w].at # "kept"
=============================================================================
