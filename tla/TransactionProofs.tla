------------------------- MODULE TransactionProofs -------------------------
(***************************************************************************)
(* Proofs about module Transactions, for any pools, users, connections and *)
(* statements, any number of calls under way and any failures: with users  *)
(* that settle before they give a connection back, AsTold, LeftClean and   *)
(* OwnWorkOnly hold.                                                       *)
(***************************************************************************)
EXTENDS Transactions, LendingProofs

NonIdle(j) == call[j].at # "idle"

\* Lent connections are open, and a new one is in autocommit.
SessionsInv ==
    /\ \A u \in Users : lent[u] # NoConn => session[lent[u]].at = "open"
    /\ \A c \in Conns : session[c].at = "none" => session[c].auto

\* A call of a user that is not a query is on the connection it has.
InTurn(j) == NonIdle(j) /\ call[j].op \in UserOps \ {"query"}
UserCallsInv == \A j \in Calls : InTurn(j) =>
    /\ call[j].by \in Users
    /\ call[j].on \in Conns
    /\ lent[call[j].by] = call[j].on

\* A query is about its own statement, on the connection its user has, or had until
\* it closed it, or on none since that was freed.
AQuery(j) == NonIdle(j) /\ call[j].op = "query"
QueriesInv == \A j \in Calls : AQuery(j) =>
    /\ call[j].by \in Users
    /\ call[j].on # NoConn => \/ lent[call[j].by] = call[j].on
                             \/ session[call[j].on].at = "closing"
    /\ call[j].arg \in Works
    /\ call[j].at \in {"queued", "done"}
    /\ work[call[j].arg].by = call[j].by
    /\ call[j].on # NoConn => work[call[j].arg].on = call[j].on
    /\ call[j].at = "queued" => work[call[j].arg].at = "asked"
    /\ call[j].at = "done" /\ call[j].failed => work[call[j].arg].at = "failed"
    /\ call[j].at = "done" /\ ~call[j].failed => work[call[j].arg].at \in {"kept", "undone", "open"}

QueriesApart == \A j, k \in Calls :
    AQuery(j) /\ AQuery(k) /\ j # k => call[j].arg # call[k].arg

\* What is under way and what is open on a connection is one user's.
OwnersInv == \A j \in Calls : AQuery(j) /\ call[j].on # NoConn =>
    /\ \A k \in Calls : AQuery(k) /\ call[k].on = call[j].on => call[k].by = call[j].by
    /\ \A w \in Works : work[w].at = "open" /\ work[w].on = call[j].on
                            => work[w].by = call[j].by

\* A user has one call under way that is not a query.
OneAtATime == \A j, k \in Calls :
    InTurn(j) /\ InTurn(k) /\ call[j].by = call[k].by => j = k

OtherCallsInv == \A j \in Calls :
    /\ call[j].at = "idle" <=> call[j].op = "none"
    /\ call[j].op = "setIsolationLevel" => call[j].arg \in Levels
    /\ call[j].op \in {"begin", "setIsolationLevel"} => call[j].at # "ended"

\* A connection is closed by one call.
Closing(j) == call[j].op = "close" /\ call[j].at \in {"queued", "ended"}
ClosesInv ==
    /\ \A j \in Calls : call[j].op = "close" =>
          /\ call[j].on \in Conns
          /\ call[j].by = NoUser
          /\ Closing(j) => session[call[j].on].at = "closing"
    /\ \A j, k \in Calls : Closing(j) /\ Closing(k) /\ call[j].on = call[k].on => j = k

\* Autocommit leaves nothing open, and what is open belongs to who has the connection,
\* or it is being closed.
OpenInv == \A w \in Works : work[w].at = "open" =>
    /\ work[w].by \in Users
    /\ work[w].on \in Conns
    /\ ~session[work[w].on].auto
    /\ lent[work[w].by] = work[w].on \/ session[work[w].on].at = "closing"

\* What a user believes of autocommit, when no answer is on its way.
Sync(u) == /\ tx[u] = "none" => session[lent[u]].auto
           /\ tx[u] = "open" => ~session[lent[u]].auto

\* The answer of a transaction call of u is on its way, with news.
News(j, u) == /\ call[j].by = u /\ call[j].op \in TransactionOps
              /\ call[j].at = "done"
              /\ call[j].op = "begin" => ~call[j].failed

BeliefInv == \A u \in Users : lent[u] # NoConn => Sync(u) \/ \E j \in Calls : News(j, u)

AnswersInv == \A j \in Calls : call[j].at = "done" /\ ~call[j].failed =>
    /\ call[j].op = "begin" => ~session[call[j].on].auto
    /\ call[j].op \in EndOps => session[call[j].on].auto

\* Work under way that its user counts on.
UnderWayInv == \A w \in Works : work[w].due \in {"auto", "tx"} =>
    /\ work[w].by \in Users
    /\ ~Pending(work[w].by, TransactionOps)
    /\ \E j \in Calls : AQuery(j) /\ call[j].arg = w
    /\ work[w].due = "auto" => /\ tx[work[w].by] = "none"
                               /\ work[w].at \in {"asked", "kept", "failed"}
    /\ work[w].due = "tx" => /\ tx[work[w].by] = "open"
                             /\ work[w].at \in {"asked", "open", "failed"}
                             /\ work[w].on \in Conns
                             /\ lent[work[w].by] = work[w].on

\* What becomes of a statement whose connection its user has closed.
FatesInv == \A j \in Calls : AQuery(j) /\ call[j].on # NoConn =>
    /\ work[call[j].arg].due = "auto" /\ session[call[j].on].at = "closing"
          => session[call[j].on].auto
    /\ work[call[j].arg].due = "dropped"
          => session[call[j].on].at = "closing" /\ ~session[call[j].on].auto

\* What a user knows of the isolation level of its connection.
LevelInv ==
    /\ \A u \in Users : lent[u] # NoConn => isolation[u] \in {"unsure", session[lent[u]].level}
    /\ \A j \in Calls : NonIdle(j) /\ call[j].op = "setIsolationLevel" =>
          /\ isolation[call[j].by] = "unsure"
          /\ call[j].at = "done" /\ ~call[j].failed => session[call[j].on].level = call[j].arg

How(op) == IF op = "commit" THEN "kept" ELSE "undone"

\* Work in a transaction that is not settled, as far as its user knows.
OpenDueInv == \A w \in Works : work[w].due = "open" =>
    /\ work[w].by \in Users
    /\ lent[work[w].by] = work[w].on
    /\ work[w].on \in Conns
    /\ tx[work[w].by] = "open"
    /\ ~Pending(work[w].by, EndOps) => work[w].at = "open"
    /\ \A j \in Calls : NonIdle(j) /\ call[j].by = work[w].by /\ call[j].op \in EndOps =>
          /\ call[j].at = "queued" => work[w].at = "open"
          /\ call[j].at = "ended" \/ (call[j].at = "done" /\ ~call[j].failed)
                => work[w].at = How(call[j].op)

\* What is settled is settled.
SettledInv == \A w \in Works :
    /\ work[w].at = "none" => work[w].due = "none"
    /\ work[w].due = "kept" => work[w].at = "kept"
    /\ work[w].due = "undone" => work[w].at = "undone"
    /\ work[w].due = "dropped" => \/ work[w].at \in {"asked", "undone", "failed"}
                                  \/ /\ work[w].at = "open" /\ work[w].on \in Conns
                                     /\ session[work[w].on].at = "closing"

IInv == /\ TypeOK /\ LendInv /\ SessionsInv /\ LeftClean /\ UserCallsInv /\ QueriesInv
        /\ QueriesApart /\ OwnersInv /\ OneAtATime /\ OtherCallsInv /\ ClosesInv /\ OpenInv
        /\ BeliefInv /\ AnswersInv /\ UnderWayInv /\ FatesInv /\ LevelInv /\ OpenDueInv
        /\ SettledInv

-----------------------------------------------------------------------------
(* What the parts of actions do, field by field.                           *)

LEMMA EndsFacts ==
    ASSUME TypeOK, NEW j \in Calls, NEW failed \in BOOLEAN, Ends(j, failed)
    PROVE  /\ call' \in [Calls -> CallType]
           /\ call'[j].op = call[j].op /\ call'[j].by = call[j].by /\ call'[j].on = call[j].on
           /\ call'[j].arg = call[j].arg /\ call'[j].at = "done" /\ call'[j].failed = failed
           /\ \A k \in Calls \ {j} : call'[k] = call[k]
<1>1. call \in [Calls -> CallType]
  BY DEF TypeOK
<1>2. call' = [call EXCEPT ![j] = [call[j] EXCEPT !.at = "done", !.failed = failed]]
  BY <1>1 DEF Ends
<1>3. [call[j] EXCEPT !.at = "done", !.failed = failed] \in CallType
  BY <1>1 DEF CallType
<1> QED
  BY <1>1, <1>2, <1>3 DEF CallType

LEMMA EndedFacts ==
    ASSUME TypeOK, NEW j \in Calls, call' = [call EXCEPT ![j].at = "ended"]
    PROVE  /\ call' \in [Calls -> CallType]
           /\ call'[j].op = call[j].op /\ call'[j].by = call[j].by /\ call'[j].on = call[j].on
           /\ call'[j].arg = call[j].arg /\ call'[j].at = "ended"
           /\ \A k \in Calls \ {j} : call'[k] = call[k]
BY DEF TypeOK, CallType

LEMMA SettleFacts ==
    ASSUME TypeOK, NEW c \in Conns, NEW how \in {"kept", "undone"}, Settle(c, how)
    PROVE  /\ work' \in [Works -> WorkType]
           /\ \A w \in Works : /\ work'[w].by = work[w].by
                               /\ work'[w].on = work[w].on
                               /\ work'[w].due = work[w].due
                               /\ IF work[w].on = c /\ work[w].at = "open"
                                    THEN work'[w].at = how ELSE work'[w].at = work[w].at
BY DEF TypeOK, WorkType, Settle, OpenOn

LEMMA ToldFacts ==
    ASSUME TypeOK, NEW u \in Users, NEW from, NEW to \in {"none", "kept", "undone", "dropped"},
           Told(u, from, to)
    PROVE  /\ work' \in [Works -> WorkType]
           /\ \A w \in Works : /\ work'[w].by = work[w].by
                               /\ work'[w].on = work[w].on
                               /\ work'[w].at = work[w].at
                               /\ IF work[w].by = u /\ work[w].due \in from
                                    THEN work'[w].due = to ELSE work'[w].due = work[w].due
BY DEF TypeOK, WorkType, Told

LEMMA QueueFacts ==
    ASSUME TypeOK, NEW j \in Calls, NEW u \in Users, NEW op \in UserOps,
           NEW arg \in Works \cup Levels \cup {Nothing}, Queue(j, u, op, arg)
    PROVE  /\ call' \in [Calls -> CallType]
           /\ lent[u] \in Conns
           /\ call[j].at = "idle"
           /\ call'[j].op = op /\ call'[j].by = u /\ call'[j].on = lent[u]
           /\ call'[j].arg = arg /\ call'[j].at = "queued" /\ call'[j].failed = FALSE
           /\ \A k \in Calls \ {j} : call'[k] = call[k]
BY DEF TypeOK, CallType, Queue

LEMMA AutoFacts ==
    ASSUME TypeOK, NEW c \in Conns, NEW b \in BOOLEAN, session' = [session EXCEPT ![c].auto = b]
    PROVE  /\ session' \in [Conns -> SessionType]
           /\ session'[c].at = session[c].at
           /\ session'[c].level = session[c].level
           /\ session'[c].auto = b
           /\ \A d \in Conns \ {c} : session'[d] = session[d]
BY DEF TypeOK, SessionType

\* A call that is not a query is alone on its connection with its user.
LEMMA AloneThere ==
    ASSUME IInv, NEW j \in Calls, InTurn(j)
    PROVE  /\ call[j].by \in Users
           /\ call[j].on \in Conns
           /\ lent[call[j].by] = call[j].on
           /\ session[call[j].on].at = "open"
           /\ \A u \in Users : lent[u] = call[j].on => u = call[j].by
           /\ \A k \in Calls : InTurn(k) /\ (call[k].by = call[j].by \/ call[k].on = call[j].on) => k = j
<1>1. call[j].by \in Users /\ call[j].on \in Conns /\ lent[call[j].by] = call[j].on
  BY DEF IInv, UserCallsInv, InTurn
<1>2. call[j].on # NoConn
  BY <1>1, NobodyAssumption
<1>3. session[call[j].on].at = "open"
  BY <1>1, <1>2 DEF IInv, SessionsInv
<1>4. \A u \in Users : lent[u] = call[j].on => u = call[j].by
  BY <1>1, <1>2 DEF IInv, LendInv, OneUserEach
<1>5. \A k \in Calls : InTurn(k) => call[k].by \in Users /\ lent[call[k].by] = call[k].on
  BY DEF IInv, UserCallsInv, InTurn
<1>6. \A k \in Calls : InTurn(k) /\ call[k].on = call[j].on => call[k].by = call[j].by
  BY <1>4, <1>5
<1>5a. \A k \in Calls : InTurn(k) /\ call[k].by = call[j].by => k = j
  BY DEF IInv, OneAtATime
<1> QED
  BY <1>1, <1>3, <1>4, <1>6, <1>5a

-----------------------------------------------------------------------------

\* The worker of call j goes on, or the callback is next.
Advanced(j) ==
    /\ line' = line /\ lent' = lent
    /\ call' \in [Calls -> CallType]
    /\ call[j].at \in {"queued", "ended"}
    /\ call'[j].at \in {"ended", "done"}
    /\ call'[j].at = "ended" => call[j].op \in EndOps \cup {"close"}
    /\ call'[j].op = call[j].op /\ call'[j].by = call[j].by
    /\ call'[j].on = call[j].on /\ call'[j].arg = call[j].arg
    /\ \A k \in Calls \ {j} : call'[k] = call[k]

LEMMA AdvancedKeeps ==
    ASSUME IInv, NEW j \in Calls, Advanced(j)
    PROVE  LendInv' /\ UserCallsInv' /\ QueriesApart' /\ OneAtATime' /\ OtherCallsInv'
<1>1. LendInv'
  BY DEF Advanced, IInv, LendInv, OneUserEach, WaitersHaveNone, WaitOnce
<1>2. UserCallsInv'
  BY DEF Advanced, IInv, UserCallsInv, InTurn, NonIdle
<1>3. QueriesApart'
  BY DEF Advanced, IInv, QueriesApart, AQuery, NonIdle
<1>4. OneAtATime'
  BY DEF Advanced, IInv, OneAtATime, InTurn, NonIdle
<1>5. OtherCallsInv'
  BY DEF Advanced, IInv, OtherCallsInv, EndOps
<1> QED
  BY <1>1, <1>2, <1>3, <1>4, <1>5

\* Where no connection in use and nothing users believe changes.
LEMMA BeliefKept ==
    ASSUME IInv, NEW j \in Calls, Advanced(j), tx' = tx,
           \A u \in Users : lent[u] # NoConn => session'[lent[u]].auto = session[lent[u]].auto
    PROVE  BeliefInv'
<1> SUFFICES ASSUME NEW u \in Users, lent[u] # NoConn
             PROVE  Sync(u)' \/ \E k \in Calls : News(k, u)'
  BY DEF BeliefInv, Advanced
<1>1. Sync(u) \/ \E k \in Calls : News(k, u)
  BY DEF IInv, BeliefInv
<1>2. Sync(u) => Sync(u)'
  BY DEF Sync, Advanced
<1>3. \A k \in Calls : News(k, u) => News(k, u)'
  BY DEF News, Advanced
<1> QED
  BY <1>1, <1>2, <1>3

\* What a worker that is not a query's does to the work of others: what was open may
\* be settled.
Settles ==
    \A w \in Works : /\ work'[w].by = work[w].by
                     /\ work'[w].on = work[w].on
                     /\ work'[w].due = work[w].due
                     /\ \/ work'[w].at = work[w].at
                        \/ work[w].at = "open" /\ work'[w].at \in {"kept", "undone"}

\* Where nothing is closed, and a session that is being closed stays in its mode, what
\* is known of queries remains.
LEMMA QueriesKept ==
    ASSUME IInv, NEW j \in Calls, Advanced(j), call[j].op # "query", Settles,
           \A c \in Conns : /\ session'[c].at = session[c].at
                            /\ session[c].at = "closing" => session'[c].auto = session[c].auto
    PROVE  QueriesInv' /\ OwnersInv' /\ FatesInv'
<1>1. ASSUME NEW k \in Calls, AQuery(k)'
      PROVE  /\ AQuery(k) /\ call'[k] = call[k] /\ call[k].arg \in Works
             /\ call[k].on # NoConn => call[k].on \in Conns
  <2>1. k # j /\ call'[k] = call[k] /\ AQuery(k)
    BY <1>1 DEF Advanced, AQuery, NonIdle
  <2> QED
    BY <2>1 DEF IInv, QueriesInv, TypeOK, CallType
<1>2. QueriesInv'
  <2> SUFFICES ASSUME NEW k \in Calls, AQuery(k)'
               PROVE  /\ call[k].by \in Users
                      /\ call[k].on # NoConn => \/ lent[call[k].by] = call[k].on
                                               \/ session'[call[k].on].at = "closing"
                      /\ call[k].arg \in Works
                      /\ call[k].at \in {"queued", "done"}
                      /\ work'[call[k].arg].by = call[k].by
                      /\ call[k].on # NoConn => work'[call[k].arg].on = call[k].on
                      /\ call[k].at = "queued" => work'[call[k].arg].at = "asked"
                      /\ call[k].at = "done" /\ call[k].failed => work'[call[k].arg].at = "failed"
                      /\ call[k].at = "done" /\ ~call[k].failed
                            => work'[call[k].arg].at \in {"kept", "undone", "open"}
    BY <1>1 DEF QueriesInv, Advanced
  <2>1. AQuery(k) /\ call[k].arg \in Works /\ (call[k].on # NoConn => call[k].on \in Conns)
    BY <1>1
  <2> QED
    BY <2>1 DEF IInv, QueriesInv, Settles
<1>3. OwnersInv'
  BY <1>1 DEF IInv, OwnersInv, Settles
<1>4. FatesInv'
  BY <1>1 DEF IInv, FatesInv, Settles
<1> QED
  BY <1>2, <1>3, <1>4

\* Where no level of a connection in use changes.
LEMMA LevelKept ==
    ASSUME IInv, NEW j \in Calls, Advanced(j), call[j].op # "setIsolationLevel", isolation' = isolation,
           \A u \in Users : lent[u] # NoConn => session'[lent[u]].level = session[lent[u]].level
    PROVE  LevelInv'
<1>1. \A u \in Users : lent'[u] # NoConn => isolation'[u] \in {"unsure", session'[lent'[u]].level}
  BY DEF Advanced, IInv, LevelInv
<1>2. ASSUME NEW k \in Calls, NonIdle(k)', call'[k].op = "setIsolationLevel"
      PROVE  /\ isolation'[call'[k].by] = "unsure"
             /\ call'[k].at = "done" /\ ~call'[k].failed => session'[call'[k].on].level = call'[k].arg
  <2>1. call'[k] = call[k] /\ NonIdle(k) /\ call[k].op = "setIsolationLevel"
    BY <1>2 DEF Advanced, NonIdle
  <2>2. call[k].by \in Users /\ lent[call[k].by] = call[k].on /\ call[k].on # NoConn
    BY <2>1, NobodyAssumption DEF IInv, UserCallsInv, InTurn, UserOps
  <2> QED
    BY <2>1, <2>2 DEF IInv, LevelInv
<1> QED
  BY <1>1, <1>2 DEF LevelInv

\* A worker of a user that is not a query's touches its connection and what is done on
\* that, and nobody's beliefs.
OnItsConnection(j) ==
    /\ Advanced(j)
    /\ InTurn(j)
    /\ tx' = tx /\ isolation' = isolation
    /\ session' \in [Conns -> SessionType]
    /\ session'[call[j].on].at = session[call[j].on].at
    /\ \A c \in Conns \ {call[j].on} : session'[c] = session[c]
    /\ work' \in [Works -> WorkType]
    /\ Settles
    /\ \A w \in Works : work[w].on # call[j].on => work'[w].at = work[w].at

LEMMA OnItsConnectionKeeps ==
    ASSUME IInv, NEW j \in Calls, OnItsConnection(j)
    PROVE  /\ TypeOK' /\ LendInv' /\ UserCallsInv' /\ QueriesApart' /\ OneAtATime'
           /\ OtherCallsInv' /\ SessionsInv' /\ ClosesInv' /\ LeftClean'
           /\ QueriesInv' /\ OwnersInv' /\ FatesInv'
<1>1. LendInv' /\ UserCallsInv' /\ QueriesApart' /\ OneAtATime' /\ OtherCallsInv'
  BY AdvancedKeeps DEF OnItsConnection
<1>2. TypeOK'
  BY DEF OnItsConnection, Advanced, IInv, TypeOK
<1>3. /\ call[j].by \in Users /\ call[j].on \in Conns
      /\ lent[call[j].by] = call[j].on
      /\ session[call[j].on].at = "open"
  BY NobodyAssumption DEF OnItsConnection, Advanced, IInv, UserCallsInv, InTurn, NonIdle, SessionsInv
<1>4. \A c \in Conns : session'[c].at = session[c].at
  BY <1>3 DEF OnItsConnection
<1>5. SessionsInv'
  <2>1. ASSUME NEW u \in Users, lent'[u] # NoConn  PROVE session'[lent'[u]].at = "open"
    <3>1. lent'[u] = lent[u] /\ lent[u] \in Conns /\ session[lent[u]].at = "open"
      BY <2>1 DEF OnItsConnection, Advanced, IInv, TypeOK, SessionsInv
    <3> QED
      BY <1>4, <3>1
  <2>2. ASSUME NEW c \in Conns, session'[c].at = "none"  PROVE session'[c].auto
    <3>1. session[c].at = "none" /\ c # call[j].on
      BY <1>3, <1>4, <2>2
    <3>2. session[c].auto
      BY <3>1 DEF IInv, SessionsInv
    <3> QED
      BY <3>1, <3>2 DEF OnItsConnection
  <2> QED
    BY <2>1, <2>2 DEF SessionsInv
<1>6. ClosesInv'
  BY <1>3, <1>4 DEF OnItsConnection, InTurn, Advanced, IInv, ClosesInv, Closing, UserOps, TransactionOps, EndOps
<1>7. LeftClean'
  <2> SUFFICES ASSUME NEW c \in Conns, session[c].at = "open", Available(c)
               PROVE  OpenOn(c)' = {} /\ session'[c].auto /\ session'[c].level = "default"
    BY <1>4 DEF LeftClean, Available, OnItsConnection, Advanced
  <2>1. c # call[j].on
    BY <1>3 DEF Available
  <2>2. OpenOn(c) = {} /\ session[c].auto /\ session[c].level = "default"
    BY DEF IInv, LeftClean
  <2>3. OpenOn(c)' = {}
    BY <2>1, <2>2 DEF OpenOn, OnItsConnection, Settles
  <2> QED
    BY <2>1, <2>2, <2>3 DEF OnItsConnection
<1>8. QueriesInv' /\ OwnersInv' /\ FatesInv'
  <2>1. call[j].op # "query" /\ Advanced(j) /\ Settles
    BY DEF OnItsConnection, InTurn
  <2>2. \A c \in Conns : session[c].at = "closing" => session'[c].auto = session[c].auto
    BY <1>3 DEF OnItsConnection
  <2> QED
    BY <1>4, <2>1, <2>2, QueriesKept
<1> QED
  BY <1>1, <1>2, <1>5, <1>6, <1>7, <1>8

\* A driver call that fails, of a call that is not a query, changes nothing but the
\* answer.
LEMMA FailureKeeps ==
    ASSUME IInv, NEW j \in Calls, call[j].at \in {"queued", "ended"}, call[j].op # "query",
           Ends(j, TRUE), UNCHANGED <<line, lent, session, work, tx, isolation>>
    PROVE  IInv'
<1>1. Advanced(j) /\ call'[j].at = "done" /\ call'[j].failed = TRUE
  BY EndsFacts DEF IInv, Advanced
<1>2. LendInv' /\ UserCallsInv' /\ QueriesApart' /\ OneAtATime' /\ OtherCallsInv'
  BY <1>1, AdvancedKeeps
<1>3. TypeOK' /\ SessionsInv' /\ LeftClean' /\ OpenInv' /\ SettledInv'
  BY <1>1 DEF Advanced, IInv, TypeOK, SessionsInv, LeftClean, Available, OpenOn, OpenInv, SettledInv
<1>4. QueriesInv' /\ OwnersInv' /\ FatesInv'
  BY <1>1, QueriesKept DEF Settles
<1>5. ClosesInv'
  BY <1>1 DEF Advanced, IInv, ClosesInv, Closing
<1>6. BeliefInv'
  BY <1>1, BeliefKept
<1>7. AnswersInv'
  BY <1>1 DEF Advanced, IInv, AnswersInv
<1>8. UnderWayInv'
  BY <1>1 DEF Advanced, IInv, UnderWayInv, Pending, AQuery, NonIdle
<1>9. OpenDueInv'
  BY <1>1 DEF Advanced, IInv, OpenDueInv, Pending, NonIdle
<1>10. LevelInv'
  <2>1. \A k \in Calls \ {j} : call'[k] = call[k]
    BY <1>1 DEF Advanced
  <2> QED
    BY <1>1, <2>1 DEF Advanced, IInv, LevelInv, NonIdle
<1> QED
  BY <1>2, <1>3, <1>4, <1>5, <1>6, <1>7, <1>8, <1>9, <1>10 DEF IInv

-----------------------------------------------------------------------------
(* The workers.                                                            *)

LEMMA BeginsKeeps == ASSUME IInv, NEW j \in Calls, Begins(j) PROVE IInv'
<1>1. PICK failed \in BOOLEAN : /\ Ends(j, failed)
                                /\ session' = IF failed THEN session
                                              ELSE [session EXCEPT ![call[j].on].auto = FALSE]
  BY DEF Begins, MayFail
<1>2. /\ call[j].op = "begin" /\ call[j].at = "queued" /\ InTurn(j)
      /\ UNCHANGED <<line, lent, work, tx, isolation>>
  BY DEF Begins, Running, InTurn, NonIdle, UserOps, TransactionOps
<1>3. CASE failed
  <2>1. session' = session /\ Ends(j, TRUE)
    BY <1>1, <1>3
  <2> QED
    BY <1>2, <2>1, FailureKeeps
<1>4. CASE ~failed
  <2>1. Ends(j, FALSE) /\ session' = [session EXCEPT ![call[j].on].auto = FALSE]
    BY <1>1, <1>4
  <2>2. /\ call[j].by \in Users
        /\ call[j].on \in Conns
        /\ \A u \in Users : lent[u] = call[j].on => u = call[j].by
        /\ \A k \in Calls : InTurn(k) /\ (call[k].by = call[j].by \/ call[k].on = call[j].on) => k = j
    BY <1>2, AloneThere
  <2>3. Advanced(j) /\ call'[j].at = "done" /\ call'[j].failed = FALSE
    BY <1>2, <2>1, EndsFacts DEF IInv, Advanced
  <2>4. ~session'[call[j].on].auto /\ OnItsConnection(j)
    BY <1>2, <2>1, <2>2, <2>3, AutoFacts DEF IInv, TypeOK, OnItsConnection, Settles
  <2>5. /\ TypeOK' /\ LendInv' /\ UserCallsInv' /\ QueriesApart' /\ OneAtATime'
        /\ OtherCallsInv' /\ SessionsInv' /\ ClosesInv' /\ LeftClean'
        /\ QueriesInv' /\ OwnersInv' /\ FatesInv'
    BY <2>4, OnItsConnectionKeeps
  <2>6. LevelInv'
    <3>1. \A c \in Conns : session'[c].level = session[c].level
      BY <2>1, <2>2, AutoFacts DEF IInv
    <3> QED
      BY <1>2, <2>3, <3>1, LevelKept DEF IInv, TypeOK
  <2>7. OpenInv' /\ SettledInv'
    BY <1>2, <2>2, <2>4 DEF OnItsConnection, IInv, OpenInv, SettledInv
  <2>8. BeliefInv'
    <3> SUFFICES ASSUME NEW u \in Users, lent[u] # NoConn
                 PROVE  Sync(u)' \/ \E k \in Calls : News(k, u)'
      BY <1>2 DEF BeliefInv
    <3>1. CASE u = call[j].by
      BY <1>2, <2>3, <3>1 DEF News, TransactionOps, Advanced
    <3>2. CASE u # call[j].by
      <4>1. lent[u] \in Conns \ {call[j].on}
        BY <2>2, <3>2 DEF IInv, TypeOK
      <4>2. Sync(u) => Sync(u)'
        BY <1>2, <2>4, <4>1 DEF Sync, OnItsConnection
      <4>3. \A k \in Calls : News(k, u) => News(k, u)'
        BY <2>3, <3>2 DEF News, Advanced
      <4> QED
        BY <4>2, <4>3 DEF IInv, BeliefInv
    <3> QED
      BY <3>1, <3>2
  <2>9. AnswersInv'
    BY <1>2, <2>2, <2>3, <2>4 DEF Advanced, OnItsConnection, IInv, AnswersInv, UserCallsInv, InTurn, NonIdle, UserOps, TransactionOps, EndOps
  <2>10. UnderWayInv'
    BY <1>2, <2>3 DEF Advanced, IInv, UnderWayInv, Pending, AQuery, NonIdle
  <2>11. OpenDueInv'
    BY <1>2, <2>3 DEF Advanced, IInv, OpenDueInv, Pending, NonIdle, EndOps
  <2> QED
    BY <2>5, <2>6, <2>7, <2>8, <2>9, <2>10, <2>11 DEF IInv
<1> QED
  BY <1>3, <1>4

LEMMA EndsTransactionKeeps ==
    ASSUME IInv, NEW j \in Calls, NEW op \in EndOps, EndsTransaction(j, op, How(op))
    PROVE  IInv'
<1>1. /\ call[j].op = op /\ call[j].at = "queued" /\ InTurn(j)
      /\ UNCHANGED <<line, lent, session, tx, isolation>>
  BY DEF EndsTransaction, Running, InTurn, NonIdle, UserOps, TransactionOps, EndOps
<1>2. CASE Ends(j, TRUE) /\ UNCHANGED work
  BY <1>1, <1>2, FailureKeeps DEF EndOps
<1>3. CASE Settle(call[j].on, How(op)) /\ call' = [call EXCEPT ![j].at = "ended"]
  <2>1. /\ call[j].by \in Users
        /\ call[j].on \in Conns
        /\ session[call[j].on].at = "open"
        /\ \A u \in Users : lent[u] = call[j].on => u = call[j].by
        /\ \A k \in Calls : InTurn(k) /\ (call[k].by = call[j].by \/ call[k].on = call[j].on) => k = j
    BY <1>1, AloneThere
  <2>2. Advanced(j) /\ call'[j].at = "ended"
    BY <1>1, <1>3, EndedFacts DEF IInv, Advanced
  <2>3. How(op) \in {"kept", "undone"}
    BY DEF How
  <2>4. /\ work' \in [Works -> WorkType]
        /\ \A w \in Works : /\ work'[w].by = work[w].by
                            /\ work'[w].on = work[w].on
                            /\ work'[w].due = work[w].due
                            /\ IF work[w].on = call[j].on /\ work[w].at = "open"
                                 THEN work'[w].at = How(op) ELSE work'[w].at = work[w].at
    BY <1>3, <2>1, <2>3, SettleFacts DEF IInv
  <2>5. OnItsConnection(j)
    BY <1>1, <2>2, <2>3, <2>4 DEF OnItsConnection, Settles, IInv, TypeOK
  <2>6. /\ TypeOK' /\ LendInv' /\ UserCallsInv' /\ QueriesApart' /\ OneAtATime'
        /\ OtherCallsInv' /\ SessionsInv' /\ ClosesInv' /\ LeftClean'
        /\ QueriesInv' /\ OwnersInv' /\ FatesInv'
    BY <2>5, OnItsConnectionKeeps
  <2>7. LevelInv'
    BY <1>1, <2>2, LevelKept DEF EndOps
  <2>8. OpenInv'
    BY <1>1, <2>3, <2>4 DEF IInv, OpenInv
  <2>9. BeliefInv'
    BY <1>1, <2>2, BeliefKept
  <2>10. AnswersInv'
    BY <1>1, <2>2 DEF Advanced, IInv, AnswersInv
  <2>11. UnderWayInv'
    <3> SUFFICES ASSUME NEW w \in Works, work[w].due \in {"auto", "tx"}
                 PROVE  /\ work'[w].at = work[w].at
                        /\ ~Pending(work[w].by, TransactionOps)'
      BY <1>1, <2>2, <2>4 DEF Advanced, IInv, UnderWayInv, AQuery, NonIdle
    <3>1. work[w].at = "open" => work[w].on # call[j].on
      BY <1>1, <2>1 DEF IInv, UnderWayInv, Pending, TransactionOps
    <3>2. ~Pending(work[w].by, TransactionOps)
      BY DEF IInv, UnderWayInv
    <3>3. ~Pending(work[w].by, TransactionOps)'
      BY <1>1, <2>2, <2>4, <3>2 DEF Advanced, Pending
    <3> QED
      BY <2>4, <3>1, <3>3
  <2>12. OpenDueInv'
    <3> SUFFICES ASSUME NEW w \in Works, work[w].due = "open"
                 PROVE  /\ ~Pending(work[w].by, EndOps)' => work'[w].at = "open"
                        /\ \A k \in Calls : NonIdle(k)' /\ call'[k].by = work[w].by /\ call'[k].op \in EndOps =>
                              /\ call'[k].at = "queued" => work'[w].at = "open"
                              /\ call'[k].at = "ended" \/ (call'[k].at = "done" /\ ~call'[k].failed)
                                    => work'[w].at = How(call'[k].op)
      BY <1>1, <2>4 DEF IInv, OpenDueInv
    <3>1. CASE work[w].on = call[j].on
      <4>1. work[w].by = call[j].by
        BY <2>1, <3>1 DEF IInv, OpenDueInv
      <4>2. work[w].at = "open"
        BY <1>1, <4>1 DEF IInv, OpenDueInv, NonIdle
      <4>3. work'[w].at = How(op)
        BY <2>4, <3>1, <4>2
      <4>4. Pending(work[w].by, EndOps)'
        BY <1>1, <2>2, <2>4, <4>1 DEF Advanced, Pending
      <4>5. ASSUME NEW k \in Calls, NonIdle(k)', call'[k].by = work[w].by, call'[k].op \in EndOps
            PROVE  k = j
        BY <2>1, <2>2, <4>1, <4>5 DEF Advanced, InTurn, NonIdle, UserOps, TransactionOps, EndOps
      <4> QED
        BY <1>1, <2>2, <4>3, <4>4, <4>5 DEF Advanced
    <3>2. CASE work[w].on # call[j].on
      <4>1. work[w].by # call[j].by
        BY <1>1, <3>2 DEF IInv, OpenDueInv, UserCallsInv, InTurn
      <4>2. work'[w].at = work[w].at
        BY <2>4, <3>2
      <4>3. Pending(work[w].by, EndOps) => Pending(work[w].by, EndOps)'
        BY <2>2, <2>4, <4>1 DEF Advanced, Pending
      <4> QED
        BY <2>2, <4>1, <4>2, <4>3 DEF Advanced, IInv, OpenDueInv, NonIdle
    <3> QED
      BY <3>1, <3>2
  <2>13. SettledInv'
    BY <1>1, <2>1, <2>3, <2>4 DEF IInv, SettledInv
  <2> QED
    BY <2>6, <2>7, <2>8, <2>9, <2>10, <2>11, <2>12, <2>13 DEF IInv
<1> QED
  BY <1>2, <1>3 DEF EndsTransaction

LEMMA ReturnsToAutocommitKeeps == ASSUME IInv, NEW j \in Calls, ReturnsToAutocommit(j) PROVE IInv'
<1>1. /\ call[j].op \in EndOps /\ call[j].at = "ended" /\ InTurn(j)
      /\ UNCHANGED <<line, lent, tx, isolation>>
  BY DEF ReturnsToAutocommit, InTurn, NonIdle, UserOps, TransactionOps, EndOps
<1>2. CASE Ends(j, TRUE) /\ UNCHANGED <<session, work>>
  BY <1>1, <1>2, FailureKeeps DEF EndOps
<1>3. CASE /\ Ends(j, FALSE)
           /\ session' = [session EXCEPT ![call[j].on].auto = TRUE]
           /\ Settle(call[j].on, "kept")
  <2>1. /\ call[j].by \in Users
        /\ call[j].on \in Conns
        /\ lent[call[j].by] = call[j].on
        /\ session[call[j].on].at = "open"
        /\ \A u \in Users : lent[u] = call[j].on => u = call[j].by
        /\ \A k \in Calls : InTurn(k) /\ (call[k].by = call[j].by \/ call[k].on = call[j].on) => k = j
    BY <1>1, AloneThere
  <2>2. Advanced(j) /\ call'[j].at = "done" /\ call'[j].failed = FALSE
    BY <1>1, <1>3, EndsFacts DEF IInv, Advanced
  <2>3. /\ work' \in [Works -> WorkType]
        /\ \A w \in Works : /\ work'[w].by = work[w].by
                            /\ work'[w].on = work[w].on
                            /\ work'[w].due = work[w].due
                            /\ IF work[w].on = call[j].on /\ work[w].at = "open"
                                 THEN work'[w].at = "kept" ELSE work'[w].at = work[w].at
    BY <1>3, <2>1, SettleFacts DEF IInv
  <2>4. session'[call[j].on].auto /\ OnItsConnection(j)
    BY <1>1, <1>3, <2>1, <2>2, <2>3, AutoFacts DEF IInv, OnItsConnection, Settles
  <2>5. /\ TypeOK' /\ LendInv' /\ UserCallsInv' /\ QueriesApart' /\ OneAtATime'
        /\ OtherCallsInv' /\ SessionsInv' /\ ClosesInv' /\ LeftClean'
        /\ QueriesInv' /\ OwnersInv' /\ FatesInv'
    BY <2>4, OnItsConnectionKeeps
  <2>6. LevelInv'
    <3>1. \A c \in Conns : session'[c].level = session[c].level
      BY <1>3, <2>1, AutoFacts DEF IInv
    <3> QED
      BY <1>1, <2>2, <3>1, LevelKept DEF IInv, TypeOK, EndOps
  <2>7. OpenInv'
    <3> SUFFICES ASSUME NEW w \in Works, work'[w].at = "open"
                 PROVE  work[w].at = "open" /\ session'[work[w].on] = session[work[w].on]
      BY <1>1, <2>3 DEF IInv, OpenInv
    <3>1. work[w].at = "open" /\ work[w].on # call[j].on
      BY <2>3
    <3> QED
      BY <2>4, <3>1 DEF OnItsConnection, IInv, OpenInv
  <2>8. BeliefInv'
    <3> SUFFICES ASSUME NEW u \in Users, lent[u] # NoConn
                 PROVE  Sync(u)' \/ \E k \in Calls : News(k, u)'
      BY <1>1 DEF BeliefInv
    <3>1. CASE u = call[j].by
      BY <1>1, <2>2, <3>1 DEF News, TransactionOps, EndOps, Advanced
    <3>2. CASE u # call[j].by
      <4>1. lent[u] \in Conns \ {call[j].on}
        BY <2>1, <3>2 DEF IInv, TypeOK
      <4>2. Sync(u) => Sync(u)'
        BY <1>1, <2>4, <4>1 DEF Sync, OnItsConnection
      <4>3. \A k \in Calls : News(k, u) => News(k, u)'
        BY <2>2, <3>2 DEF News, Advanced
      <4> QED
        BY <4>2, <4>3 DEF IInv, BeliefInv
    <3> QED
      BY <3>1, <3>2
  <2>9. AnswersInv'
    BY <1>1, <2>1, <2>2, <2>4 DEF Advanced, OnItsConnection, IInv, AnswersInv, UserCallsInv, InTurn, NonIdle, UserOps, TransactionOps, EndOps
  <2>10. UnderWayInv'
    <3> SUFFICES ASSUME NEW w \in Works, work[w].due \in {"auto", "tx"}
                 PROVE  /\ work'[w].at = work[w].at
                        /\ ~Pending(work[w].by, TransactionOps)'
      BY <1>1, <2>2, <2>3 DEF Advanced, IInv, UnderWayInv, AQuery, NonIdle
    <3>1. work[w].at = "open" => work[w].on # call[j].on
      BY <1>1, <2>1 DEF IInv, UnderWayInv, Pending, TransactionOps
    <3>2. ~Pending(work[w].by, TransactionOps)
      BY DEF IInv, UnderWayInv
    <3>3. ~Pending(work[w].by, TransactionOps)'
      BY <1>1, <2>2, <2>3, <3>2 DEF Advanced, Pending
    <3> QED
      BY <2>3, <3>1, <3>3
  <2>11. OpenDueInv'
    <3> SUFFICES ASSUME NEW w \in Works, work[w].due = "open"
                 PROVE  /\ work'[w].at = work[w].at
                        /\ Pending(work[w].by, EndOps) => Pending(work[w].by, EndOps)'
                        /\ \A k \in Calls : NonIdle(k)' /\ call'[k].by = work[w].by /\ call'[k].op \in EndOps =>
                              /\ call'[k].at = "queued" => work'[w].at = "open"
                              /\ call'[k].at = "ended" \/ (call'[k].at = "done" /\ ~call'[k].failed)
                                    => work'[w].at = How(call'[k].op)
      BY <1>1, <2>3 DEF IInv, OpenDueInv
    <3>1. work[w].on = call[j].on => work[w].at = How(call[j].op)
      BY <1>1, <2>1 DEF IInv, OpenDueInv, NonIdle
    <3>2. work'[w].at = work[w].at
      BY <2>3, <3>1 DEF How
    <3>3. Pending(work[w].by, EndOps) => Pending(work[w].by, EndOps)'
      BY <1>1, <2>2, <2>3 DEF Advanced, Pending
    <3> QED
      BY <1>1, <2>2, <3>2, <3>3 DEF Advanced, IInv, OpenDueInv, NonIdle
  <2>12. SettledInv'
    BY <2>1, <2>3, <2>4 DEF OnItsConnection, IInv, SettledInv
  <2> QED
    BY <2>5, <2>6, <2>7, <2>8, <2>9, <2>10, <2>11, <2>12 DEF IInv
<1>4. \E failed \in BOOLEAN :
         /\ Ends(j, failed)
         /\ IF failed THEN UNCHANGED <<session, work>>
                      ELSE /\ session' = [session EXCEPT ![call[j].on].auto = TRUE]
                           /\ Settle(call[j].on, "kept")
  BY DEF ReturnsToAutocommit, MayFail
<1> QED
  BY <1>2, <1>3, <1>4

LEMMA SetsLevelKeeps == ASSUME IInv, NEW j \in Calls, SetsLevel(j) PROVE IInv'
<1>1. /\ call[j].op = "setIsolationLevel" /\ call[j].at = "queued" /\ InTurn(j)
      /\ UNCHANGED <<line, lent, work, tx, isolation>>
  BY DEF SetsLevel, Running, InTurn, NonIdle, UserOps, TransactionOps
<1>2. PICK failed \in BOOLEAN :
         /\ Ends(j, failed)
         /\ session' = [session EXCEPT ![call[j].on].level = IF failed THEN @ ELSE call[j].arg]
  BY DEF SetsLevel, MayFail
<1>3. call[j].on \in Conns /\ call[j].arg \in Levels
  BY <1>1, AloneThere DEF IInv, OtherCallsInv
<1>4. CASE failed
  <2>1. session' = session /\ Ends(j, TRUE)
    <3>1. session \in [Conns -> SessionType]
      BY DEF IInv, TypeOK
    <3>2. session' = [session EXCEPT ![call[j].on].level = @]
      BY <1>2, <1>4
    <3> QED
      BY <1>2, <1>3, <1>4, <3>1, <3>2 DEF SessionType
  <2> QED
    BY <1>1, <2>1, FailureKeeps
<1>5. CASE ~failed
  <2>1. Advanced(j) /\ call'[j].at = "done"
    BY <1>1, <1>2, EndsFacts DEF IInv, Advanced
  <2>2. /\ session' \in [Conns -> SessionType]
        /\ \A c \in Conns : session'[c].at = session[c].at /\ session'[c].auto = session[c].auto
        /\ \A c \in Conns \ {call[j].on} : session'[c] = session[c]
    <3>1. session \in [Conns -> SessionType]
      BY DEF IInv, TypeOK
    <3>2. session' = [session EXCEPT ![call[j].on].level = call[j].arg]
      BY <1>2, <1>5
    <3> QED
      BY <1>3, <3>1, <3>2 DEF SessionType
  <2>3. OnItsConnection(j)
    BY <1>1, <1>3, <2>1, <2>2 DEF OnItsConnection, Settles, IInv, TypeOK
  <2>4. /\ TypeOK' /\ LendInv' /\ UserCallsInv' /\ QueriesApart' /\ OneAtATime'
        /\ OtherCallsInv' /\ SessionsInv' /\ ClosesInv' /\ LeftClean'
        /\ QueriesInv' /\ OwnersInv' /\ FatesInv'
    BY <2>3, OnItsConnectionKeeps
  <2>5. LevelInv'
    <3>1. /\ call[j].by \in Users /\ lent[call[j].by] = call[j].on
          /\ \A u \in Users : lent[u] = call[j].on => u = call[j].by
          /\ \A k \in Calls : InTurn(k) /\ (call[k].by = call[j].by \/ call[k].on = call[j].on) => k = j
          /\ isolation[call[j].by] = "unsure"
      BY <1>1, AloneThere DEF IInv, LevelInv, InTurn
    <3>2. session'[call[j].on].level = call[j].arg
      BY <1>2, <1>3, <1>5 DEF IInv, TypeOK, SessionType
    <3>3. ASSUME NEW u \in Users, lent[u] # NoConn
          PROVE  isolation[u] \in {"unsure", session'[lent[u]].level}
      <4>1. lent[u] \in Conns /\ isolation[u] \in {"unsure", session[lent[u]].level}
        BY <3>3 DEF IInv, TypeOK, LevelInv
      <4> QED
        BY <2>2, <3>1, <4>1
    <3>4. ASSUME NEW k \in Calls, NonIdle(k)', call'[k].op = "setIsolationLevel"
          PROVE  /\ isolation[call'[k].by] = "unsure"
                 /\ call'[k].at = "done" /\ ~call'[k].failed => session'[call'[k].on].level = call'[k].arg
      <4>1. CASE k = j
        BY <2>1, <3>1, <3>2, <4>1 DEF Advanced
      <4>2. CASE k # j
        <5>1. call'[k] = call[k] /\ InTurn(k) /\ NonIdle(k)
          BY <2>1, <3>4, <4>2 DEF Advanced, InTurn, NonIdle, UserOps
        <5>2. call[k].on \in Conns \ {call[j].on}
          BY <3>1, <4>2, <5>1 DEF IInv, UserCallsInv
        <5> QED
          BY <2>2, <3>4, <5>1, <5>2 DEF IInv, LevelInv
      <4> QED
        BY <4>1, <4>2
    <3> QED
      BY <1>1, <3>3, <3>4 DEF LevelInv
  <2>6. OpenInv' /\ SettledInv'
    BY <1>1, <2>2 DEF IInv, OpenInv, SettledInv
  <2>7. BeliefInv'
    <3>1. \A u \in Users : lent[u] # NoConn => session'[lent[u]].auto = session[lent[u]].auto
      BY <2>2 DEF IInv, TypeOK
    <3> QED
      BY <1>1, <2>1, <3>1, BeliefKept
  <2>8. AnswersInv'
    BY <1>1, <2>1, <2>2 DEF Advanced, IInv, AnswersInv, UserCallsInv, InTurn, NonIdle, UserOps, TransactionOps, EndOps
  <2>9. UnderWayInv'
    BY <1>1, <2>1 DEF Advanced, IInv, UnderWayInv, Pending, AQuery, NonIdle
  <2>10. OpenDueInv'
    BY <1>1, <2>1 DEF Advanced, IInv, OpenDueInv, Pending, NonIdle, EndOps
  <2> QED
    BY <2>4, <2>5, <2>6, <2>7, <2>8, <2>9, <2>10 DEF IInv
<1> QED
  BY <1>4, <1>5

LEMMA ExecutesKeeps == ASSUME IInv, NEW j \in Calls, Executes(j) PROVE IInv'
<1> DEFINE w0 == call[j].arg
<1>1. /\ call[j].op = "query" /\ call[j].at = "queued" /\ AQuery(j)
      /\ UNCHANGED <<line, lent, session, tx, isolation>>
  BY DEF Executes, Running, AQuery, NonIdle
<1>2. PICK failed \in BOOLEAN :
         /\ call[j].on = NoConn => failed
         /\ Ends(j, failed)
         /\ work' = [work EXCEPT ![w0].at =
                       CASE failed -> "failed"
                         [] ~failed /\ session[call[j].on].auto -> "kept"
                         [] ~failed /\ ~session[call[j].on].auto -> "open"]
  BY DEF Executes, MayFail
<1>3. /\ w0 \in Works
      /\ work[w0].at = "asked" /\ work[w0].by = call[j].by
      /\ call[j].by \in Users
  BY <1>1 DEF IInv, QueriesInv
<1>4. call[j].on # NoConn => /\ call[j].on \in Conns
                            /\ work[w0].on = call[j].on
                            /\ \/ lent[call[j].by] = call[j].on
                               \/ session[call[j].on].at = "closing"
  BY <1>1 DEF IInv, QueriesInv, TypeOK, CallType
<1>5. /\ Advanced(j) /\ call'[j].at = "done" /\ call'[j].failed = failed
  BY <1>1, <1>2, EndsFacts DEF IInv, Advanced
<1>6. /\ work' \in [Works -> WorkType]
      /\ work'[w0].at \in {"failed", "kept", "open"}
      /\ failed => work'[w0].at = "failed"
      /\ ~failed => work'[w0].at \in {"kept", "open"}
      /\ work'[w0].at = "open" => ~session[call[j].on].auto /\ call[j].on # NoConn
      /\ work'[w0].at = "kept" => session[call[j].on].auto /\ call[j].on # NoConn
      /\ \A w \in Works \ {w0} : work'[w].at = work[w].at
      /\ \A w \in Works : work'[w].by = work[w].by /\ work'[w].on = work[w].on /\ work'[w].due = work[w].due
  <2>1. work \in [Works -> WorkType]
    BY DEF IInv, TypeOK
  <2>2. CASE failed
    <3>1. work' = [work EXCEPT ![w0].at = "failed"]
      BY <1>2, <2>2
    <3> QED
      BY <1>3, <2>1, <2>2, <3>1 DEF WorkType
  <2>3. CASE ~failed /\ session[call[j].on].auto
    <3>1. work' = [work EXCEPT ![w0].at = "kept"]
      BY <1>2, <2>3
    <3> QED
      BY <1>2, <1>3, <2>1, <2>3, <3>1 DEF WorkType
  <2>4. CASE ~failed /\ ~session[call[j].on].auto
    <3>1. work' = [work EXCEPT ![w0].at = "open"]
      BY <1>2, <2>4
    <3> QED
      BY <1>2, <1>3, <2>1, <2>4, <3>1 DEF WorkType
  <2> QED
    BY <2>2, <2>3, <2>4
<1>7. LendInv' /\ UserCallsInv' /\ QueriesApart' /\ OneAtATime' /\ OtherCallsInv'
  BY <1>5, AdvancedKeeps
<1>8. TypeOK' /\ SessionsInv' /\ ClosesInv' /\ LevelInv'
  <2>1. TypeOK' /\ SessionsInv'
    BY <1>1, <1>5, <1>6 DEF Advanced, IInv, TypeOK, SessionsInv
  <2>2. ClosesInv'
    BY <1>1, <1>5 DEF Advanced, IInv, ClosesInv, Closing
  <2>3. LevelInv'
    BY <1>1, <1>5, LevelKept
  <2> QED
    BY <2>1, <2>2, <2>3
<1>8a. LeftClean'
  <2> SUFFICES ASSUME NEW c \in Conns, session[c].at = "open", Available(c)
               PROVE  OpenOn(c)' = {} /\ session[c].auto /\ session[c].level = "default"
    BY <1>1 DEF LeftClean, Available
  <2>1. OpenOn(c) = {} /\ session[c].auto /\ session[c].level = "default"
    BY DEF IInv, LeftClean
  <2>2. ~(work'[w0].at = "open" /\ work'[w0].on = c)
    BY <1>3, <1>4, <1>6 DEF Available
  <2>3. OpenOn(c)' = {}
    BY <1>6, <2>1, <2>2 DEF OpenOn
  <2> QED
    BY <2>1, <2>3
<1>9. QueriesInv'
  <2> SUFFICES ASSUME NEW k \in Calls, AQuery(k)'
               PROVE  /\ call[k].by \in Users
                      /\ call[k].on # NoConn => \/ lent[call[k].by] = call[k].on
                                               \/ session[call[k].on].at = "closing"
                      /\ call[k].arg \in Works
                      /\ call'[k].at \in {"queued", "done"}
                      /\ work[call[k].arg].by = call[k].by
                      /\ call[k].on # NoConn => work[call[k].arg].on = call[k].on
                      /\ call'[k].at = "queued" => work'[call[k].arg].at = "asked"
                      /\ call'[k].at = "done" /\ call'[k].failed => work'[call[k].arg].at = "failed"
                      /\ call'[k].at = "done" /\ ~call'[k].failed
                            => work'[call[k].arg].at \in {"kept", "undone", "open"}
    <3>1. \A k \in Calls : /\ AQuery(k)' => AQuery(k)
                           /\ call'[k].by = call[k].by /\ call'[k].on = call[k].on
                           /\ call'[k].arg = call[k].arg
      BY <1>1, <1>5 DEF Advanced, AQuery, NonIdle
    <3>2. \A k \in Calls : AQuery(k) => call[k].arg \in Works
      BY DEF IInv, QueriesInv
    <3> QED
      BY <1>1, <1>6, <3>1, <3>2 DEF QueriesInv
  <2>1. CASE k = j
    BY <1>1, <1>3, <1>4, <1>5, <1>6, <2>1
  <2>2. CASE k # j
    <3>1. call'[k] = call[k] /\ AQuery(k)
      BY <2>2, <1>5 DEF Advanced, AQuery, NonIdle
    <3>2. call[k].arg \in Works \ {w0}
      BY <1>1, <2>2, <3>1 DEF IInv, QueriesApart, QueriesInv
    <3> QED
      BY <1>6, <3>1, <3>2 DEF IInv, QueriesInv
  <2> QED
    BY <2>1, <2>2
<1>9a. \A k \in Calls : AQuery(k)' => /\ AQuery(k)
                                     /\ call'[k].by = call[k].by /\ call'[k].on = call[k].on
                                     /\ call'[k].arg = call[k].arg
  BY <1>1, <1>5 DEF Advanced, AQuery, NonIdle
<1>9b. OwnersInv'
  <2>1. ASSUME NEW k \in Calls, AQuery(k), call[k].on # NoConn, NEW w \in Works,
               work'[w].at = "open", work[w].on = call[k].on
        PROVE  work[w].by = call[k].by
    <3>1. CASE w = w0
      BY <1>1, <1>3, <1>4, <1>6, <2>1, <3>1 DEF IInv, OwnersInv
    <3>2. CASE w # w0
      BY <1>6, <2>1, <3>2 DEF IInv, OwnersInv
    <3> QED
      BY <3>1, <3>2
  <2>2. ASSUME NEW k \in Calls, AQuery(k), call[k].on # NoConn,
               NEW i \in Calls, AQuery(i), call[i].on = call[k].on
        PROVE  call[i].by = call[k].by
    BY <2>2 DEF IInv, OwnersInv
  <2> QED
    BY <1>6, <1>9a, <2>1, <2>2 DEF OwnersInv
<1>9c. FatesInv'
  <2>1. \A k \in Calls : AQuery(k) => call[k].arg \in Works
    BY DEF IInv, QueriesInv
  <2> QED
    BY <1>1, <1>6, <1>9a, <2>1 DEF IInv, FatesInv
<1>10. OpenInv'
  <2>1. \A w \in Works \ {w0} : work'[w].at = work[w].at
    BY <1>6
  <2> QED
    BY <1>1, <1>3, <1>4, <1>6, <2>1 DEF IInv, OpenInv
<1>11. BeliefInv'
  BY <1>1, <1>5, BeliefKept
<1>12. AnswersInv'
  BY <1>1, <1>5 DEF Advanced, IInv, AnswersInv, EndOps
<1>13. UnderWayInv'
  <2> SUFFICES ASSUME NEW w \in Works, work[w].due \in {"auto", "tx"}
               PROVE  /\ ~Pending(work[w].by, TransactionOps)'
                      /\ work[w].due = "auto" => work'[w].at \in {"asked", "kept", "failed"}
                      /\ work[w].due = "tx" => work'[w].at \in {"asked", "open", "failed"}
    BY <1>1, <1>5, <1>6 DEF Advanced, IInv, UnderWayInv, AQuery, NonIdle
  <2>1. ~Pending(work[w].by, TransactionOps)
    BY DEF IInv, UnderWayInv
  <2>2. ~Pending(work[w].by, TransactionOps)'
    BY <1>1, <1>5, <1>6, <2>1 DEF Advanced, Pending
  <2>3. CASE w # w0
    BY <1>6, <2>2, <2>3 DEF IInv, UnderWayInv
  <2>4. CASE w = w0
    <3>1. \A k \in Calls : ~News(k, call[j].by)
      BY <1>3, <2>1, <2>4 DEF News, Pending
    <3>2. call[j].on # NoConn /\ lent[call[j].by] = call[j].on => Sync(call[j].by)
      BY <1>3, <3>1 DEF IInv, BeliefInv
    <3>3. work[w].due = "auto" /\ call[j].on # NoConn => session[call[j].on].auto
      BY <1>1, <1>3, <1>4, <2>4, <3>2 DEF IInv, UnderWayInv, FatesInv, Sync
    <3>4. work[w].due = "tx" /\ call[j].on # NoConn => ~session[call[j].on].auto
      BY <1>3, <1>4, <2>4, <3>2 DEF IInv, UnderWayInv, Sync
    <3> QED
      BY <1>6, <2>2, <2>4, <3>3, <3>4
  <2> QED
    BY <2>3, <2>4
<1>14. OpenDueInv'
  <2> SUFFICES ASSUME NEW w \in Works, work[w].due = "open"
               PROVE  /\ ~Pending(work[w].by, EndOps)' => work'[w].at = "open"
                      /\ \A k \in Calls : NonIdle(k)' /\ call'[k].by = work[w].by /\ call'[k].op \in EndOps =>
                            /\ call'[k].at = "queued" => work'[w].at = "open"
                            /\ call'[k].at = "ended" \/ (call'[k].at = "done" /\ ~call'[k].failed)
                                  => work'[w].at = How(call'[k].op)
    BY <1>1, <1>6 DEF IInv, OpenDueInv
  <2>1. Pending(work[w].by, EndOps)' <=> Pending(work[w].by, EndOps)
    BY <1>1, <1>5, <1>6 DEF Advanced, Pending
  <2>2. \A k \in Calls : call'[k].op \in EndOps => call'[k] = call[k]
    BY <1>1, <1>5 DEF Advanced, EndOps
  <2>3. work[w].at # "asked" => work'[w].at = work[w].at
    BY <1>3, <1>6
  <2> QED
    BY <2>1, <2>2, <2>3 DEF IInv, OpenDueInv, NonIdle, How
<1>15. SettledInv'
  <2> SUFFICES ASSUME NEW w \in Works
               PROVE  /\ work'[w].at = "none" => work[w].due = "none"
                      /\ work[w].due = "kept" => work'[w].at = "kept"
                      /\ work[w].due = "undone" => work'[w].at = "undone"
                      /\ work[w].due = "dropped" => \/ work'[w].at \in {"asked", "undone", "failed"}
                                                    \/ /\ work'[w].at = "open" /\ work[w].on \in Conns
                                                       /\ session[work[w].on].at = "closing"
    BY <1>1, <1>6 DEF SettledInv
  <2>1. CASE w # w0
    BY <1>6, <2>1 DEF IInv, SettledInv
  <2>2. CASE w = w0
    BY <1>1, <1>3, <1>4, <1>6, <2>2 DEF IInv, SettledInv, FatesInv
  <2> QED
    BY <2>1, <2>2
<1> QED
  BY <1>7, <1>8, <1>8a, <1>9, <1>9b, <1>9c, <1>10, <1>11, <1>12, <1>13, <1>14, <1>15 DEF IInv

LEMMA CloseRollsBackKeeps == ASSUME IInv, NEW j \in Calls, CloseRollsBack(j) PROVE IInv'
<1>1. call[j].op = "close" /\ call[j].at = "queued" /\ UNCHANGED <<line, lent, session, tx, isolation>>
  BY DEF CloseRollsBack, Running
<1>2. CASE Ends(j, TRUE) /\ UNCHANGED work
  BY <1>1, <1>2, FailureKeeps
<1>3. CASE Settle(call[j].on, "undone") /\ call' = [call EXCEPT ![j].at = "ended"]
  <2>1. call[j].on \in Conns /\ session[call[j].on].at = "closing"
    BY <1>1 DEF IInv, ClosesInv, Closing
  <2>2. \A u \in Users : lent[u] # call[j].on
    BY <2>1, NobodyAssumption DEF IInv, SessionsInv
  <2>3. Advanced(j) /\ call'[j].at = "ended"
    BY <1>1, <1>3, EndedFacts DEF IInv, Advanced
  <2>4. /\ work' \in [Works -> WorkType]
        /\ \A w \in Works : /\ work'[w].by = work[w].by
                            /\ work'[w].on = work[w].on
                            /\ work'[w].due = work[w].due
                            /\ IF work[w].on = call[j].on /\ work[w].at = "open"
                                 THEN work'[w].at = "undone" ELSE work'[w].at = work[w].at
    BY <1>3, <2>1, SettleFacts DEF IInv
  <2>5. LendInv' /\ UserCallsInv' /\ QueriesApart' /\ OneAtATime' /\ OtherCallsInv'
    BY <2>3, AdvancedKeeps
  <2>6. TypeOK' /\ SessionsInv'
    BY <1>1, <2>3, <2>4 DEF Advanced, IInv, TypeOK, SessionsInv
  <2>7. LeftClean'
    BY <1>1, <2>1, <2>4 DEF IInv, LeftClean, OpenOn, Available
  <2>8. QueriesInv' /\ OwnersInv' /\ FatesInv' /\ LevelInv'
    <3>1. Settles
      BY <2>4 DEF Settles
    <3> QED
      BY <1>1, <2>3, <3>1, QueriesKept, LevelKept
  <2>9. ClosesInv'
    BY <1>1, <2>3 DEF Advanced, IInv, ClosesInv, Closing
  <2>10. OpenInv' /\ SettledInv'
    BY <1>1, <2>1, <2>4 DEF IInv, OpenInv, SettledInv
  <2>11. BeliefInv'
    BY <1>1, <2>3, BeliefKept
  <2>12. AnswersInv'
    BY <1>1, <2>3 DEF Advanced, IInv, AnswersInv
  <2>13. \A w \in Works : work[w].due \in {"auto", "tx", "open"} => work'[w] = work[w]
    <3> SUFFICES ASSUME NEW w \in Works, work[w].due \in {"auto", "tx", "open"}
                 PROVE  work'[w] = work[w]
      OBVIOUS
    <3>1. work[w].due \in {"tx", "open"} => work[w].on # call[j].on
      BY <2>2 DEF IInv, UnderWayInv, OpenDueInv
    <3>2. work[w].due = "auto" => work[w].at # "open"
      BY DEF IInv, UnderWayInv
    <3> QED
      BY <1>3, <3>1, <3>2 DEF Settle, OpenOn
  <2>14. UnderWayInv'
    BY <1>1, <2>3, <2>4, <2>13 DEF Advanced, IInv, UnderWayInv, Pending, AQuery, NonIdle
  <2>15. OpenDueInv'
    BY <1>1, <2>3, <2>4, <2>13 DEF Advanced, IInv, OpenDueInv, Pending, NonIdle, EndOps
  <2> QED
    BY <2>5, <2>6, <2>7, <2>8, <2>9, <2>10, <2>11, <2>12, <2>14, <2>15 DEF IInv
<1> QED
  BY <1>2, <1>3 DEF CloseRollsBack

LEMMA DisconnectsKeeps == ASSUME IInv, NEW j \in Calls, Disconnects(j) PROVE IInv'
<1> DEFINE c == call[j].on
<1>1. call[j].op = "close" /\ call[j].at = "ended" /\ UNCHANGED <<line, lent, work, tx, isolation>>
  BY DEF Disconnects, Running
<1>2. c \in Conns /\ session[c].at = "closing"
  BY <1>1 DEF IInv, ClosesInv, Closing
<1>3. CASE Ends(j, TRUE) /\ UNCHANGED session
  BY <1>1, <1>3, FailureKeeps
<1>4. CASE /\ OpenOn(c) = {}
           /\ session' = [session EXCEPT ![c] = NoSession]
           /\ call' = [k \in Calls |->
                 CASE k = j -> [call[j] EXCEPT !.at = "done", !.failed = FALSE]
                   [] k # j /\ call[k].op = "query" /\ call[k].on = c -> [call[k] EXCEPT !.on = NoConn]
                   [] OTHER -> call[k]]
  <2>1. /\ call' \in [Calls -> CallType]
        /\ call'[j].op = "close" /\ call'[j].by = call[j].by /\ call'[j].on = c
        /\ call'[j].at = "done"
        /\ \A k \in Calls \ {j} : call[k].op # "query" => call'[k] = call[k]
        /\ \A k \in Calls \ {j} : /\ call'[k].op = call[k].op /\ call'[k].by = call[k].by
                                  /\ call'[k].arg = call[k].arg /\ call'[k].at = call[k].at
                                  /\ call'[k].failed = call[k].failed
                                  /\ call[k].op = "query" => call'[k].on # c
                                  /\ call'[k].on \in {call[k].on, NoConn}
    <3>1. call \in [Calls -> CallType]
      BY DEF IInv, TypeOK
    <3>2. /\ call'[j] = [call[j] EXCEPT !.at = "done", !.failed = FALSE]
          /\ call'[j] \in CallType
      BY <1>4, <3>1 DEF CallType
    <3>3. ASSUME NEW k \in Calls \ {j}, call[k].op = "query", call[k].on = c
          PROVE  /\ call'[k] = [call[k] EXCEPT !.on = NoConn]
                 /\ call'[k] \in CallType
      BY <1>4, <3>1, <3>3 DEF CallType
    <3>4. ASSUME NEW k \in Calls \ {j}, ~(call[k].op = "query" /\ call[k].on = c)
          PROVE  call'[k] = call[k] /\ call'[k] \in CallType
      BY <1>4, <3>1, <3>4
    <3>5. \A k \in Calls : call'[k] \in CallType
      BY <3>2, <3>3, <3>4
    <3>6. call' \in [Calls -> CallType]
      BY <1>4, <3>5
    <3>7. c # NoConn
      BY <1>2, NobodyAssumption
    <3> QED
      BY <1>1, <3>1, <3>2, <3>3, <3>4, <3>6, <3>7 DEF CallType
  <2>2. /\ session' \in [Conns -> SessionType]
        /\ session'[c] = NoSession
        /\ \A d \in Conns \ {c} : session'[d] = session[d]
    BY <1>2, <1>4 DEF IInv, TypeOK, SessionType, NoSession, Levels
  <2>3. \A w \in Works : work[w].at = "open" => work[w].on # c
    BY <1>4 DEF OpenOn
  <2>4. \A u \in Users : lent[u] # NoConn => lent[u] \in Conns \ {c}
    BY <1>2 DEF IInv, SessionsInv, TypeOK
  <2>5. \A k \in Calls : InTurn(k)' <=> InTurn(k)
    BY <1>1, <2>1 DEF InTurn, NonIdle, UserOps, TransactionOps, EndOps
  <2>6. \A k \in Calls : InTurn(k) => call'[k] = call[k] /\ call[k].on \in Conns \ {c}
    <3>1. \A k \in Calls : InTurn(k) => k # j /\ call[k].op # "query"
      BY <1>1 DEF InTurn, UserOps, TransactionOps, EndOps
    <3> QED
      BY <2>1, <2>4, <3>1, NobodyAssumption DEF IInv, UserCallsInv
  <2>7. \A k \in Calls : AQuery(k)' => /\ AQuery(k) /\ k # j
                                       /\ call[k].arg \in Works
                                       /\ call'[k].on # NoConn => call'[k].on = call[k].on /\ call[k].on \in Conns \ {c}
    BY <1>1, <2>1 DEF AQuery, NonIdle, IInv, TypeOK, CallType, QueriesInv
  <2>8. /\ LendInv' /\ TypeOK' /\ SessionsInv'
    <3>1. LendInv'
      BY <1>1 DEF IInv, LendInv, OneUserEach, WaitersHaveNone, WaitOnce
    <3>2. TypeOK'
      BY <1>1, <2>1, <2>2 DEF IInv, TypeOK
    <3>3. SessionsInv'
      BY <1>1, <2>2, <2>4 DEF IInv, SessionsInv, NoSession
    <3> QED
      BY <3>1, <3>2, <3>3
  <2>9. LeftClean'
    BY <1>1, <2>2 DEF IInv, LeftClean, OpenOn, Available, NoSession
  <2>10. UserCallsInv' /\ OneAtATime'
    BY <1>1, <2>5, <2>6 DEF IInv, UserCallsInv, OneAtATime
  <2>11. QueriesInv'
    <3> SUFFICES ASSUME NEW k \in Calls, AQuery(k)'
                 PROVE  /\ call[k].by \in Users
                        /\ call'[k].on # NoConn => \/ lent[call[k].by] = call'[k].on
                                                  \/ session'[call'[k].on].at = "closing"
                        /\ call[k].arg \in Works
                        /\ call[k].at \in {"queued", "done"}
                        /\ work[call[k].arg].by = call[k].by
                        /\ call'[k].on # NoConn => work[call[k].arg].on = call'[k].on
                        /\ call[k].at = "queued" => work[call[k].arg].at = "asked"
                        /\ call[k].at = "done" /\ call[k].failed => work[call[k].arg].at = "failed"
                        /\ call[k].at = "done" /\ ~call[k].failed
                              => work[call[k].arg].at \in {"kept", "undone", "open"}
      BY <1>1, <2>1, <2>7 DEF QueriesInv
    <3> QED
      BY <2>2, <2>7 DEF IInv, QueriesInv
  <2>12. QueriesApart'
    BY <2>1, <2>7 DEF IInv, QueriesApart
  <2>13. OwnersInv'
    BY <1>1, <2>1, <2>7 DEF IInv, OwnersInv
  <2>14. FatesInv'
    BY <1>1, <2>1, <2>2, <2>7 DEF IInv, FatesInv
  <2>15. OtherCallsInv'
    BY <1>1, <2>1 DEF IInv, OtherCallsInv
  <2>16. ClosesInv'
    <3>1. \A k \in Calls : Closing(k)' => Closing(k) /\ k # j /\ call'[k] = call[k]
      BY <2>1 DEF Closing
    <3>2. \A k \in Calls : Closing(k) /\ k # j => call[k].on # c
      BY <1>1 DEF IInv, ClosesInv, Closing
    <3>3. \A k \in Calls : call'[k].op = "close" => call'[k].on = call[k].on /\ call'[k].by = call[k].by /\ call[k].op = "close"
      BY <1>1, <2>1
    <3> QED
      BY <2>2, <3>1, <3>2, <3>3 DEF IInv, ClosesInv
  <2>17. OpenInv' /\ SettledInv'
    BY <1>1, <2>2, <2>3 DEF IInv, OpenInv, SettledInv
  <2>18. BeliefInv'
    <3> SUFFICES ASSUME NEW u \in Users, lent[u] # NoConn
                 PROVE  Sync(u)' \/ \E k \in Calls : News(k, u)'
      BY <1>1 DEF BeliefInv
    <3>1. Sync(u) => Sync(u)'
      BY <1>1, <2>2, <2>4 DEF Sync
    <3>2. \A k \in Calls : News(k, u) => News(k, u)'
      BY <1>1, <2>1 DEF News, TransactionOps, EndOps
    <3> QED
      BY <3>1, <3>2 DEF IInv, BeliefInv
  <2>19. AnswersInv'
    <3> SUFFICES ASSUME NEW k \in Calls, call'[k].at = "done", ~call'[k].failed,
                        call'[k].op \in TransactionOps
                 PROVE  call'[k] = call[k] /\ session'[call[k].on] = session[call[k].on]
      BY DEF IInv, AnswersInv, TransactionOps
    <3>1. InTurn(k)
      BY <2>5 DEF InTurn, NonIdle, UserOps, TransactionOps, EndOps
    <3> QED
      BY <2>2, <2>6, <3>1
  <2>20. LevelInv'
    <3>1. ASSUME NEW u \in Users, lent[u] # NoConn
          PROVE  isolation[u] \in {"unsure", session'[lent[u]].level}
      BY <2>2, <2>4, <3>1 DEF IInv, LevelInv
    <3>2. ASSUME NEW k \in Calls, NonIdle(k)', call'[k].op = "setIsolationLevel"
          PROVE  /\ isolation[call'[k].by] = "unsure"
                 /\ call'[k].at = "done" /\ ~call'[k].failed => session'[call'[k].on].level = call'[k].arg
      <4>1. InTurn(k) /\ NonIdle(k)
        BY <2>5, <3>2 DEF InTurn, UserOps
      <4> QED
        BY <2>2, <2>6, <3>2, <4>1 DEF IInv, LevelInv
    <3> QED
      BY <1>1, <3>1, <3>2 DEF LevelInv
  <2>21. \A u \in Users : \A ops \in {TransactionOps, EndOps} : Pending(u, ops)' <=> Pending(u, ops)
    BY <1>1, <2>1 DEF Pending, TransactionOps, EndOps
  <2>22. UnderWayInv'
    <3>1. \A w \in Works : (\E k \in Calls : AQuery(k) /\ call[k].arg = w)
                              => \E k \in Calls : AQuery(k)' /\ call'[k].arg = w
      BY <1>1, <2>1 DEF AQuery, NonIdle
    <3> QED
      BY <1>1, <2>21, <3>1 DEF IInv, UnderWayInv, Pending
  <2>23. OpenDueInv'
    <3>1. \A k \in Calls : NonIdle(k)' /\ call'[k].op \in EndOps => NonIdle(k) /\ call'[k] = call[k]
      BY <1>1, <2>1 DEF NonIdle, EndOps
    <3> QED
      BY <1>1, <2>21, <3>1 DEF IInv, OpenDueInv, Pending
  <2> QED
    BY <2>8, <2>9, <2>10, <2>11, <2>12, <2>13, <2>14, <2>15, <2>16, <2>17, <2>18, <2>19, <2>20,
       <2>22, <2>23 DEF IInv
<1> QED
  BY <1>3, <1>4 DEF Disconnects

-----------------------------------------------------------------------------
(* The callbacks.                                                          *)

\* What an answer leaves alone, and that call j is over.
Answered(j) ==
    /\ call[j].at = "done"
    /\ UNCHANGED <<line, lent, session>>
    /\ call' \in [Calls -> CallType]
    /\ call'[j].at = "idle" /\ call'[j].op = "none"
    /\ \A k \in Calls \ {j} : call'[k] = call[k]
    /\ work' \in [Works -> WorkType]
    /\ \A w \in Works : /\ work'[w].by = work[w].by
                        /\ work'[w].on = work[w].on
                        /\ work'[w].at = work[w].at
                        /\ work'[w].due \in {"auto", "dropped"} => work'[w].due = work[w].due

LEMMA AnsweredKeeps ==
    ASSUME IInv, NEW j \in Calls, Answered(j)
    PROVE  /\ LendInv' /\ SessionsInv' /\ LeftClean' /\ UserCallsInv' /\ QueriesInv' /\ QueriesApart'
           /\ OneAtATime' /\ OtherCallsInv' /\ ClosesInv' /\ OpenInv' /\ AnswersInv'
           /\ OwnersInv' /\ FatesInv'
<1>1. LendInv' /\ SessionsInv'
  BY DEF Answered, IInv, LendInv, OneUserEach, WaitersHaveNone, WaitOnce, SessionsInv
<1>2. LeftClean'
  BY DEF Answered, IInv, LeftClean, Available, OpenOn
<1>3. UserCallsInv' /\ QueriesInv' /\ QueriesApart' /\ OneAtATime'
  BY DEF Answered, IInv, UserCallsInv, QueriesInv, QueriesApart, OneAtATime, InTurn, AQuery, NonIdle
<1>4. OtherCallsInv' /\ ClosesInv' /\ OpenInv' /\ AnswersInv'
  BY DEF Answered, IInv, OtherCallsInv, ClosesInv, Closing, OpenInv, AnswersInv
<1>5. OwnersInv' /\ FatesInv'
  <2>1. \A k \in Calls : AQuery(k)' => AQuery(k) /\ call'[k] = call[k] /\ call[k].arg \in Works
    BY DEF Answered, AQuery, NonIdle, IInv, QueriesInv
  <2> QED
    BY <2>1 DEF Answered, IInv, OwnersInv, FatesInv
<1> QED
  BY <1>1, <1>2, <1>3, <1>4, <1>5

\* Who is told that the level was set knows the level.
LEMMA AnswerLevel ==
    ASSUME IInv, NEW j \in Calls, Answer(j)
    PROVE  LevelInv' /\ isolation' \in [Users -> Levels \cup {"unsure"}]
<1> DEFINE u == call[j].by
           level == call[j].op = "setIsolationLevel" /\ ~call[j].failed
<1>1. /\ call[j].at = "done" /\ call' = [call EXCEPT ![j] = Idle]
      /\ UNCHANGED <<lent, session>>
      /\ isolation' = IF level THEN [isolation EXCEPT ![u] = call[j].arg] ELSE isolation
  BY DEF Answer, LearnsLevel
<1>2. \A k \in Calls : NonIdle(k)' => k # j /\ call'[k] = call[k] /\ NonIdle(k)
  BY <1>1 DEF IInv, TypeOK, NonIdle, Idle
<1>3. isolation \in [Users -> Levels \cup {"unsure"}]
  BY DEF IInv, TypeOK
<1>4. CASE level
  <2>1. InTurn(j) /\ NonIdle(j)
    BY <1>1, <1>4 DEF InTurn, NonIdle, UserOps
  <2>2. /\ u \in Users /\ lent[u] = call[j].on /\ call[j].arg \in Levels
        /\ session[call[j].on].level = call[j].arg
        /\ \A k \in Calls : InTurn(k) /\ call[k].by = u => k = j
    BY <1>1, <1>4, <2>1, AloneThere DEF IInv, OtherCallsInv, LevelInv
  <2>3. /\ isolation' \in [Users -> Levels \cup {"unsure"}]
        /\ isolation'[u] = call[j].arg
        /\ \A v \in Users \ {u} : isolation'[v] = isolation[v]
    BY <1>1, <1>3, <1>4, <2>2
  <2>4. ASSUME NEW v \in Users, lent[v] # NoConn
        PROVE  isolation'[v] \in {"unsure", session[lent[v]].level}
    BY <2>2, <2>3, <2>4 DEF IInv, LevelInv
  <2>5. ASSUME NEW k \in Calls, NonIdle(k)', call'[k].op = "setIsolationLevel"
        PROVE  /\ isolation'[call'[k].by] = "unsure"
               /\ call'[k].at = "done" /\ ~call'[k].failed => session[call'[k].on].level = call'[k].arg
    <3>1. k # j /\ call'[k] = call[k] /\ NonIdle(k) /\ InTurn(k)
      BY <1>2, <2>5 DEF InTurn, UserOps
    <3>2. call[k].by \in Users \ {u}
      BY <2>2, <3>1 DEF IInv, UserCallsInv
    <3> QED
      BY <2>3, <2>5, <3>1, <3>2 DEF IInv, LevelInv
  <2> QED
    BY <1>1, <2>3, <2>4, <2>5 DEF LevelInv
<1>5. CASE ~level
  <2>1. isolation' = isolation
    BY <1>1, <1>5
  <2> QED
    BY <1>1, <1>2, <1>3, <2>1 DEF IInv, LevelInv
<1> QED
  BY <1>4, <1>5

\* Of commit() and rollback().
LEMMA AnswerEndKeeps ==
    ASSUME IInv, NEW j \in Calls, Answer(j), call[j].op \in EndOps
    PROVE  IInv'
<1> DEFINE u == call[j].by
           to == CASE call[j].failed -> "none"
                   [] ~call[j].failed /\ call[j].op = "commit" -> "kept"
                   [] ~call[j].failed /\ call[j].op = "rollback" -> "undone"
<1>1. /\ call[j].at = "done" /\ InTurn(j)
      /\ UNCHANGED <<line, lent, session>>
      /\ call' = [call EXCEPT ![j] = Idle]
      /\ Told(u, {"open"}, to)
      /\ tx' = [tx EXCEPT ![u] = IF call[j].failed THEN "unsure" ELSE "none"]
  BY DEF Answer, Believes, Learns, EndOps, InTurn, NonIdle, UserOps, TransactionOps
<1>2. /\ u \in Users
      /\ lent[u] = call[j].on
      /\ \A k \in Calls : InTurn(k) /\ call[k].by = u => k = j
  BY <1>1, AloneThere
<1>3. /\ to \in {"none", "kept", "undone", "dropped"}
      /\ to # "none" => ~call[j].failed /\ to = How(call[j].op)
  BY DEF EndOps, How, IInv, TypeOK, CallType
<1> HIDE DEF to
<1>4. /\ work' \in [Works -> WorkType]
      /\ \A w \in Works : /\ work'[w].by = work[w].by
                          /\ work'[w].on = work[w].on
                          /\ work'[w].at = work[w].at
                          /\ IF work[w].by = u /\ work[w].due \in {"open"}
                               THEN work'[w].due = to ELSE work'[w].due = work[w].due
  BY <1>1, <1>2, <1>3, ToldFacts DEF IInv
<1>5. Answered(j)
  BY <1>1, <1>3, <1>4 DEF Answered, IInv, TypeOK, CallType, Idle, How
<1>6. /\ tx' \in [Users -> {"none", "open", "unsure"}]
      /\ tx'[u] = IF call[j].failed THEN "unsure" ELSE "none"
      /\ \A v \in Users \ {u} : tx'[v] = tx[v]
  BY <1>1, <1>2 DEF IInv, TypeOK
<1>7. TypeOK' /\ LevelInv'
  BY <1>5, <1>6, AnswerLevel DEF Answered, IInv, TypeOK
<1>8. BeliefInv'
  <2> SUFFICES ASSUME NEW v \in Users, lent[v] # NoConn
               PROVE  Sync(v)' \/ \E k \in Calls : News(k, v)'
    BY <1>1 DEF BeliefInv
  <2>1. CASE v = u
    BY <1>1, <1>2, <1>6, <2>1 DEF IInv, AnswersInv, Sync
  <2>2. CASE v # u
    <3>1. Sync(v) => Sync(v)'
      BY <1>1, <1>6, <2>2 DEF Sync
    <3>2. \A k \in Calls : News(k, v) => News(k, v)'
      BY <1>5, <2>2 DEF News, Answered
    <3> QED
      BY <3>1, <3>2 DEF IInv, BeliefInv
  <2> QED
    BY <2>1, <2>2
<1>9. UnderWayInv'
  <2> SUFFICES ASSUME NEW w \in Works, work[w].due \in {"auto", "tx"}
               PROVE  /\ tx'[work[w].by] = tx[work[w].by]
                      /\ ~Pending(work[w].by, TransactionOps)'
                      /\ \E k \in Calls : AQuery(k)' /\ call'[k].arg = w
    BY <1>3, <1>4, <1>5 DEF Answered, IInv, UnderWayInv
  <2>1. work[w].by \in Users \ {u}
    BY <1>1 DEF IInv, UnderWayInv, Pending, TransactionOps
  <2>2. ~Pending(work[w].by, TransactionOps)'
    BY <1>5 DEF Answered, IInv, UnderWayInv, Pending
  <2>3. PICK k \in Calls : AQuery(k) /\ call[k].arg = w
    BY DEF IInv, UnderWayInv
  <2>4. AQuery(k)' /\ call'[k].arg = w
    BY <1>5, <2>3 DEF Answered, AQuery, NonIdle, EndOps
  <2> QED
    BY <1>6, <2>1, <2>2, <2>4
<1>10. OpenDueInv'
  <2> SUFFICES ASSUME NEW w \in Works, work'[w].due = "open"
               PROVE  /\ work[w].due = "open" /\ work[w].by \in Users \ {u}
                      /\ Pending(work[w].by, EndOps) => Pending(work[w].by, EndOps)'
    BY <1>4, <1>5, <1>6 DEF Answered, IInv, OpenDueInv, NonIdle
  <2>1. work[w].due = "open" /\ work[w].by # u
    BY <1>3, <1>4 DEF How
  <2>2. work[w].by \in Users
    BY <2>1 DEF IInv, OpenDueInv
  <2>3. Pending(work[w].by, EndOps) => Pending(work[w].by, EndOps)'
    BY <1>5, <2>1 DEF Answered, Pending
  <2> QED
    BY <2>1, <2>2, <2>3
<1>11. SettledInv'
  <2> SUFFICES ASSUME NEW w \in Works, work[w].by = u, work[w].due = "open"
               PROVE  /\ work[w].at # "none"
                      /\ to = "kept" => work[w].at = "kept"
                      /\ to = "undone" => work[w].at = "undone"
                      /\ to # "dropped"
    BY <1>1, <1>4 DEF IInv, SettledInv
  <2>1. to # "none" => work[w].at = to
    BY <1>1, <1>3 DEF IInv, OpenDueInv, NonIdle
  <2> QED
    BY <1>3, <2>1 DEF IInv, SettledInv, How
<1> QED
  BY <1>5, <1>7, <1>8, <1>9, <1>10, <1>11, AnsweredKeeps DEF IInv

\* Of query().
LEMMA AnswerQueryKeeps ==
    ASSUME IInv, NEW j \in Calls, Answer(j), call[j].op = "query"
    PROVE  IInv'
<1> DEFINE w0 == call[j].arg
           was == work[w0].due
           now == CASE call[j].failed -> "none"
                    [] ~call[j].failed /\ was = "auto" -> "kept"
                    [] ~call[j].failed /\ was = "tx" -> "open"
                    [] OTHER -> was
<1>1. /\ call[j].at = "done" /\ NonIdle(j)
      /\ UNCHANGED <<line, lent, session, tx>>
      /\ call' = [call EXCEPT ![j] = Idle]
      /\ work' = [work EXCEPT ![w0].due = now]
  BY DEF Answer, Believes, Learns, EndOps, NonIdle
<1>2. /\ w0 \in Works
      /\ call[j].failed => work[w0].at = "failed"
      /\ ~call[j].failed => work[w0].at \in {"kept", "undone", "open"}
  BY <1>1 DEF IInv, QueriesInv, AQuery
<1>2a. /\ call[j].failed => now = "none"
       /\ ~call[j].failed /\ was = "auto" => now = "kept"
       /\ ~call[j].failed /\ was = "tx" => now = "open"
       /\ ~call[j].failed /\ was \notin {"auto", "tx"} => now = was
       /\ was \in {"none", "auto", "tx", "open", "kept", "undone", "dropped"}
       /\ call[j].failed \in BOOLEAN
  BY <1>2 DEF IInv, TypeOK, WorkType, CallType
<1> HIDE DEF now
<1>3. /\ work' \in [Works -> WorkType]
      /\ \A w \in Works : /\ work'[w].by = work[w].by
                          /\ work'[w].on = work[w].on
                          /\ work'[w].at = work[w].at
      /\ \A w \in Works \ {w0} : work'[w].due = work[w].due
      /\ work'[w0].due = now
  BY <1>1, <1>2, <1>2a DEF IInv, TypeOK, WorkType
<1>4. Answered(j)
  BY <1>1, <1>2a, <1>3 DEF Answered, IInv, TypeOK, CallType, Idle
<1>5. TypeOK' /\ LevelInv'
  BY <1>1, <1>4, AnswerLevel DEF Answered, IInv, TypeOK
<1>6. BeliefInv'
  <2> SUFFICES ASSUME NEW v \in Users, lent[v] # NoConn
               PROVE  Sync(v)' \/ \E k \in Calls : News(k, v)'
    BY <1>1 DEF BeliefInv
  <2>1. Sync(v) => Sync(v)'
    BY <1>1 DEF Sync
  <2>2. \A k \in Calls : News(k, v) => News(k, v)'
    BY <1>4 DEF News, Answered, TransactionOps, EndOps
  <2> QED
    BY <2>1, <2>2 DEF IInv, BeliefInv
<1>7. UnderWayInv'
  <2> SUFFICES ASSUME NEW w \in Works, work'[w].due \in {"auto", "tx"}
               PROVE  /\ work'[w].due = work[w].due
                      /\ ~Pending(work[w].by, TransactionOps)'
                      /\ \E k \in Calls : AQuery(k)' /\ call'[k].arg = w
    BY <1>1, <1>3, <1>4 DEF Answered, IInv, UnderWayInv
  <2>1. w # w0 /\ work'[w].due = work[w].due
    BY <1>2a, <1>3
  <2>2. ~Pending(work[w].by, TransactionOps)'
    BY <1>4, <2>1 DEF Answered, IInv, UnderWayInv, Pending
  <2>3. PICK k \in Calls : AQuery(k) /\ call[k].arg = w
    BY <2>1 DEF IInv, UnderWayInv
  <2>4. AQuery(k)' /\ call'[k].arg = w
    BY <1>4, <2>1, <2>3 DEF Answered, AQuery, NonIdle
  <2> QED
    BY <2>1, <2>2, <2>4
<1>8. OpenDueInv'
  <2>1. \A w \in Works : Pending(work[w].by, EndOps)' <=> Pending(work[w].by, EndOps)
    BY <1>4 DEF Answered, Pending, EndOps
  <2>2. \A k \in Calls : call'[k].op \in EndOps => call'[k] = call[k]
    BY <1>4 DEF Answered, EndOps
  <2> SUFFICES ASSUME NEW w \in Works, work'[w].due = "open"
               PROVE  /\ work[w].by \in Users
                      /\ lent[work[w].by] = work[w].on
                      /\ work[w].on \in Conns
                      /\ tx[work[w].by] = "open"
                      /\ ~Pending(work[w].by, EndOps) => work[w].at = "open"
                      /\ \A k \in Calls : NonIdle(k) /\ call[k].by = work[w].by /\ call[k].op \in EndOps =>
                            /\ call[k].at = "queued" => work[w].at = "open"
                            /\ call[k].at = "ended" \/ (call[k].at = "done" /\ ~call[k].failed)
                                  => work[w].at = How(call[k].op)
    BY <1>1, <1>3, <2>1, <2>2 DEF OpenDueInv, NonIdle, Pending
  <2>3. CASE work[w].due = "open"
    BY <2>3 DEF IInv, OpenDueInv
  <2>4. CASE work[w].due # "open"
    <3>1. w = w0 /\ work[w].due = "tx" /\ ~call[j].failed
      BY <1>2a, <1>3, <2>4
    <3>2. work[w].at = "open"
      BY <1>2, <3>1 DEF IInv, UnderWayInv
    <3>3. \A k \in Calls : ~(NonIdle(k) /\ call[k].by = work[w].by /\ call[k].op \in EndOps)
      BY <3>1 DEF IInv, UnderWayInv, Pending, TransactionOps, AQuery, NonIdle
    <3> QED
      BY <3>1, <3>2, <3>3 DEF IInv, UnderWayInv
  <2> QED
    BY <2>3, <2>4
<1>9. SettledInv'
  <2>1. \A w \in Works \ {w0} : work'[w].due = work[w].due
    BY <1>3
  <2>2. /\ work[w0].at # "none"
        /\ work'[w0].due = "kept" => work[w0].at = "kept"
        /\ work'[w0].due = "undone" => work[w0].due = "undone"
        /\ work'[w0].due = "dropped" => work[w0].due = "dropped"
    BY <1>2, <1>2a, <1>3 DEF IInv, SettledInv, UnderWayInv
  <2> QED
    BY <1>1, <1>2, <1>3, <2>1, <2>2 DEF IInv, SettledInv
<1> QED
  BY <1>4, <1>5, <1>6, <1>7, <1>8, <1>9, AnsweredKeeps DEF IInv

\* Of beginTransaction(), setIsolationLevel() and close().
LEMMA AnswerOtherKeeps ==
    ASSUME IInv, NEW j \in Calls, Answer(j), call[j].op \notin EndOps \cup {"query"}
    PROVE  IInv'
<1> DEFINE u == call[j].by
           tells == call[j].op = "begin" /\ ~call[j].failed
<1>1. /\ call[j].at = "done" /\ NonIdle(j)
      /\ UNCHANGED <<line, lent, session, work>>
      /\ call' = [call EXCEPT ![j] = Idle]
      /\ tells => tx' = [tx EXCEPT ![u] = IF @ = "none" THEN "open" ELSE @]
      /\ ~tells => tx' = tx
  BY DEF Answer, Believes, Learns, NonIdle
<1>2. Answered(j)
  BY <1>1 DEF Answered, IInv, TypeOK, CallType, Idle
<1>3. tells => /\ u \in Users /\ call[j].on \in Conns /\ lent[u] = call[j].on
               /\ ~session[lent[u]].auto
               /\ Pending(u, TransactionOps)
  BY <1>1 DEF IInv, UserCallsInv, AnswersInv, UserOps, TransactionOps, Pending, InTurn, NonIdle
<1>4. /\ tx' \in [Users -> {"none", "open", "unsure"}]
      /\ \A v \in Users : tx'[v] = tx[v] \/ (tells /\ v = u /\ tx'[v] = "open")
  BY <1>1, <1>3 DEF IInv, TypeOK
<1>5. TypeOK' /\ LevelInv'
  BY <1>2, <1>4, AnswerLevel DEF Answered, IInv, TypeOK
<1>6. BeliefInv'
  <2> SUFFICES ASSUME NEW v \in Users, lent[v] # NoConn
               PROVE  Sync(v)' \/ \E k \in Calls : News(k, v)'
    BY <1>1 DEF BeliefInv
  <2>1. CASE tells /\ v = u
    BY <1>1, <1>3, <2>1 DEF IInv, TypeOK, Sync
  <2>2. CASE ~(tells /\ v = u)
    <3>1. Sync(v) => Sync(v)'
      BY <1>1, <1>4, <2>2 DEF Sync
    <3>2. \A k \in Calls : News(k, v) => News(k, v)'
      BY <1>1, <1>2, <2>2 DEF News, Answered, TransactionOps
    <3> QED
      BY <3>1, <3>2 DEF IInv, BeliefInv
  <2> QED
    BY <2>1, <2>2
<1>7. UnderWayInv'
  <2> SUFFICES ASSUME NEW w \in Works, work[w].due \in {"auto", "tx"}
               PROVE  /\ tx'[work[w].by] = tx[work[w].by]
                      /\ ~Pending(work[w].by, TransactionOps)'
                      /\ \E k \in Calls : AQuery(k)' /\ call'[k].arg = w
    BY <1>1, <1>2 DEF Answered, IInv, UnderWayInv
  <2>1. tx'[work[w].by] = tx[work[w].by]
    BY <1>3, <1>4 DEF IInv, UnderWayInv
  <2>2. ~Pending(work[w].by, TransactionOps)'
    BY <1>1, <1>2 DEF Answered, IInv, UnderWayInv, Pending
  <2>3. PICK k \in Calls : AQuery(k) /\ call[k].arg = w
    BY DEF IInv, UnderWayInv
  <2>4. AQuery(k)' /\ call'[k].arg = w
    BY <1>2, <2>3 DEF Answered, AQuery, NonIdle
  <2> QED
    BY <2>1, <2>2, <2>4
<1>8. OpenDueInv'
  <2>1. \A w \in Works : Pending(work[w].by, EndOps)' <=> Pending(work[w].by, EndOps)
    BY <1>1, <1>2 DEF Answered, Pending, EndOps
  <2>2. \A k \in Calls : call'[k].op \in EndOps => call'[k] = call[k]
    BY <1>2 DEF Answered, EndOps
  <2>3. \A w \in Works : work[w].due = "open" => tx'[work[w].by] = "open"
    BY <1>4 DEF IInv, OpenDueInv
  <2> QED
    BY <1>1, <2>1, <2>2, <2>3 DEF IInv, OpenDueInv, NonIdle
<1>9. SettledInv'
  BY <1>1 DEF IInv, SettledInv
<1> QED
  BY <1>2, <1>5, <1>6, <1>7, <1>8, <1>9, AnsweredKeeps DEF IInv

-----------------------------------------------------------------------------
(* The calls.                                                              *)

\* User u calls op, and nothing that is open changes.
Called(j, u, op) ==
    /\ UNCHANGED <<line, lent, session, tx>>
    /\ isolation' \in [Users -> Levels \cup {"unsure"}]
    /\ call' \in [Calls -> CallType]
    /\ lent[u] \in Conns
    /\ call[j].at = "idle"
    /\ call'[j].op = op /\ call'[j].by = u /\ call'[j].on = lent[u] /\ call'[j].at = "queued"
    /\ op = "setIsolationLevel" => call'[j].arg \in Levels
    /\ \A k \in Calls \ {j} : call'[k] = call[k]
    /\ work' \in [Works -> WorkType]
    /\ \A w \in Works : work[w].at = "open" \/ work'[w].at = "open" =>
          work'[w].at = work[w].at /\ work'[w].by = work[w].by /\ work'[w].on = work[w].on

LEMMA CalledKeeps ==
    ASSUME IInv, NEW j \in Calls, NEW u \in Users, NEW op \in UserOps, Called(j, u, op)
    PROVE  /\ TypeOK' /\ LendInv' /\ SessionsInv' /\ LeftClean' /\ UserCallsInv' /\ OtherCallsInv'
           /\ ClosesInv' /\ OpenInv' /\ BeliefInv' /\ AnswersInv'
<1>1. TypeOK' /\ LendInv' /\ SessionsInv'
  <2>1. TypeOK'
    BY DEF Called, IInv, TypeOK
  <2>2. LendInv'
    BY DEF Called, IInv, LendInv, OneUserEach, WaitersHaveNone, WaitOnce
  <2>3. SessionsInv'
    BY DEF Called, IInv, SessionsInv
  <2> QED
    BY <2>1, <2>2, <2>3
<1>2. LeftClean'
  <2>1. \A c \in Conns : OpenOn(c)' = OpenOn(c)
    BY DEF Called, OpenOn
  <2> QED
    BY <2>1 DEF Called, IInv, LeftClean, Available
<1>3. UserCallsInv'
  BY DEF Called, IInv, UserCallsInv, InTurn, NonIdle
<1>4. OtherCallsInv' /\ ClosesInv'
  BY DEF Called, IInv, OtherCallsInv, ClosesInv, Closing, UserOps, TransactionOps, EndOps
<1>5. OpenInv'
  BY DEF Called, IInv, OpenInv
<1>6. BeliefInv'
  BY DEF Called, IInv, BeliefInv, Sync, News
<1>7. AnswersInv'
  BY DEF Called, IInv, AnswersInv
<1> QED
  BY <1>1, <1>2, <1>3, <1>4, <1>5, <1>6, <1>7

LEMMA CallTransactionKeeps ==
    ASSUME IInv, NEW j \in Calls, NEW u \in Users, NEW op \in TransactionOps, CallTransaction(j, u, op)
    PROVE  IInv'
<1>1. /\ ~Pending(u, UserOps \ {"query"})
      /\ Queue(j, u, op, Nothing)
      /\ Told(u, {"auto", "tx"}, "none")
      /\ UNCHANGED <<line, lent, session, tx, isolation>>
      /\ op \in UserOps /\ op \notin {"query", "setIsolationLevel"}
  BY DEF CallTransaction, UserOps, TransactionOps, EndOps
<1>2. /\ work' \in [Works -> WorkType]
      /\ \A w \in Works : /\ work'[w].by = work[w].by
                          /\ work'[w].on = work[w].on
                          /\ work'[w].at = work[w].at
                          /\ IF work[w].by = u /\ work[w].due \in {"auto", "tx"}
                               THEN work'[w].due = "none" ELSE work'[w].due = work[w].due
  BY <1>1, ToldFacts DEF IInv
<1>3. Called(j, u, op)
  <2>1. TypeOK /\ isolation \in [Users -> Levels \cup {"unsure"}]
    BY DEF IInv, TypeOK
  <2>2. Nothing \in Works \cup Levels \cup {Nothing} /\ op \in UserOps
    BY <1>1
  <2>3. /\ call' \in [Calls -> CallType]
        /\ lent[u] \in Conns
        /\ call[j].at = "idle"
        /\ call'[j].op = op /\ call'[j].by = u /\ call'[j].on = lent[u] /\ call'[j].at = "queued"
        /\ \A k \in Calls \ {j} : call'[k] = call[k]
    BY <1>1, <2>1, <2>2, QueueFacts
  <2> QED
    BY <1>1, <1>2, <2>1, <2>3 DEF Called
<1>4. /\ TypeOK' /\ LendInv' /\ SessionsInv' /\ LeftClean' /\ UserCallsInv' /\ OtherCallsInv'
      /\ ClosesInv' /\ OpenInv' /\ BeliefInv' /\ AnswersInv'
  BY <1>1, <1>3, CalledKeeps
<1>5. QueriesInv' /\ QueriesApart' /\ OwnersInv' /\ FatesInv' /\ LevelInv'
  <2>1. \A k \in Calls : AQuery(k)' => AQuery(k) /\ call'[k] = call[k] /\ call[k].arg \in Works
    BY <1>1, <1>3 DEF Called, AQuery, NonIdle, IInv, QueriesInv
  <2>2. QueriesInv' /\ QueriesApart'
    BY <1>1, <1>2, <2>1 DEF IInv, QueriesInv, QueriesApart
  <2>3. OwnersInv' /\ FatesInv'
    BY <1>1, <1>2, <2>1 DEF IInv, OwnersInv, FatesInv
  <2>4. LevelInv'
    BY <1>1, <1>3 DEF Called, IInv, LevelInv, NonIdle
  <2> QED
    BY <2>2, <2>3, <2>4
<1>6. OneAtATime'
  BY <1>1, <1>3 DEF Called, IInv, OneAtATime, InTurn, NonIdle, Pending
<1>7. UnderWayInv'
  <2> SUFFICES ASSUME NEW w \in Works, work'[w].due \in {"auto", "tx"}
               PROVE  /\ work'[w].due = work[w].due
                      /\ ~Pending(work[w].by, TransactionOps)'
                      /\ \E k \in Calls : AQuery(k)' /\ call'[k].arg = w
    BY <1>1, <1>2 DEF IInv, UnderWayInv
  <2>1. work'[w].due = work[w].due /\ work[w].by # u
    BY <1>2
  <2>2. ~Pending(work[w].by, TransactionOps)'
    BY <1>2, <1>3, <2>1 DEF Called, IInv, UnderWayInv, Pending
  <2>3. PICK k \in Calls : AQuery(k) /\ call[k].arg = w
    BY <2>1 DEF IInv, UnderWayInv
  <2>4. AQuery(k)' /\ call'[k].arg = w
    BY <1>3, <2>3 DEF Called, AQuery, NonIdle
  <2> QED
    BY <2>1, <2>2, <2>4
<1>8. OpenDueInv'
  <2> SUFFICES ASSUME NEW w \in Works, work[w].due = "open"
               PROVE  /\ ~Pending(work[w].by, EndOps)' => work[w].at = "open"
                      /\ \A k \in Calls : NonIdle(k)' /\ call'[k].by = work[w].by /\ call'[k].op \in EndOps =>
                            /\ call'[k].at = "queued" => work[w].at = "open"
                            /\ call'[k].at = "ended" \/ (call'[k].at = "done" /\ ~call'[k].failed)
                                  => work[w].at = How(call'[k].op)
    BY <1>1, <1>2 DEF IInv, OpenDueInv
  <2>1. Pending(work[w].by, EndOps) => Pending(work[w].by, EndOps)'
    BY <1>2, <1>3 DEF Called, Pending
  <2>2. work[w].by = u => work[w].at = "open"
    BY <1>1 DEF IInv, OpenDueInv, Pending, UserOps, TransactionOps, EndOps
  <2> QED
    BY <1>3, <2>1, <2>2 DEF Called, IInv, OpenDueInv, NonIdle
<1>9. SettledInv'
  BY <1>1, <1>2 DEF IInv, SettledInv
<1> QED
  BY <1>4, <1>5, <1>6, <1>7, <1>8, <1>9 DEF IInv

LEMMA CallSetLevelKeeps ==
    ASSUME IInv, NEW j \in Calls, NEW u \in Users, NEW level \in Levels, CallSetLevel(j, u, level)
    PROVE  IInv'
<1>1. /\ ~Pending(u, UserOps \ {"query"})
      /\ Queue(j, u, "setIsolationLevel", level)
      /\ isolation' = [isolation EXCEPT ![u] = "unsure"]
      /\ UNCHANGED <<line, lent, session, work, tx>>
      /\ "setIsolationLevel" \in UserOps
  BY DEF CallSetLevel, UserOps
<1>2. Called(j, u, "setIsolationLevel")
  <2>1. level \in Works \cup Levels \cup {Nothing}
    OBVIOUS
  <2>2. /\ call' \in [Calls -> CallType]
        /\ lent[u] \in Conns
        /\ call[j].at = "idle"
        /\ call'[j].op = "setIsolationLevel" /\ call'[j].by = u /\ call'[j].on = lent[u]
        /\ call'[j].arg = level /\ call'[j].at = "queued"
        /\ \A k \in Calls \ {j} : call'[k] = call[k]
    BY <1>1, <2>1, QueueFacts DEF IInv
  <2> QED
    BY <1>1, <2>2 DEF Called, IInv, TypeOK
<1>3. /\ TypeOK' /\ LendInv' /\ SessionsInv' /\ LeftClean' /\ UserCallsInv' /\ OtherCallsInv'
      /\ ClosesInv' /\ OpenInv' /\ BeliefInv' /\ AnswersInv'
  BY <1>1, <1>2, CalledKeeps
<1>4. QueriesInv' /\ QueriesApart' /\ OwnersInv' /\ FatesInv'
  <2>1. \A k \in Calls : AQuery(k)' => AQuery(k) /\ call'[k] = call[k] /\ call[k].arg \in Works
    BY <1>1, <1>2 DEF Called, AQuery, NonIdle, IInv, QueriesInv
  <2>2. QueriesInv' /\ QueriesApart'
    BY <1>1, <2>1 DEF IInv, QueriesInv, QueriesApart
  <2>3. OwnersInv' /\ FatesInv'
    BY <1>1, <2>1 DEF IInv, OwnersInv, FatesInv
  <2> QED
    BY <2>2, <2>3
<1>4a. LevelInv'
  <2>1. /\ isolation'[u] = "unsure" /\ \A v \in Users \ {u} : isolation'[v] = isolation[v]
    BY <1>1 DEF IInv, TypeOK
  <2>2. ASSUME NEW v \in Users, lent[v] # NoConn
        PROVE  isolation'[v] \in {"unsure", session[lent[v]].level}
    BY <2>1, <2>2 DEF IInv, LevelInv
  <2>3. ASSUME NEW k \in Calls, NonIdle(k)', call'[k].op = "setIsolationLevel"
        PROVE  /\ isolation'[call'[k].by] = "unsure"
               /\ call'[k].at = "done" /\ ~call'[k].failed => session[call'[k].on].level = call'[k].arg
    <3>1. CASE k = j
      BY <1>2, <2>1, <3>1 DEF Called
    <3>2. CASE k # j
      <4>1. call'[k] = call[k] /\ NonIdle(k) /\ InTurn(k)
        BY <1>2, <2>3, <3>2 DEF Called, NonIdle, InTurn, UserOps
      <4>2. call[k].by \in Users
        BY <4>1 DEF IInv, UserCallsInv
      <4> QED
        BY <2>1, <2>3, <4>1, <4>2 DEF IInv, LevelInv
    <3> QED
      BY <3>1, <3>2
  <2> QED
    BY <1>1, <2>2, <2>3 DEF LevelInv
<1>5. OneAtATime'
  BY <1>1, <1>2 DEF Called, IInv, OneAtATime, InTurn, NonIdle, Pending
<1>6. UnderWayInv'
  <2> SUFFICES ASSUME NEW w \in Works, work[w].due \in {"auto", "tx"}
               PROVE  /\ ~Pending(work[w].by, TransactionOps)'
                      /\ \E k \in Calls : AQuery(k)' /\ call'[k].arg = w
    BY <1>1 DEF IInv, UnderWayInv
  <2>1. ~Pending(work[w].by, TransactionOps)'
    BY <1>1, <1>2 DEF Called, IInv, UnderWayInv, Pending, TransactionOps, EndOps
  <2>2. PICK k \in Calls : AQuery(k) /\ call[k].arg = w
    BY DEF IInv, UnderWayInv
  <2>3. AQuery(k)' /\ call'[k].arg = w
    BY <1>2, <2>2 DEF Called, AQuery, NonIdle
  <2> QED
    BY <2>1, <2>3
<1>7. OpenDueInv'
  <2>1. \A w \in Works : Pending(work[w].by, EndOps)' <=> Pending(work[w].by, EndOps)
    BY <1>1, <1>2 DEF Called, Pending, EndOps
  <2>2. \A k \in Calls : call'[k].op \in EndOps => call'[k] = call[k]
    BY <1>2 DEF Called, EndOps
  <2> QED
    BY <1>1, <2>1, <2>2 DEF IInv, OpenDueInv, NonIdle
<1>8. SettledInv'
  BY <1>1 DEF IInv, SettledInv
<1> QED
  BY <1>3, <1>4, <1>4a, <1>5, <1>6, <1>7, <1>8 DEF IInv

LEMMA CallQueryKeeps ==
    ASSUME IInv, NEW j \in Calls, NEW u \in Users, NEW w0 \in Works, CallQuery(j, u, w0)
    PROVE  IInv'
<1> DEFINE due == Promised(u)
<1>1. /\ work[w0].at = "none"
      /\ Queue(j, u, "query", w0)
      /\ work' = [work EXCEPT ![w0] = [by |-> u, on |-> lent[u], at |-> "asked", due |-> due]]
      /\ UNCHANGED <<line, lent, session, tx, isolation>>
      /\ "query" \in UserOps
  BY DEF CallQuery, UserOps
<1>2. /\ due \in {"none", "auto", "tx"}
      /\ due \in {"auto", "tx"} => ~Pending(u, TransactionOps)
      /\ due = "auto" => tx[u] = "none"
      /\ due = "tx" => tx[u] = "open"
  BY DEF IInv, TypeOK, Promised
<1> HIDE DEF due
<1>2a. /\ call' \in [Calls -> CallType]
       /\ lent[u] \in Conns
       /\ call[j].at = "idle"
       /\ call'[j].op = "query" /\ call'[j].by = u /\ call'[j].on = lent[u]
       /\ call'[j].arg = w0 /\ call'[j].at = "queued"
       /\ \A k \in Calls \ {j} : call'[k] = call[k]
  <2>1. w0 \in Works \cup Levels \cup {Nothing}
    OBVIOUS
  <2> QED
    BY <1>1, <2>1, QueueFacts DEF IInv
<1>3. /\ lent[u] \in Conns
      /\ call'[j].arg = w0
      /\ work' \in [Works -> WorkType]
      /\ work'[w0].by = u /\ work'[w0].on = lent[u] /\ work'[w0].at = "asked" /\ work'[w0].due = due
      /\ \A w \in Works \ {w0} : work'[w] = work[w]
  BY <1>1, <1>2, <1>2a DEF IInv, TypeOK, WorkType
<1>4. Called(j, u, "query")
  BY <1>1, <1>2a, <1>3 DEF Called, IInv, TypeOK
<1>5. /\ TypeOK' /\ LendInv' /\ SessionsInv' /\ LeftClean' /\ UserCallsInv' /\ OtherCallsInv'
      /\ ClosesInv' /\ OpenInv' /\ BeliefInv' /\ AnswersInv'
  BY <1>1, <1>4, CalledKeeps
<1>6. \A k \in Calls \ {j} : AQuery(k)' => /\ AQuery(k) /\ call'[k] = call[k]
                                           /\ call[k].arg \in Works \ {w0}
                                           /\ work'[call[k].arg] = work[call[k].arg]
  BY <1>1, <1>2a, <1>3 DEF AQuery, NonIdle, IInv, QueriesInv
<1>6a. session[lent[u]].at = "open" /\ lent[u] # NoConn
  BY <1>3, NobodyAssumption DEF IInv, SessionsInv
<1>7. QueriesInv'
  <2> SUFFICES ASSUME NEW k \in Calls, AQuery(k)'
               PROVE  /\ call'[k].by \in Users
                      /\ call'[k].on # NoConn => \/ lent[call'[k].by] = call'[k].on
                                                \/ session[call'[k].on].at = "closing"
                      /\ call'[k].arg \in Works
                      /\ call'[k].at \in {"queued", "done"}
                      /\ work'[call'[k].arg].by = call'[k].by
                      /\ call'[k].on # NoConn => work'[call'[k].arg].on = call'[k].on
                      /\ call'[k].at = "queued" => work'[call'[k].arg].at = "asked"
                      /\ call'[k].at = "done" /\ call'[k].failed => work'[call'[k].arg].at = "failed"
                      /\ call'[k].at = "done" /\ ~call'[k].failed
                            => work'[call'[k].arg].at \in {"kept", "undone", "open"}
    BY <1>1 DEF QueriesInv
  <2>1. CASE k = j
    BY <1>2a, <1>3, <2>1
  <2>2. CASE k # j
    BY <1>6, <2>2 DEF IInv, QueriesInv
  <2> QED
    BY <2>1, <2>2
<1>7a. OwnersInv'
  <2>1. \A k \in Calls : AQuery(k) /\ call[k].on = lent[u] => call[k].by = u
    BY <1>6a DEF IInv, QueriesInv, LendInv, OneUserEach
  <2>2. \A w \in Works : work'[w].at = "open" => work[w].at = "open" /\ work'[w] = work[w]
    BY <1>3
  <2>3. \A w \in Works : work[w].at = "open" /\ work[w].on = lent[u] => work[w].by = u
    BY <1>6a DEF IInv, OpenInv, LendInv, OneUserEach
  <2>4. ASSUME NEW k \in Calls, AQuery(k)', call'[k].on # NoConn, NEW i \in Calls, AQuery(i)',
               call'[i].on = call'[k].on
        PROVE  call'[i].by = call'[k].by
    BY <1>2a, <1>6, <2>1, <2>4 DEF IInv, OwnersInv
  <2>5. ASSUME NEW k \in Calls, AQuery(k)', call'[k].on # NoConn, NEW w \in Works,
               work'[w].at = "open", work'[w].on = call'[k].on
        PROVE  work'[w].by = call'[k].by
    BY <1>2a, <1>6, <2>2, <2>3, <2>5 DEF IInv, OwnersInv
  <2> QED
    BY <2>4, <2>5 DEF OwnersInv
<1>7b. FatesInv'
  <2> SUFFICES ASSUME NEW k \in Calls, AQuery(k)', call'[k].on # NoConn
               PROVE  /\ work'[call'[k].arg].due = "auto" /\ session[call'[k].on].at = "closing"
                            => session[call'[k].on].auto
                      /\ work'[call'[k].arg].due = "dropped"
                            => session[call'[k].on].at = "closing" /\ ~session[call'[k].on].auto
    BY <1>1 DEF FatesInv
  <2>1. CASE k = j
    BY <1>2, <1>2a, <1>3, <1>6a, <2>1
  <2>2. CASE k # j
    BY <1>6, <2>2 DEF IInv, FatesInv
  <2> QED
    BY <2>1, <2>2
<1>7c. LevelInv'
  <2>1. \A k \in Calls : NonIdle(k)' /\ call'[k].op = "setIsolationLevel" => NonIdle(k) /\ call'[k] = call[k]
    BY <1>2a DEF NonIdle
  <2> QED
    BY <1>1, <2>1 DEF IInv, LevelInv
<1>8. QueriesApart'
  BY <1>2a, <1>6 DEF IInv, QueriesApart
<1>9. OneAtATime'
  BY <1>4 DEF Called, IInv, OneAtATime, InTurn, NonIdle
<1>10. \A v : Pending(v, TransactionOps)' <=> Pending(v, TransactionOps)
  BY <1>4 DEF Called, Pending, TransactionOps, EndOps
<1>11. UnderWayInv'
  <2> SUFFICES ASSUME NEW w \in Works, work'[w].due \in {"auto", "tx"}
               PROVE  /\ work'[w].by \in Users
                      /\ ~Pending(work'[w].by, TransactionOps)
                      /\ \E k \in Calls : AQuery(k)' /\ call'[k].arg = w
                      /\ work'[w].due = "auto" => /\ tx[work'[w].by] = "none"
                                                  /\ work'[w].at \in {"asked", "kept", "failed"}
                      /\ work'[w].due = "tx" => /\ tx[work'[w].by] = "open"
                                                /\ work'[w].at \in {"asked", "open", "failed"}
                                                /\ work'[w].on \in Conns
                                                /\ lent[work'[w].by] = work'[w].on
    BY <1>1, <1>10 DEF UnderWayInv, Pending
  <2>1. CASE w = w0
    <3>1. AQuery(j)' /\ call'[j].arg = w
      BY <1>3, <1>4, <2>1 DEF Called, AQuery, NonIdle
    <3> QED
      BY <1>2, <1>3, <2>1, <3>1
  <2>2. CASE w # w0
    <3>1. work'[w] = work[w]
      BY <1>3, <2>2
    <3>2. PICK k \in Calls : AQuery(k) /\ call[k].arg = w
      BY <3>1 DEF IInv, UnderWayInv
    <3>3. AQuery(k)' /\ call'[k].arg = w
      BY <1>4, <3>2 DEF Called, AQuery, NonIdle
    <3> QED
      BY <3>1, <3>3 DEF IInv, UnderWayInv
  <2> QED
    BY <2>1, <2>2
<1>12. OpenDueInv'
  <2>1. \A w \in Works : work'[w].due = "open" => work'[w] = work[w]
    BY <1>2, <1>3
  <2>2. \A k \in Calls : call'[k].op \in EndOps => call'[k] = call[k]
    BY <1>4 DEF Called, EndOps
  <2> SUFFICES ASSUME NEW w \in Works, work'[w] = work[w], work[w].due = "open"
               PROVE  /\ work[w].by \in Users
                      /\ lent[work[w].by] = work[w].on
                      /\ work[w].on \in Conns
                      /\ tx[work[w].by] = "open"
                      /\ ~Pending(work[w].by, EndOps)' => work[w].at = "open"
                      /\ \A k \in Calls : NonIdle(k)' /\ call'[k].by = work[w].by /\ call'[k].op \in EndOps =>
                            /\ call'[k].at = "queued" => work[w].at = "open"
                            /\ call'[k].at = "ended" \/ (call'[k].at = "done" /\ ~call'[k].failed)
                                  => work[w].at = How(call'[k].op)
    BY <1>1, <2>1 DEF OpenDueInv
  <2>3. Pending(work[w].by, EndOps) => Pending(work[w].by, EndOps)'
    BY <1>4 DEF Called, Pending, EndOps
  <2> QED
    BY <2>2, <2>3 DEF IInv, OpenDueInv, NonIdle
<1>13. SettledInv'
  BY <1>1, <1>2, <1>3 DEF IInv, SettledInv
<1> QED
  BY <1>5, <1>7, <1>7a, <1>7b, <1>7c, <1>8, <1>9, <1>11, <1>12, <1>13 DEF IInv

-----------------------------------------------------------------------------
(* Pools and their users.                                                  *)

\* Who has no connection has nothing under way but statements on what it had before.
LEMMA NothingWithout ==
    ASSUME IInv, NEW u \in Users, lent[u] = NoConn
    PROVE  /\ \A k \in Calls : InTurn(k) => call[k].by # u
           /\ \A w \in Works : work[w].due \in {"tx", "open"} => work[w].by # u
BY NobodyAssumption DEF IInv, UserCallsInv, UnderWayInv, OpenDueInv

\* A user r without a connection is given c, which nobody has, or only u until now,
\* who has nothing under way and left it clean.
Receives(r, c) ==
    /\ lent[r] = NoConn
    /\ lent'[r] = c
    /\ \A v \in Users \ {r} : lent'[v] # c /\ (lent'[v] = lent[v] \/ lent'[v] = NoConn)
    /\ tx' \in [Users -> {"none", "open", "unsure"}]
    /\ tx'[r] = "none"
    /\ isolation' \in [Users -> Levels \cup {"unsure"}]
    /\ isolation'[r] = "default"
    /\ \A v \in Users \ {r} : lent'[v] = lent[v] => tx'[v] = tx[v] /\ isolation'[v] = isolation[v]
    /\ \A v \in Users \ {r} : lent'[v] # lent[v] =>
          /\ lent[v] = c
          /\ \A k \in Calls : NonIdle(k) /\ call[k].op \in UserOps => call[k].by # v
          /\ \A w \in Works : work[w].due \in {"auto", "tx", "open"} => work[w].by # v
    /\ \A d \in Conns \ {c} : (\A v \in Users : lent'[v] # d) => \A v \in Users : lent[v] # d
    /\ session' \in [Conns -> SessionType]
    /\ session[c].at \in {"none", "open"}
    /\ session[c].at = "open" => session' = session /\ session[c].auto
    /\ session'[c].at = "open" /\ session'[c].auto /\ session'[c].level = "default"
    /\ \A d \in Conns \ {c} : session'[d] = session[d]
    /\ UNCHANGED <<work, call>>

LEMMA ReceivesKeeps ==
    ASSUME IInv, NEW r \in Users, NEW c \in Conns, Receives(r, c), LendTypes', LendInv'
    PROVE  IInv'
<1>1. TypeOK'
  BY DEF Receives, LendTypes, IInv, TypeOK
<1>2. /\ \A k \in Calls : InTurn(k) => call[k].by # r
      /\ \A w \in Works : work[w].due \in {"tx", "open"} => work[w].by # r
  BY NothingWithout DEF Receives
<1>3. ASSUME NEW k \in Calls, InTurn(k)
      PROVE  /\ call[k].by \in Users \ {r} /\ call[k].on \in Conns \ {c}
             /\ lent'[call[k].by] = lent[call[k].by]
             /\ lent'[call[k].by] = call[k].on
  BY <1>2, <1>3 DEF Receives, IInv, UserCallsInv, InTurn
<1>4. ASSUME NEW w \in Works, work[w].due \in {"tx", "open"}
      PROVE  /\ work[w].by \in Users \ {r}
             /\ lent'[work[w].by] = lent[work[w].by]
             /\ tx'[work[w].by] = tx[work[w].by]
  BY <1>2, <1>4 DEF Receives, IInv, UnderWayInv, OpenDueInv
<1>4a. ASSUME NEW w \in Works, work[w].due = "auto"
       PROVE  work[w].by \in Users /\ tx'[work[w].by] = "none"
  BY <1>4a DEF Receives, IInv, UnderWayInv
<1>4b. ASSUME NEW k \in Calls, AQuery(k), call[k].on # NoConn
       PROVE  /\ call[k].on \in Conns \ {c}
              /\ session'[call[k].on] = session[call[k].on]
              /\ lent[call[k].by] = call[k].on => lent'[call[k].by] = call[k].on
  <2>1. /\ call[k].by \in Users /\ call[k].on \in Conns
        /\ lent[call[k].by] = call[k].on \/ session[call[k].on].at = "closing"
    BY <1>4b DEF IInv, QueriesInv, TypeOK, CallType
  <2>2. lent[call[k].by] = call[k].on
           => call[k].by # r /\ lent'[call[k].by] = lent[call[k].by] /\ call[k].on # c
    BY <1>4b, <2>1 DEF Receives, AQuery, UserOps
  <2>3. call[k].on # c
    BY <2>1, <2>2 DEF Receives
  <2> QED
    BY <2>1, <2>2, <2>3 DEF Receives
<1>5. SessionsInv'
  <2>1. \A v \in Users \ {r} : lent'[v] # NoConn => lent[v] = lent'[v] /\ lent[v] \in Conns \ {c}
    BY DEF Receives, IInv, TypeOK
  <2> QED
    BY <2>1 DEF Receives, IInv, SessionsInv
<1>6. LeftClean'
  <2> SUFFICES ASSUME NEW d \in Conns, session'[d].at = "open", Available(d)'
               PROVE  OpenOn(d)' = {} /\ session'[d].auto /\ session'[d].level = "default"
    BY DEF LeftClean
  <2>1. d # c /\ Available(d)
    BY DEF Available, Receives
  <2>2. OpenOn(d)' = OpenOn(d)
    BY DEF OpenOn, Receives
  <2> QED
    BY <2>1, <2>2 DEF Receives, IInv, LeftClean
<1>7. UserCallsInv' /\ QueriesApart' /\ OneAtATime' /\ OtherCallsInv'
  BY <1>3 DEF Receives, IInv, UserCallsInv, QueriesApart, OneAtATime, OtherCallsInv, InTurn, AQuery, NonIdle
<1>7a. QueriesInv' /\ OwnersInv' /\ FatesInv'
  <2>1. \A k \in Calls : AQuery(k)' <=> AQuery(k)
    BY DEF Receives, AQuery, NonIdle
  <2>2. QueriesInv'
    BY <1>4b, <2>1 DEF Receives, IInv, QueriesInv
  <2>3. OwnersInv' /\ FatesInv'
    BY <1>4b, <2>1 DEF Receives, IInv, OwnersInv, FatesInv
  <2> QED
    BY <2>2, <2>3
<1>7b. LevelInv'
  <2>1. ASSUME NEW v \in Users, lent'[v] # NoConn
        PROVE  isolation'[v] \in {"unsure", session'[lent'[v]].level}
    <3>1. CASE v = r
      BY <3>1 DEF Receives
    <3>2. CASE v # r
      <4>1. lent'[v] = lent[v] /\ lent[v] \in Conns \ {c} /\ isolation'[v] = isolation[v]
        BY <2>1, <3>2 DEF Receives, IInv, TypeOK
      <4> QED
        BY <2>1, <4>1 DEF Receives, IInv, LevelInv
    <3> QED
      BY <3>1, <3>2
  <2>2. ASSUME NEW k \in Calls, NonIdle(k), call[k].op = "setIsolationLevel"
        PROVE  /\ isolation'[call[k].by] = "unsure"
               /\ call[k].at = "done" /\ ~call[k].failed => session'[call[k].on].level = call[k].arg
    <3>1. /\ call[k].by \in Users \ {r} /\ call[k].on \in Conns \ {c}
          /\ lent'[call[k].by] = lent[call[k].by]
      BY <1>3, <2>2 DEF InTurn, UserOps
    <3> QED
      BY <2>2, <3>1 DEF Receives, IInv, LevelInv
  <2> QED
    BY <2>1, <2>2 DEF Receives, LevelInv, NonIdle
<1>8. ClosesInv'
  BY DEF Receives, IInv, ClosesInv, Closing
<1>9. OpenInv'
  <2> SUFFICES ASSUME NEW w \in Works, work[w].at = "open"
               PROVE  /\ ~session'[work[w].on].auto
                      /\ lent'[work[w].by] = work[w].on \/ session'[work[w].on].at = "closing"
    BY DEF Receives, IInv, OpenInv
  <2>1. /\ work[w].by \in Users /\ work[w].on \in Conns /\ ~session[work[w].on].auto
        /\ lent[work[w].by] = work[w].on \/ session[work[w].on].at = "closing"
    BY DEF IInv, OpenInv
  <2>2. work[w].on # c
    BY <2>1 DEF Receives, IInv, SessionsInv
  <2>3. session'[work[w].on] = session[work[w].on]
    BY <2>1, <2>2 DEF Receives
  <2>4. lent[work[w].by] = work[w].on => lent'[work[w].by] = work[w].on
    BY <2>1, <2>2, NobodyAssumption DEF Receives
  <2> QED
    BY <2>1, <2>3, <2>4
<1>10. BeliefInv'
  <2> SUFFICES ASSUME NEW v \in Users, lent'[v] # NoConn
               PROVE  Sync(v)' \/ \E k \in Calls : News(k, v)'
    BY DEF BeliefInv
  <2>1. CASE v = r
    BY <2>1 DEF Receives, Sync
  <2>2. CASE v # r
    <3>1. lent'[v] = lent[v] /\ lent[v] \in Conns \ {c} /\ tx'[v] = tx[v]
      BY <2>2 DEF Receives, IInv, TypeOK
    <3>2. Sync(v) => Sync(v)'
      BY <3>1 DEF Receives, Sync
    <3>3. \A k \in Calls : News(k, v) => News(k, v)'
      BY DEF News, Receives
    <3> QED
      BY <3>1, <3>2, <3>3, NobodyAssumption DEF IInv, BeliefInv
  <2> QED
    BY <2>1, <2>2
<1>11. AnswersInv'
  BY <1>3 DEF Receives, IInv, AnswersInv, InTurn, NonIdle, UserOps, TransactionOps, EndOps
<1>12. UnderWayInv'
  BY <1>4, <1>4a DEF Receives, IInv, UnderWayInv, Pending, AQuery, NonIdle
<1>13. OpenDueInv'
  BY <1>4 DEF Receives, IInv, OpenDueInv, Pending, NonIdle
<1>14. SettledInv'
  BY DEF Receives, IInv, SettledInv
<1> QED
  BY <1>1, <1>5, <1>6, <1>7, <1>7a, <1>7b, <1>8, <1>9, <1>10, <1>11, <1>12, <1>13, <1>14 DEF IInv

\* These steps are steps of Lending.
LEMMA LendStep ==
    ASSUME IInv, [LendingNext]_lendingVars
    PROVE  LendTypes' /\ LendInv'
BY LendingKept, NobodyAssumption DEF IInv, TypeOK, LendTypes

\* What a pool can give is clean.
LEMMA GivenIsClean ==
    ASSUME IInv, NEW p \in Pools, NEW c \in Conns, Available(c), Servable(p, c), Given(p, c)
    PROVE  /\ session' \in [Conns -> SessionType]
           /\ session[c].at \in {"none", "open"}
           /\ session[c].at = "open" => session' = session /\ session[c].auto
           /\ session'[c].at = "open" /\ session'[c].auto /\ session'[c].level = "default"
           /\ \A d \in Conns \ {c} : session'[d] = session[d]
<1>1. CASE session[c].at = "none"
  <2>1. session' = [session EXCEPT ![c] = Connected(p)]
    BY <1>1 DEF Given
  <2>2. Connected(p) \in SessionType
    BY DEF Connected, SessionType, Levels
  <2>3. session' \in [Conns -> SessionType] /\ session'[c] = Connected(p)
    BY <2>1, <2>2 DEF IInv, TypeOK
  <2>4. \A d \in Conns \ {c} : session'[d] = session[d]
    BY <2>1 DEF IInv, TypeOK
  <2> QED
    BY <1>1, <2>3, <2>4 DEF Connected
<1>2. CASE session[c].at = "open"
  <2>1. session' = session
    BY <1>2 DEF Given, IInv, TypeOK
  <2> QED
    BY <1>2, <2>1 DEF IInv, TypeOK, LeftClean
<1> QED
  BY <1>1, <1>2 DEF Servable

LEMMA GetsKeeps ==
    ASSUME IInv, NEW p \in Pools, NEW r \in Users, NEW c \in Conns,
           lent[r] = NoConn, Available(c), Servable(p, c), Given(p, c),
           lent' = [lent EXCEPT ![r] = c], Fresh({r}),
           UNCHANGED <<work, call>>, LendTypes', LendInv'
    PROVE  IInv'
<1>1. /\ session' \in [Conns -> SessionType]
      /\ session[c].at \in {"none", "open"}
      /\ session[c].at = "open" => session' = session /\ session[c].auto
      /\ session'[c].at = "open" /\ session'[c].auto /\ session'[c].level = "default"
      /\ \A d \in Conns \ {c} : session'[d] = session[d]
  BY GivenIsClean
<1>2. lent'[r] = c /\ \A v \in Users \ {r} : lent'[v] = lent[v] /\ lent[v] # c
  BY DEF IInv, TypeOK, Available
<1>3. /\ tx' \in [Users -> {"none", "open", "unsure"}]
      /\ isolation' \in [Users -> Levels \cup {"unsure"}]
      /\ tx'[r] = "none" /\ isolation'[r] = "default"
      /\ \A v \in Users \ {r} : tx'[v] = tx[v] /\ isolation'[v] = isolation[v]
  BY DEF IInv, TypeOK, Fresh, Levels
<1>4. \A d \in Conns \ {c} : (\A v \in Users : lent'[v] # d) => \A v \in Users : lent[v] # d
  BY <1>2, NobodyAssumption
<1>5. Receives(r, c)
  BY <1>1, <1>2, <1>3, <1>4 DEF Receives
<1> QED
  BY <1>5, ReceivesKeeps

LEMMA GetsAtOnceKeeps ==
    ASSUME IInv, NEW p \in Pools, NEW u \in Users, NEW c \in Conns, GetsAtOnce(p, u, c)
    PROVE  IInv'
<1>1. LendTypes' /\ LendInv'
  BY LendStep DEF GetsAtOnce, LendingNext
<1>2. /\ lent[u] = NoConn /\ Available(c) /\ Servable(p, c) /\ Given(p, c)
      /\ lent' = [lent EXCEPT ![u] = c] /\ Fresh({u})
      /\ UNCHANGED <<work, call>>
  BY DEF GetsAtOnce, LendAtOnce
<1> QED
  BY <1>1, <1>2, GetsKeeps

LEMMA GetsInTurnKeeps ==
    ASSUME IInv, NEW p \in Pools, NEW c \in Conns, GetsInTurn(p, c)
    PROVE  IInv'
<1> DEFINE r == Head(line[p])
<1>1. LendTypes' /\ LendInv'
  BY LendStep DEF GetsInTurn, LendingNext
<1>2. /\ line[p] # <<>> /\ Available(c) /\ Servable(p, c) /\ Given(p, c)
      /\ lent' = [lent EXCEPT ![r] = c] /\ Fresh({r})
      /\ UNCHANGED <<work, call>>
  BY DEF GetsInTurn, Serve
<1>3. LendTypes /\ LendInv
  BY DEF IInv, TypeOK, LendTypes
<1>4. r \in Users /\ lent[r] = NoConn
  BY <1>2, <1>3, FirstInLine
<1> HIDE DEF r
<1> QED
  BY <1>1, <1>2, <1>4, GetsKeeps

\* Who waits, and who is refused.
LEMMA LinesKeep ==
    ASSUME IInv, LendTypes', LendInv', UNCHANGED <<lent, session, work, call, tx, isolation>>
    PROVE  IInv'
<1>1. TypeOK' /\ SessionsInv' /\ LeftClean' /\ OpenInv' /\ SettledInv'
  BY DEF LendTypes, IInv, TypeOK, SessionsInv, LeftClean, Available, OpenOn, OpenInv, SettledInv
<1>2. UserCallsInv' /\ QueriesInv' /\ QueriesApart' /\ OneAtATime' /\ OtherCallsInv' /\ ClosesInv'
  BY DEF IInv, UserCallsInv, QueriesInv, QueriesApart, OneAtATime, InTurn, OtherCallsInv, ClosesInv, Closing, AQuery, NonIdle
<1>2a. OwnersInv' /\ FatesInv' /\ LevelInv'
  BY DEF IInv, OwnersInv, FatesInv, LevelInv, AQuery, NonIdle
<1>3. BeliefInv' /\ AnswersInv'
  BY DEF IInv, BeliefInv, Sync, News, AnswersInv
<1>4. UnderWayInv' /\ OpenDueInv'
  BY DEF IInv, UnderWayInv, OpenDueInv, Pending, AQuery, NonIdle
<1> QED
  BY <1>1, <1>2, <1>2a, <1>3, <1>4 DEF IInv

\* What a user that awaited its calls, and settled, knows of its connection.
LEMMA TidiedIsClean ==
    ASSUME IInv, NEW u \in Users, Awaited(u), Tidied(u)
    PROVE  /\ lent[u] \in Conns
           /\ session[lent[u]].at = "open" /\ session[lent[u]].auto
           /\ session[lent[u]].level = "default"
           /\ OpenOn(lent[u]) = {}
           /\ \A k \in Calls : NonIdle(k) /\ call[k].op \in UserOps => call[k].by # u
           /\ \A w \in Works : work[w].due \in {"auto", "tx", "open"} => work[w].by # u
<1>1. lent[u] \in Conns /\ session[lent[u]].at = "open"
  BY DEF Awaited, IInv, TypeOK, SessionsInv
<1>2. \A k \in Calls : NonIdle(k) /\ call[k].op \in UserOps => call[k].by # u
  BY DEF Awaited, Tidied, Pending, NonIdle
<1>3. \A k \in Calls : ~News(k, u)
  BY <1>2 DEF News, NonIdle, UserOps
<1>4. session[lent[u]].auto /\ session[lent[u]].level = "default"
  BY <1>3 DEF Awaited, Tidied, IInv, BeliefInv, LevelInv, Sync
<1>5. OpenOn(lent[u]) = {}
  BY <1>4 DEF OpenOn, IInv, OpenInv
<1>6. \A w \in Works : work[w].due \in {"auto", "tx"} => work[w].by # u
  <2> SUFFICES ASSUME NEW w \in Works, work[w].due \in {"auto", "tx"}, work[w].by = u
               PROVE  FALSE
    OBVIOUS
  <2>1. PICK k \in Calls : AQuery(k) /\ call[k].arg = w
    BY DEF IInv, UnderWayInv
  <2>2. call[k].by = u
    BY <2>1 DEF IInv, QueriesInv
  <2> QED
    BY <1>2, <2>1, <2>2 DEF AQuery, UserOps
<1>7. \A w \in Works : work[w].due = "open" => work[w].by # u
  BY DEF Tidied, IInv, OpenDueInv
<1> QED
  BY <1>1, <1>2, <1>4, <1>5, <1>6, <1>7

LEMMA GivesBackKeeps ==
    ASSUME IInv, Tidy, NEW p \in Pools, NEW u \in Users, GivesBack(p, u)
    PROVE  IInv'
<1> DEFINE c == lent[u]
           r == Head(line[p])
<1>1. /\ Awaited(u) /\ Tidied(u) /\ tx[u] = "none" /\ isolation[u] = "default"
      /\ Told(u, {"open", "tx"}, "dropped")
      /\ UNCHANGED <<session, call>>
  BY DEF GivesBack, GivesUp, Tidied
<1>2. /\ c \in Conns
      /\ session[c].at = "open" /\ session[c].auto /\ session[c].level = "default"
      /\ OpenOn(c) = {}
      /\ \A k \in Calls : NonIdle(k) /\ call[k].op \in UserOps => call[k].by # u
      /\ \A w \in Works : work[w].due \in {"auto", "tx", "open"} => work[w].by # u
  BY <1>1, TidiedIsClean
<1>3. work' = work
  <2>1. work' = [w \in Works |-> work[w]]
    BY <1>1, <1>2 DEF Told
  <2> QED
    BY <2>1 DEF IInv, TypeOK
<1>4. LendTypes' /\ LendInv'
  BY LendStep DEF GivesBack, LendingNext
<1>5. \A v \in Users \ {u} : lent[v] # c
  BY <1>2, NobodyAssumption DEF IInv, LendInv, OneUserEach
<1>6. CASE HandOver(p, u) /\ Fresh({u, r})
  <2>1. LendTypes /\ LendInv /\ line[p] # <<>>
    BY <1>6 DEF HandOver, IInv, TypeOK, LendTypes
  <2>2. r \in Users /\ lent[r] = NoConn /\ r # u
    BY <1>2, <2>1, FirstInLine, NobodyAssumption
  <2>3. /\ lent'[u] = NoConn /\ lent'[r] = c
        /\ \A v \in Users \ {u, r} : lent'[v] = lent[v]
    BY <1>6, <2>2 DEF HandOver, IInv, TypeOK
  <2>4. /\ tx' \in [Users -> {"none", "open", "unsure"}]
        /\ isolation' \in [Users -> Levels \cup {"unsure"}]
        /\ tx'[r] = "none" /\ isolation'[r] = "default"
        /\ \A v \in Users \ {u, r} : tx'[v] = tx[v] /\ isolation'[v] = isolation[v]
    BY <1>6, <2>2 DEF IInv, TypeOK, Fresh, Levels
  <2>5. \A d \in Conns \ {c} : (\A v \in Users : lent'[v] # d) => \A v \in Users : lent[v] # d
    BY <1>2, <2>2, <2>3, NobodyAssumption
  <2>6. Receives(r, c)
    BY <1>1, <1>2, <1>3, <1>5, <2>2, <2>3, <2>4, <2>5, NobodyAssumption DEF Receives, IInv, TypeOK
  <2> QED
    BY <1>2, <1>4, <2>2, <2>6, ReceivesKeeps
<1>7. CASE Return(u) /\ Fresh({u})
  <2>1. lent'[u] = NoConn /\ \A v \in Users \ {u} : lent'[v] = lent[v]
    BY <1>7 DEF Return, IInv, TypeOK
  <2>2. tx' = tx /\ isolation' = isolation
    <3>1. /\ tx' = [v \in Users |-> tx[v]] /\ isolation' = [v \in Users |-> isolation[v]]
      BY <1>1, <1>7 DEF Fresh
    <3> QED
      BY <3>1 DEF IInv, TypeOK
  <2>3. TypeOK' /\ SessionsInv' /\ SettledInv'
    <3>1. TypeOK'
      BY <1>1, <1>3, <1>4, <2>2 DEF LendTypes, IInv, TypeOK
    <3>2. SessionsInv'
      BY <1>1, <2>1 DEF IInv, SessionsInv
    <3>3. SettledInv'
      BY <1>1, <1>3 DEF IInv, SettledInv
    <3> QED
      BY <3>1, <3>2, <3>3
  <2>4. LeftClean'
    <3> SUFFICES ASSUME NEW d \in Conns, session[d].at = "open", Available(d)'
                 PROVE  OpenOn(d) = {} /\ session[d].auto /\ session[d].level = "default"
      BY <1>1, <1>3 DEF LeftClean, OpenOn
    <3>1. d = c \/ Available(d)
      BY <2>1 DEF Available
    <3> QED
      BY <1>1, <1>2, <3>1 DEF IInv, LeftClean
  <2>5. UserCallsInv' /\ QueriesInv' /\ QueriesApart' /\ OneAtATime' /\ OtherCallsInv' /\ ClosesInv'
    BY <1>1, <1>2, <1>3, <2>1 DEF IInv, UserCallsInv, QueriesInv, QueriesApart, OneAtATime, InTurn, OtherCallsInv,
       ClosesInv, Closing, AQuery, NonIdle, UserOps
  <2>5a. OwnersInv' /\ FatesInv'
    BY <1>1, <1>3 DEF IInv, OwnersInv, FatesInv, AQuery, NonIdle
  <2>5b. LevelInv'
    BY <1>1, <2>1, <2>2 DEF IInv, LevelInv, NonIdle
  <2>6. OpenInv'
    BY <1>1, <1>2, <1>3, <2>1 DEF IInv, OpenInv
  <2>7. BeliefInv' /\ AnswersInv'
    BY <1>1, <2>1, <2>2 DEF IInv, BeliefInv, Sync, News, AnswersInv
  <2>8. UnderWayInv' /\ OpenDueInv'
    BY <1>1, <1>2, <1>3, <2>1, <2>2 DEF IInv, UnderWayInv, OpenDueInv, Pending, AQuery, NonIdle
  <2> QED
    BY <1>4, <2>3, <2>4, <2>5, <2>5a, <2>5b, <2>6, <2>7, <2>8 DEF IInv
<1> QED
  BY <1>6, <1>7 DEF GivesBack

LEMMA ClosesKeeps ==
    ASSUME IInv, NEW j \in Calls, NEW u \in Users, Closes(j, u)
    PROVE  IInv'
<1> DEFINE c == lent[u]
<1>1. /\ Awaited(u) /\ call[j].at = "idle" /\ Return(u)
      /\ Fresh({u})
      /\ session' = [session EXCEPT ![c].at = "closing"]
      /\ call' = [call EXCEPT ![j] = [Idle EXCEPT !.op = "close", !.on = c, !.at = "queued"]]
      /\ Told(u, {"open", "tx"}, "dropped")
  BY DEF Closes, GivesUp
<1>2. LendTypes' /\ LendInv'
  BY <1>1, LendStep DEF LendingNext
<1>3. c \in Conns /\ c # NoConn /\ session[c].at = "open"
  BY <1>1 DEF Awaited, IInv, TypeOK, SessionsInv
<1>4. lent'[u] = NoConn /\ \A v \in Users \ {u} : lent'[v] = lent[v] /\ lent[v] # c
  BY <1>1, <1>3 DEF Return, IInv, TypeOK, LendInv, OneUserEach
<1>5. /\ tx' \in [Users -> {"none", "open", "unsure"}]
      /\ isolation' \in [Users -> Levels \cup {"unsure"}]
      /\ tx'[u] = "none"
      /\ \A v \in Users \ {u} : tx'[v] = tx[v] /\ isolation'[v] = isolation[v]
  BY <1>1 DEF IInv, TypeOK, Fresh, Levels
<1>6. /\ session' \in [Conns -> SessionType]
      /\ session'[c].at = "closing"
      /\ \A d \in Conns : session'[d].auto = session[d].auto
      /\ \A d \in Conns \ {c} : session'[d] = session[d]
  BY <1>1, <1>3 DEF IInv, TypeOK, SessionType
<1>7. /\ call' \in [Calls -> CallType]
      /\ call'[j].op = "close" /\ call'[j].on = c /\ call'[j].at = "queued" /\ call'[j].by = NoUser
      /\ \A k \in Calls \ {j} : call'[k] = call[k]
  BY <1>1, <1>3 DEF IInv, TypeOK, CallType, Idle
<1>8. /\ work' \in [Works -> WorkType]
      /\ \A w \in Works : /\ work'[w].by = work[w].by
                          /\ work'[w].on = work[w].on
                          /\ work'[w].at = work[w].at
                          /\ IF work[w].by = u /\ work[w].due \in {"open", "tx"}
                               THEN work'[w].due = "dropped" ELSE work'[w].due = work[w].due
  BY <1>1, ToldFacts DEF IInv
<1>9. \A k \in Calls : InTurn(k) => call[k].by # u
  BY <1>1 DEF Awaited, Pending, InTurn, NonIdle
<1>10. Sync(u)
  <2>1. \A k \in Calls : ~News(k, u)
    BY <1>9 DEF News, InTurn, NonIdle, UserOps, TransactionOps, EndOps
  <2> QED
    BY <1>3, <2>1 DEF IInv, BeliefInv
<1>10a. \A k \in Calls : AQuery(k)' => AQuery(k) /\ k # j /\ call'[k] = call[k] /\ call[k].arg \in Works
  BY <1>7 DEF AQuery, NonIdle, IInv, QueriesInv
<1>11. TypeOK'
  BY <1>2, <1>5, <1>6, <1>7, <1>8 DEF LendTypes, IInv, TypeOK
<1>12. SessionsInv'
  <2>1. ASSUME NEW v \in Users, lent'[v] # NoConn  PROVE session'[lent'[v]].at = "open"
    <3>1. lent'[v] = lent[v] /\ lent[v] # c /\ lent[v] \in Conns /\ session[lent[v]].at = "open"
      BY <1>4, <2>1 DEF IInv, TypeOK, SessionsInv
    <3> QED
      BY <1>6, <3>1
  <2>2. ASSUME NEW d \in Conns, session'[d].at = "none"  PROVE session'[d].auto
    <3>1. session[d].at = "none"
      BY <1>6, <2>2
    <3> QED
      BY <1>6, <3>1 DEF IInv, SessionsInv
  <2> QED
    BY <2>1, <2>2 DEF SessionsInv
<1>13. LeftClean'
  <2> SUFFICES ASSUME NEW d \in Conns, session'[d].at = "open", Available(d)'
               PROVE  OpenOn(d)' = {} /\ session'[d].auto /\ session'[d].level = "default"
    BY DEF LeftClean
  <2>1. d # c
    BY <1>6
  <2>2. Available(d)
    BY <1>4, <2>1 DEF Available
  <2>3. OpenOn(d)' = OpenOn(d)
    BY <1>8 DEF OpenOn
  <2> QED
    BY <1>6, <2>1, <2>2, <2>3 DEF IInv, LeftClean
<1>14. UserCallsInv'
  BY <1>4, <1>7, <1>9 DEF IInv, UserCallsInv, InTurn, NonIdle, UserOps, TransactionOps, EndOps
<1>14a. ASSUME NEW k \in Calls, AQuery(k), call[k].on # NoConn
        PROVE  /\ call[k].by \in Users /\ call[k].on \in Conns
               /\ call[k].on = c => call[k].by = u /\ work[call[k].arg].on = c
               /\ call[k].by = u => call[k].on = c \/ session[call[k].on].at = "closing"
               /\ call[k].on # c => /\ session'[call[k].on] = session[call[k].on]
                                    /\ \/ lent'[call[k].by] = call[k].on
                                       \/ session[call[k].on].at = "closing"
  <2>1. /\ call[k].by \in Users /\ call[k].on \in Conns /\ work[call[k].arg].on = call[k].on
        /\ lent[call[k].by] = call[k].on \/ session[call[k].on].at = "closing"
    BY <1>14a DEF IInv, QueriesInv, TypeOK, CallType
  <2>2. call[k].on = c => call[k].by = u
    BY <1>3, <1>4, <2>1
  <2> QED
    BY <1>4, <1>6, <2>1, <2>2
<1>15. QueriesInv'
  <2> SUFFICES ASSUME NEW k \in Calls, AQuery(k), call'[k] = call[k], call[k].arg \in Works
               PROVE  /\ call[k].by \in Users
                      /\ call[k].on # NoConn => \/ lent'[call[k].by] = call[k].on
                                               \/ session'[call[k].on].at = "closing"
                      /\ call[k].at \in {"queued", "done"}
                      /\ work[call[k].arg].by = call[k].by
                      /\ call[k].on # NoConn => work[call[k].arg].on = call[k].on
                      /\ call[k].at = "queued" => work[call[k].arg].at = "asked"
                      /\ call[k].at = "done" /\ call[k].failed => work[call[k].arg].at = "failed"
                      /\ call[k].at = "done" /\ ~call[k].failed
                            => work[call[k].arg].at \in {"kept", "undone", "open"}
    BY <1>8, <1>10a DEF QueriesInv
  <2>1. call[k].on # NoConn => \/ lent'[call[k].by] = call[k].on
                              \/ session'[call[k].on].at = "closing"
    BY <1>6, <1>14a
  <2> QED
    BY <2>1 DEF IInv, QueriesInv
<1>15a. QueriesApart' /\ OwnersInv'
  BY <1>8, <1>10a DEF IInv, QueriesApart, OwnersInv
<1>15b. FatesInv'
  <2> SUFFICES ASSUME NEW k \in Calls, AQuery(k), call'[k] = call[k], call[k].arg \in Works,
                      call[k].on # NoConn
               PROVE  /\ work'[call[k].arg].due = "auto" /\ session'[call[k].on].at = "closing"
                            => session'[call[k].on].auto
                      /\ work'[call[k].arg].due = "dropped"
                            => session'[call[k].on].at = "closing" /\ ~session'[call[k].on].auto
    BY <1>10a DEF FatesInv
  <2>1. work[call[k].arg].by = call[k].by /\ work[call[k].arg].on = call[k].on
    BY DEF IInv, QueriesInv
  <2>2. CASE call[k].on = c
    <3>1. call[k].by = u /\ session'[c].at = "closing" /\ session'[c].auto = session[c].auto
      BY <1>3, <1>6, <1>14a, <2>2
    <3>2. work'[call[k].arg].due = "auto" => session[c].auto
      <4>1. work'[call[k].arg].due = "auto" => work[call[k].arg].due = "auto"
        BY <1>8
      <4>2. work[call[k].arg].due = "auto" => tx[u] = "none"
        BY <2>1, <3>1 DEF IInv, UnderWayInv
      <4> QED
        BY <1>10, <4>1, <4>2 DEF Sync
    <3>3. work'[call[k].arg].due = "dropped" => ~session[c].auto
      <4>1. work[call[k].arg].due # "dropped"
        BY <1>3, <2>2 DEF IInv, FatesInv
      <4>2. work[call[k].arg].due \in {"open", "tx"} => tx[u] = "open"
        BY <2>1, <3>1 DEF IInv, UnderWayInv, OpenDueInv
      <4> QED
        BY <1>8, <1>10, <4>1, <4>2 DEF Sync
    <3> QED
      BY <2>2, <3>1, <3>2, <3>3
  <2>3. CASE call[k].on # c
    <3>1. session'[call[k].on] = session[call[k].on]
      BY <1>14a, <2>3
    <3>2. work'[call[k].arg].due = "auto" => work[call[k].arg].due = "auto"
      BY <1>8
    <3>3. work'[call[k].arg].due = "dropped" => work[call[k].arg].due = "dropped"
      <4>1. work[call[k].arg].due \in {"open", "tx"} => work[call[k].arg].by # u
        BY <2>1, <2>3 DEF IInv, UnderWayInv, OpenDueInv
      <4> QED
        BY <1>8, <4>1
    <3> QED
      BY <3>1, <3>2, <3>3 DEF IInv, FatesInv
  <2> QED
    BY <2>2, <2>3
<1>15c. LevelInv'
  <2>1. ASSUME NEW v \in Users, lent'[v] # NoConn
        PROVE  isolation'[v] \in {"unsure", session'[lent'[v]].level}
    <3>1. v # u /\ lent'[v] = lent[v] /\ lent[v] \in Conns \ {c} /\ isolation'[v] = isolation[v]
      BY <1>4, <1>5, <2>1 DEF IInv, TypeOK
    <3> QED
      BY <1>6, <2>1, <3>1 DEF IInv, LevelInv
  <2>2. ASSUME NEW k \in Calls, NonIdle(k)', call'[k].op = "setIsolationLevel"
        PROVE  /\ isolation'[call'[k].by] = "unsure"
               /\ call'[k].at = "done" /\ ~call'[k].failed => session'[call'[k].on].level = call'[k].arg
    <3>1. call'[k] = call[k] /\ NonIdle(k) /\ InTurn(k)
      BY <1>7, <2>2 DEF NonIdle, InTurn, UserOps
    <3>2. /\ call[k].by \in Users \ {u} /\ call[k].on \in Conns \ {c}
      BY <1>4, <1>9, <3>1 DEF IInv, UserCallsInv
    <3> QED
      BY <1>5, <1>6, <2>2, <3>1, <3>2 DEF IInv, LevelInv
  <2> QED
    BY <2>1, <2>2 DEF LevelInv
<1>16. OneAtATime' /\ OtherCallsInv'
  BY <1>7 DEF IInv, OneAtATime, OtherCallsInv, InTurn, NonIdle, UserOps, TransactionOps, EndOps
<1>17. ClosesInv'
  BY <1>3, <1>6, <1>7 DEF IInv, ClosesInv, Closing
<1>18. OpenInv'
  BY <1>3, <1>4, <1>6, <1>8 DEF IInv, OpenInv
<1>19. BeliefInv'
  <2> SUFFICES ASSUME NEW v \in Users \ {u}, lent[v] # NoConn
               PROVE  Sync(v)' \/ \E k \in Calls : News(k, v)'
    BY <1>4 DEF BeliefInv
  <2>1. lent[v] \in Conns
    BY DEF IInv, TypeOK
  <2>2. Sync(v) => Sync(v)'
    BY <1>4, <1>5, <1>6, <2>1 DEF Sync
  <2>3. \A k \in Calls : News(k, v) => News(k, v)'
    BY <1>1, <1>7 DEF News
  <2> QED
    BY <2>2, <2>3 DEF IInv, BeliefInv
<1>20. AnswersInv'
  BY <1>6, <1>7 DEF IInv, AnswersInv, UserCallsInv, InTurn, NonIdle, UserOps, TransactionOps, EndOps
<1>21. UnderWayInv'
  <2> SUFFICES ASSUME NEW w \in Works, work[w].due \in {"auto", "tx"},
                      work[w].due = "tx" => work[w].by # u
               PROVE  /\ work[w].due = "tx" => lent'[work[w].by] = lent[work[w].by]
                      /\ tx'[work[w].by] = tx[work[w].by]
                      /\ ~Pending(work[w].by, TransactionOps)'
                      /\ \E k \in Calls : AQuery(k)' /\ call'[k].arg = w
    BY <1>8 DEF IInv, UnderWayInv
  <2>1. work[w].by \in Users /\ (work[w].due = "auto" => tx[work[w].by] = "none")
    BY DEF IInv, UnderWayInv
  <2>2. ~Pending(work[w].by, TransactionOps)'
    BY <1>7, <1>8 DEF IInv, UnderWayInv, Pending, TransactionOps, EndOps
  <2>3. PICK k \in Calls : AQuery(k) /\ call[k].arg = w
    BY DEF IInv, UnderWayInv
  <2>4. AQuery(k)' /\ call'[k].arg = w
    BY <1>1, <1>7, <2>3 DEF AQuery, NonIdle
  <2> QED
    BY <1>4, <1>5, <2>1, <2>2, <2>4
<1>22. OpenDueInv'
  <2> SUFFICES ASSUME NEW w \in Works, work[w].due = "open", work[w].by # u
               PROVE  /\ lent'[work[w].by] = lent[work[w].by]
                      /\ tx'[work[w].by] = tx[work[w].by]
                      /\ Pending(work[w].by, EndOps) => Pending(work[w].by, EndOps)'
                      /\ \A k \in Calls : call'[k].op \in EndOps => call'[k] = call[k]
    BY <1>8 DEF IInv, OpenDueInv, NonIdle
  <2>1. work[w].by \in Users
    BY DEF IInv, OpenDueInv
  <2>2. Pending(work[w].by, EndOps) => Pending(work[w].by, EndOps)'
    BY <1>1, <1>7, <1>8 DEF Pending
  <2>3. \A k \in Calls : call'[k].op \in EndOps => call'[k] = call[k]
    BY <1>7 DEF EndOps
  <2> QED
    BY <1>4, <1>5, <2>1, <2>2, <2>3
<1>23. SettledInv'
  <2>1. \A w \in Works : work[w].by = u /\ work[w].due = "open" => work[w].at = "open" /\ work[w].on = c
    BY <1>9 DEF IInv, OpenDueInv, Pending, InTurn, NonIdle, UserOps, TransactionOps, EndOps
  <2>2. \A w \in Works : work[w].by = u /\ work[w].due = "tx"
                             => work[w].at \in {"asked", "open", "failed"} /\ work[w].on = c
    BY DEF IInv, UnderWayInv
  <2> QED
    BY <1>3, <1>6, <1>8, <2>1, <2>2 DEF IInv, SettledInv
<1> QED
  BY <1>2, <1>11, <1>12, <1>13, <1>14, <1>15, <1>15a, <1>15b, <1>15c,
     <1>16, <1>17, <1>18, <1>19, <1>20, <1>21, <1>22, <1>23 DEF IInv

-----------------------------------------------------------------------------
(* The theorems.                                                           *)

LEMMA InitHolds == Init => IInv
<1> SUFFICES ASSUME Init PROVE IInv
  OBVIOUS
<1> USE DEF Init, LendingInit
<1>1. NoSession \in SessionType /\ NoSession.at = "none" /\ NoSession.auto
  BY DEF NoSession, SessionType, Levels
<1>2. Idle \in CallType /\ Idle.op = "none" /\ Idle.at = "idle"
  BY DEF Idle, CallType
<1>3. TypeOK
  BY <1>1, <1>2 DEF TypeOK, WorkType, Levels
<1>4. LendInv
  BY DEF LendInv, OneUserEach, WaitersHaveNone, WaitOnce
<1>5. SessionsInv /\ LeftClean
  BY <1>1 DEF SessionsInv, LeftClean
<1>6. UserCallsInv /\ QueriesInv /\ QueriesApart /\ OneAtATime /\ OtherCallsInv /\ ClosesInv /\ AnswersInv
  BY <1>2 DEF UserCallsInv, QueriesInv, QueriesApart, OneAtATime, InTurn, OtherCallsInv, ClosesInv, Closing, AnswersInv, AQuery, NonIdle
<1>7. OpenInv /\ BeliefInv /\ UnderWayInv /\ OpenDueInv /\ SettledInv
  BY DEF OpenInv, BeliefInv, UnderWayInv, OpenDueInv, SettledInv
<1>8. OwnersInv /\ FatesInv /\ LevelInv
  BY <1>2 DEF OwnersInv, FatesInv, LevelInv, AQuery, NonIdle
<1> QED
  BY <1>3, <1>4, <1>5, <1>6, <1>7, <1>8 DEF IInv

LEMMA StepKeeps == ASSUME IInv, Tidy, [Next]_vars PROVE IInv'
<1>1. CASE PoolSteps
  <2>1. ASSUME NEW p \in Pools, NEW u \in Users, Asks(p, u) PROVE IInv'
    <3>1. LendTypes' /\ LendInv'
      BY <2>1, LendStep DEF Asks, LendingNext
    <3>2. UNCHANGED <<lent, session, work, call, tx, isolation>>
      BY <2>1 DEF Asks, Ask
    <3> QED
      BY <3>1, <3>2, LinesKeep
  <2>2. ASSUME NEW p \in Pools, IsRefused(p) PROVE IInv'
    <3>1. LendTypes' /\ LendInv'
      BY <2>2, LendStep DEF IsRefused, LendingNext
    <3>2. UNCHANGED <<lent, session, work, call, tx, isolation>>
      BY <2>2 DEF IsRefused, Refuse
    <3> QED
      BY <3>1, <3>2, LinesKeep
  <2> QED
    BY <1>1, <2>1, <2>2, GivesBackKeeps, GetsAtOnceKeeps, GetsInTurnKeeps, ClosesKeeps DEF PoolSteps
<1>2. CASE UserSteps
  BY <1>2, CallTransactionKeeps, CallSetLevelKeeps, CallQueryKeeps DEF UserSteps
<1>3. CASE WorkerSteps
  <2> SUFFICES ASSUME NEW j \in Calls,
                      \/ Begins(j) \/ Commits(j) \/ RollsBack(j) \/ ReturnsToAutocommit(j)
                      \/ SetsLevel(j) \/ Executes(j) \/ CloseRollsBack(j) \/ Disconnects(j)
                      \/ Answer(j)
               PROVE  IInv'
    BY <1>3 DEF WorkerSteps
  <2>1. CASE Commits(j)
    BY <2>1, EndsTransactionKeeps DEF Commits, How, EndOps
  <2>2. CASE RollsBack(j)
    BY <2>2, EndsTransactionKeeps DEF RollsBack, How, EndOps
  <2>3. CASE Answer(j)
    BY <2>3, AnswerEndKeeps, AnswerQueryKeeps, AnswerOtherKeeps
  <2> QED
    BY <2>1, <2>2, <2>3, BeginsKeeps, ReturnsToAutocommitKeeps, SetsLevelKeeps, ExecutesKeeps,
       CloseRollsBackKeeps, DisconnectsKeeps
<1>4. CASE UNCHANGED vars
  <2>1. LendTypes' /\ LendInv'
    BY <1>4, LendStep DEF vars, lendingVars
  <2> QED
    BY <1>4, <2>1, LinesKeep DEF vars
<1> QED
  BY <1>1, <1>2, <1>3, <1>4 DEF Next

\* What is open on a connection in use is its user's.
LEMMA OpenIsOwn == ASSUME IInv PROVE OwnWorkOnly
<1> SUFFICES ASSUME NEW u \in Users, lent[u] # NoConn, NEW w \in Works,
                    work[w].on = lent[u], work[w].at = "open"
             PROVE  work[w].by = u
  BY DEF OwnWorkOnly, OpenOn
<1>1. session[lent[u]].at = "open"
  BY DEF IInv, SessionsInv
<1>2. work[w].by \in Users /\ lent[work[w].by] = lent[u]
  BY <1>1 DEF IInv, OpenInv
<1> QED
  BY <1>2 DEF IInv, LendInv, OneUserEach

LEMMA ToldTrue == ASSUME IInv PROVE AsTold
BY DEF IInv, AsTold, SettledInv, OpenDueInv

LEMMA AlwaysIInv == ASSUME Tidy = TRUE PROVE Spec => []IInv
<1>1. Init => IInv
  BY InitHolds
<1>2. IInv /\ [Next]_vars => IInv'
  BY StepKeeps
<1> QED
  BY <1>1, <1>2, PTL DEF Spec

\* Transactions are well typed where users settle what they began before they give a
\* connection back to a pool that keeps it.
THEOREM TransactionTypes == ASSUME Tidy = TRUE PROVE Spec => []TypeOK
BY AlwaysIInv, PTL DEF IInv

\* Users are told the truth about their work, whatever else is under way and whatever
\* fails (odbc_connection.cpp 2902-3015, 255-298).
THEOREM UsersAreToldTheTruth == ASSUME Tidy = TRUE PROVE Spec => []AsTold
BY AlwaysIInv, ToldTrue, PTL

\* A connection goes from one user to the next as a new one would (Pool.js 422-452).
THEOREM ConnectionsAreLeftClean == ASSUME Tidy = TRUE PROVE Spec => []LeftClean
BY AlwaysIInv, PTL DEF IInv

\* What is open on a connection is of the user that has it.
THEOREM WorkIsOwn == ASSUME Tidy = TRUE PROVE Spec => []OwnWorkOnly
BY AlwaysIInv, OpenIsOwn, PTL

-----------------------------------------------------------------------------
(* Transactions implements WorkUnits: SettledAsUnits for any pools, users, *)
(* connections and statements. A statement is settled at once, starts a    *)
(* unit or extends its user's; SQLEndTran and autocommit keep or drop one; *)
(* no other step is seen.                                                  *)

UnitsOf == {OpenOn(c) : c \in Conns} \ {{}}
OwnerOf == [w \in Works |-> IF Executed(w) THEN work[w].by ELSE NoUser]
KeptOf == {w \in Works : work[w].at = "kept"}

UnitStep == [Units!UnitsNext]_(Units!unitVars)

-----------------------------------------------------------------------------

\* What a decision or a statement does to the units is a step.
LEMMA Kept == ASSUME NEW g \in SUBSET Works, Units!Keep(g) PROVE UnitStep
BY DEF UnitStep, Units!UnitsNext

LEMMA Dropped == ASSUME NEW g \in SUBSET Works, Units!Drop(g) PROVE UnitStep
BY DEF UnitStep, Units!UnitsNext

LEMMA KeptAtOnce ==
    ASSUME NEW u \in Users, NEW w \in Works, Units!KeepAtOnce(u, w) PROVE UnitStep
BY DEF UnitStep, Units!UnitsNext

LEMMA Started == ASSUME NEW u \in Users, NEW w \in Works, Units!Start(u, w) PROVE UnitStep
BY DEF UnitStep, Units!UnitsNext

LEMMA Added ==
    ASSUME NEW u \in Users, NEW w \in Works, NEW g \in SUBSET Works, Units!Add(u, w, g)
    PROVE  UnitStep
BY DEF UnitStep, Units!UnitsNext

\* Of sets that do not overlap, one is replaced.
LEMMA Replaced ==
    ASSUME NEW S, NEW c \in S, NEW f, NEW g,
           \A d \in S \ {c} : g[d] = f[d] /\ f[d] \cap f[c] = {}
    PROVE  {g[d] : d \in S} \ {{}} = ((({f[d] : d \in S} \ {{}}) \ {f[c]}) \cup {g[c]}) \ {{}}
<1>1. ASSUME NEW x, x \in {g[d] : d \in S} \ {{}}
      PROVE  x \in ((({f[d] : d \in S} \ {{}}) \ {f[c]}) \cup {g[c]}) \ {{}}
  <2>1. PICK d \in S : x = g[d]
    BY <1>1
  <2>2. CASE d = c
    BY <1>1, <2>1, <2>2
  <2>3. CASE d # c
    <3>1. x = f[d] /\ f[d] \cap f[c] = {} /\ x # {}
      BY <1>1, <2>1, <2>3
    <3>2. x # f[c]
      BY <3>1
    <3> QED
      BY <3>1, <3>2
  <2> QED
    BY <2>2, <2>3
<1>2. ASSUME NEW x, x \in ((({f[d] : d \in S} \ {{}}) \ {f[c]}) \cup {g[c]}) \ {{}}
      PROVE  x \in {g[d] : d \in S} \ {{}}
  <2>1. CASE x = g[c]
    BY <1>2, <2>1
  <2>2. CASE x # g[c]
    <3>1. PICK d \in S : x = f[d]
      BY <1>2, <2>2
    <3>2. d # c
      BY <1>2, <2>2, <3>1
    <3> QED
      BY <1>2, <3>1, <3>2
  <2> QED
    BY <2>1, <2>2
<1> QED
  BY <1>1, <1>2

\* What is open changes on one connection only.
LEMMA OneConnection ==
    ASSUME NEW c \in Conns, \A d \in Conns \ {c} : OpenOn(d)' = OpenOn(d)
    PROVE  UnitsOf' = ((UnitsOf \ {OpenOn(c)}) \cup {OpenOn(c)'}) \ {{}}
<1> DEFINE f == [d \in Conns |-> OpenOn(d)]
           g == [d \in Conns |-> OpenOn(d)']
<1>1. \A d \in Conns \ {c} : g[d] = f[d] /\ f[d] \cap f[c] = {}
  BY DEF OpenOn
<1>2. {g[d] : d \in Conns} \ {{}} = ((({f[d] : d \in Conns} \ {{}}) \ {f[c]}) \cup {g[c]}) \ {{}}
  <2> HIDE DEF f, g
  <2> QED
    BY <1>1, Replaced
<1>3. UnitsOf = {f[d] : d \in Conns} \ {{}} /\ UnitsOf' = {g[d] : d \in Conns} \ {{}}
  BY DEF UnitsOf
<1> QED
  BY <1>2, <1>3

\* A step that leaves where work is, what became of it and whose it is.
LEMMA NotSeen ==
    ASSUME \A w \in Works : /\ work'[w].on = work[w].on /\ work'[w].at = work[w].at
                            /\ work'[w].by = work[w].by
    PROVE  UnitStep
<1>1. \A c \in Conns : OpenOn(c)' = OpenOn(c)
  BY DEF OpenOn
<1>2. UnitsOf' = UnitsOf
  BY <1>1 DEF UnitsOf
<1>3. OwnerOf' = OwnerOf /\ KeptOf' = KeptOf
  BY DEF OwnerOf, KeptOf, Executed
<1> QED
  BY <1>2, <1>3 DEF UnitStep, Units!unitVars, UnitsOf, OwnerOf, KeptOf

\* What is open on a connection is settled as a whole: SQLEndTran, or autocommit.
LEMMA SettledAsOne ==
    ASSUME TypeOK, NEW c \in Conns, NEW how \in {"kept", "undone"}, Settle(c, how)
    PROVE  UnitStep
<1>0. PICK g \in SUBSET Works : g = OpenOn(c)
  BY DEF OpenOn
<1>1. /\ work' \in [Works -> WorkType]
      /\ \A w \in Works : /\ work'[w].by = work[w].by
                          /\ work'[w].on = work[w].on
                          /\ work'[w].due = work[w].due
                          /\ IF work[w].on = c /\ work[w].at = "open"
                               THEN work'[w].at = how ELSE work'[w].at = work[w].at
  BY SettleFacts
<1>2. CASE g = {}
  <2>1. \A w \in Works : work'[w].at = work[w].at
    BY <1>0, <1>1, <1>2 DEF OpenOn
  <2> QED
    BY <1>1, <2>1, NotSeen
<1>3. CASE g # {}
  <2>1. OpenOn(c)' = {} /\ \A d \in Conns \ {c} : OpenOn(d)' = OpenOn(d)
    BY <1>1 DEF OpenOn
  <2>2. UnitsOf' = UnitsOf \ {g}
    BY <1>0, <2>1, OneConnection DEF UnitsOf
  <2>3. g \in UnitsOf
    BY <1>0, <1>3 DEF UnitsOf
  <2>4. OwnerOf' = OwnerOf
    BY <1>1 DEF OwnerOf, Executed
  <2>5. CASE how = "kept"
    <3>1. KeptOf' = KeptOf \cup g
      BY <1>0, <1>1, <2>5 DEF KeptOf, OpenOn
    <3>2. Units!Keep(g)
      BY <2>2, <2>3, <2>4, <3>1 DEF Units!Keep, UnitsOf, OwnerOf, KeptOf
    <3> QED
      BY <3>2, Kept
  <2>6. CASE how = "undone"
    <3>1. KeptOf' = KeptOf
      BY <1>1, <2>6 DEF KeptOf, OpenOn
    <3>2. Units!Drop(g)
      BY <2>2, <2>3, <2>4, <3>1 DEF Units!Drop, UnitsOf, OwnerOf, KeptOf
    <3> QED
      BY <3>2, Dropped
  <2> QED
    BY <2>5, <2>6
<1> QED
  BY <1>2, <1>3

-----------------------------------------------------------------------------

\* A statement is settled at once, starts a unit or extends the unit of its user, and
\* of nobody else; or it fails.
LEMMA ExecutesAUnit == ASSUME IInv, NEW j \in Calls, Executes(j) PROVE UnitStep
<1>1. call[j].op = "query" /\ call[j].at = "queued" /\ AQuery(j)
  BY DEF Executes, Running, AQuery, NonIdle
<1>2. PICK w0 \in Works : w0 = call[j].arg /\ work[w0].at = "asked"
  BY <1>1 DEF IInv, QueriesInv
<1>3. PICK u \in Users : u = call[j].by /\ work[w0].by = u
  BY <1>1, <1>2 DEF IInv, QueriesInv
<1>4. work \in [Works -> WorkType]
  BY DEF IInv, TypeOK
<1>5. PICK how \in {"failed", "kept", "open"} : work' = [work EXCEPT ![w0].at = how]
  <2>1. PICK failed \in BOOLEAN :
           work' = [work EXCEPT ![w0].at =
                      CASE failed -> "failed"
                        [] ~failed /\ session[call[j].on].auto -> "kept"
                        [] ~failed /\ ~session[call[j].on].auto -> "open"]
    BY <1>2 DEF Executes, MayFail
  <2> QED
    BY <2>1
<1>6. /\ \A w \in Works \ {w0} : work'[w] = work[w]
      /\ work'[w0].at = how /\ work'[w0].by = u /\ work'[w0].on = work[w0].on
  BY <1>2, <1>3, <1>4, <1>5 DEF WorkType
<1>7. \A d \in Conns : d # work[w0].on \/ how # "open" => OpenOn(d)' = OpenOn(d)
  BY <1>2, <1>6 DEF OpenOn
<1>8. OwnerOf[w0] = NoUser
  BY <1>2 DEF OwnerOf, Executed
<1>9. ASSUME how \in {"kept", "open"}
      PROVE  Units!Did(u, w0)
  <2>1. OwnerOf' = [OwnerOf EXCEPT ![w0] = u]
    BY <1>2, <1>3, <1>6, <1>9 DEF OwnerOf, Executed
  <2> QED
    BY <1>8, <2>1 DEF Units!Did, OwnerOf
<1>10. CASE how = "failed"
  <2>1. \A d \in Conns : OpenOn(d)' = OpenOn(d)
    BY <1>7, <1>10
  <2>2. UnitsOf' = UnitsOf
    BY <2>1 DEF UnitsOf
  <2>3. OwnerOf' = OwnerOf /\ KeptOf' = KeptOf
    BY <1>2, <1>3, <1>6, <1>10 DEF OwnerOf, KeptOf, Executed
  <2> QED
    BY <2>2, <2>3 DEF UnitStep, Units!unitVars, UnitsOf, OwnerOf, KeptOf
<1>11. CASE how = "kept"
  <2>1. \A d \in Conns : OpenOn(d)' = OpenOn(d)
    BY <1>7, <1>11
  <2>2. UnitsOf' = UnitsOf
    BY <2>1 DEF UnitsOf
  <2>3. KeptOf' = KeptOf \cup {w0}
    BY <1>2, <1>3, <1>6, <1>11 DEF KeptOf
  <2>4. Units!KeepAtOnce(u, w0)
    BY <1>9, <1>11, <2>2, <2>3 DEF Units!KeepAtOnce, UnitsOf, KeptOf
  <2> QED
    BY <2>4, KeptAtOnce
<1>12. CASE how = "open"
  <2>0. PICK c \in Conns : c = call[j].on /\ c # NoConn /\ work[w0].on = c
    <3>1. call[j].on # NoConn
      <4>1. call[j].on = NoConn => work' = [work EXCEPT ![w0].at = "failed"]
        BY <1>2 DEF Executes
      <4> QED
        BY <1>2, <1>4, <1>6, <1>12, <4>1 DEF WorkType
    <3> QED
      BY <1>1, <1>2, <3>1 DEF IInv, QueriesInv, TypeOK, CallType
  <2>1. OpenOn(c)' = OpenOn(c) \cup {w0}
    BY <1>2, <1>6, <1>12, <2>0 DEF OpenOn
  <2>2. KeptOf' = KeptOf
    BY <1>2, <1>3, <1>6, <1>12 DEF KeptOf
  <2>3. UnitsOf' = (UnitsOf \ {OpenOn(c)}) \cup {OpenOn(c) \cup {w0}}
    <3>1. UnitsOf' = ((UnitsOf \ {OpenOn(c)}) \cup {OpenOn(c)'}) \ {{}}
      BY <1>7, <2>0, OneConnection
    <3> QED
      BY <2>1, <3>1 DEF UnitsOf
  <2>4. CASE OpenOn(c) = {}
    <3>1. UnitsOf' = UnitsOf \cup {{w0}}
      BY <2>3, <2>4 DEF UnitsOf
    <3>2. Units!Start(u, w0)
      BY <1>9, <1>12, <2>2, <3>1 DEF Units!Start, UnitsOf, KeptOf
    <3> QED
      BY <3>2, Started
  <2>5. CASE OpenOn(c) # {}
    <3>0. PICK g \in SUBSET Works : g = OpenOn(c)
      BY DEF OpenOn
    <3>1. g \in UnitsOf
      BY <2>5, <3>0 DEF UnitsOf
    <3>2. \A v \in g : OwnerOf[v] = u
      <4>1. \A v \in OpenOn(c) : work[v].by = u
        BY <1>1, <1>3, <2>0 DEF IInv, OwnersInv, OpenOn
      <4> QED
        BY <3>0, <4>1 DEF OwnerOf, OpenOn, Executed
    <3>3. Units!Add(u, w0, g)
      BY <1>9, <1>12, <2>2, <2>3, <3>0, <3>1, <3>2 DEF Units!Add, UnitsOf, OwnerOf, KeptOf
    <3> QED
      BY <3>3, Added
  <2> QED
    BY <2>4, <2>5
<1> QED
  BY <1>10, <1>11, <1>12

\* A new statement has done nothing yet.
LEMMA CallQueryUnseen ==
    ASSUME IInv, NEW j \in Calls, NEW u \in Users, NEW w0 \in Works, CallQuery(j, u, w0)
    PROVE  UnitStep
<1>1. /\ work[w0].at = "none"
      /\ work' = [work EXCEPT ![w0] = [by |-> u, on |-> lent[u], at |-> "asked", due |-> Promised(u)]]
  BY DEF CallQuery
<1>2. work \in [Works -> WorkType]
  BY DEF IInv, TypeOK
<1>3. /\ work'[w0].at = "asked"
      /\ \A w \in Works \ {w0} : work'[w] = work[w]
  BY <1>1, <1>2
<1>4. \A c \in Conns : OpenOn(c)' = OpenOn(c)
  BY <1>1, <1>3 DEF OpenOn
<1>5. UnitsOf' = UnitsOf
  BY <1>4 DEF UnitsOf
<1>6. OwnerOf' = OwnerOf /\ KeptOf' = KeptOf
  BY <1>1, <1>3 DEF OwnerOf, KeptOf, Executed
<1> QED
  BY <1>5, <1>6 DEF UnitStep, Units!unitVars, UnitsOf, OwnerOf, KeptOf

\* What users are told, and conclude, is not what happens to their work.
LEMMA ToldUnseen ==
    ASSUME IInv, NEW u, NEW from, NEW to, Told(u, from, to)
    PROVE  UnitStep
<1>1. work \in [Works -> WorkType]
  BY DEF IInv, TypeOK
<1>2. \A w \in Works : work'[w].on = work[w].on /\ work'[w].at = work[w].at /\ work'[w].by = work[w].by
  BY <1>1 DEF Told, WorkType
<1> QED
  BY <1>2, NotSeen

LEMMA AnswerUnseen == ASSUME IInv, NEW j \in Calls, Answer(j) PROVE UnitStep
<1>1. work \in [Works -> WorkType] /\ Believes(j)
  BY DEF IInv, TypeOK, Answer
<1>2. CASE call[j].op \in EndOps
  <2> DEFINE answer == CASE call[j].failed -> "none"
                         [] ~call[j].failed /\ call[j].op = "commit" -> "kept"
                         [] ~call[j].failed /\ call[j].op = "rollback" -> "undone"
  <2>1. Told(call[j].by, {"open"}, answer)
    BY <1>2 DEF Answer, Believes, EndOps
  <2> HIDE DEF answer
  <2>2. PICK u, to : Told(u, {"open"}, to)
    <3>1. PICK u, to : u = call[j].by /\ to = answer
      OBVIOUS
    <3> QED
      BY <2>1, <3>1
  <2> QED
    BY <2>2, ToldUnseen
<1>3. CASE call[j].op = "query"
  <2>1. PICK due : work' = [work EXCEPT ![call[j].arg].due = due]
    BY <1>1, <1>3 DEF Believes, EndOps
  <2>2. \A w \in Works : work'[w].on = work[w].on /\ work'[w].at = work[w].at /\ work'[w].by = work[w].by
    BY <1>1, <2>1 DEF WorkType
  <2> QED
    BY <2>2, NotSeen
<1>4. CASE call[j].op \notin EndOps \cup {"query"}
  BY <1>1, <1>4, NotSeen DEF Believes
<1> QED
  BY <1>2, <1>3, <1>4

\* The two halves of commit() and rollback(), and the rollback of close().
LEMMA EndsAUnit ==
    ASSUME IInv, NEW j \in Calls, Commits(j) \/ RollsBack(j) \/ ReturnsToAutocommit(j) \/ CloseRollsBack(j)
    PROVE  UnitStep
<1>1. TypeOK
  BY DEF IInv
<1>2. CASE UNCHANGED work
  BY <1>2, NotSeen
<1>3. CASE \E how \in {"kept", "undone"} : Settle(call[j].on, how)
  <2>1. call[j].op \in EndOps \cup {"close"} /\ call[j].at # "idle"
    BY DEF Commits, RollsBack, EndsTransaction, ReturnsToAutocommit, CloseRollsBack, Running, EndOps
  <2>2. PICK c \in Conns : c = call[j].on
    BY <2>1 DEF IInv, UserCallsInv, ClosesInv, InTurn, NonIdle, UserOps, TransactionOps, EndOps
  <2>3. PICK how \in {"kept", "undone"} : Settle(c, how)
    BY <1>3, <2>2
  <2> QED
    BY <1>1, <2>3, SettledAsOne
<1>4. UNCHANGED work \/ \E how \in {"kept", "undone"} : Settle(call[j].on, how)
  BY DEF Commits, RollsBack, EndsTransaction, ReturnsToAutocommit, CloseRollsBack
<1> QED
  BY <1>2, <1>3, <1>4

-----------------------------------------------------------------------------

LEMMA UnitsStart == Init => Units!UnitsInit
<1> SUFFICES ASSUME Init PROVE Units!UnitsInit
  OBVIOUS
<1>1. \A w \in Works : work[w].at = "none"
  BY DEF Init
<1>2. UnitsOf = {} /\ OwnerOf = [w \in Works |-> NoUser] /\ KeptOf = {}
  BY <1>1 DEF UnitsOf, OwnerOf, KeptOf, OpenOn, Executed
<1> QED
  BY <1>2 DEF Units!UnitsInit, UnitsOf, OwnerOf, KeptOf

\* Every step does one thing to the units, or nothing.
LEMMA StepIsUnits == ASSUME IInv, [Next]_vars PROVE UnitStep
<1>1. CASE UNCHANGED work
  BY <1>1, NotSeen
<1>2. CASE PoolSteps
  <2>1. ASSUME NEW p \in Pools, NEW u \in Users, GivesBack(p, u)
        PROVE  UnitStep
    BY <2>1, ToldUnseen DEF GivesBack, GivesUp
  <2>2. ASSUME NEW j \in Calls, NEW u \in Users, Closes(j, u)
        PROVE  UnitStep
    BY <2>2, ToldUnseen DEF Closes, GivesUp
  <2>3. ASSUME NEW p \in Pools, NEW u \in Users, NEW c \in Conns, GetsAtOnce(p, u, c)
        PROVE  UnitStep
    BY <1>1, <2>3 DEF GetsAtOnce
  <2>4. ASSUME NEW p \in Pools, NEW u \in Users, Asks(p, u)
        PROVE  UnitStep
    BY <1>1, <2>4 DEF Asks
  <2>5. ASSUME NEW p \in Pools, NEW c \in Conns, GetsInTurn(p, c)
        PROVE  UnitStep
    BY <1>1, <2>5 DEF GetsInTurn
  <2>6. ASSUME NEW p \in Pools, IsRefused(p)
        PROVE  UnitStep
    BY <1>1, <2>6 DEF IsRefused
  <2> QED
    BY <1>2, <2>1, <2>2, <2>3, <2>4, <2>5, <2>6 DEF PoolSteps
<1>3. CASE UserSteps
  <2>1. ASSUME NEW j \in Calls, NEW u \in Users, NEW op \in TransactionOps, CallTransaction(j, u, op)
        PROVE  UnitStep
    BY <2>1, ToldUnseen DEF CallTransaction
  <2>2. ASSUME NEW j \in Calls, NEW u \in Users, NEW level \in Levels, CallSetLevel(j, u, level)
        PROVE  UnitStep
    BY <1>1, <2>2 DEF CallSetLevel
  <2>3. ASSUME NEW j \in Calls, NEW u \in Users, NEW w \in Works, CallQuery(j, u, w)
        PROVE  UnitStep
    BY <2>3, CallQueryUnseen
  <2> QED
    BY <1>3, <2>1, <2>2, <2>3 DEF UserSteps
<1>4. CASE WorkerSteps
  <2>1. ASSUME NEW j \in Calls, Commits(j) \/ RollsBack(j) \/ ReturnsToAutocommit(j) \/ CloseRollsBack(j)
        PROVE  UnitStep
    BY <2>1, EndsAUnit
  <2>2. ASSUME NEW j \in Calls, Begins(j) \/ SetsLevel(j) \/ Disconnects(j)
        PROVE  UnitStep
    BY <1>1, <2>2 DEF Begins, SetsLevel, Disconnects
  <2>3. ASSUME NEW j \in Calls, Executes(j)
        PROVE  UnitStep
    BY <2>3, ExecutesAUnit
  <2>4. ASSUME NEW j \in Calls, Answer(j)
        PROVE  UnitStep
    BY <2>4, AnswerUnseen
  <2> QED
    BY <1>4, <2>1, <2>2, <2>3, <2>4 DEF WorkerSteps
<1> QED
  BY <1>1, <1>2, <1>3, <1>4 DEF Next, vars

\* Whatever overlaps and whatever fails, what is open on a connection is one user's
\* and is settled as a whole, once (odbc_connection.cpp 2902-3015, 255-298).
THEOREM ImplementsUnits == ASSUME Tidy = TRUE PROVE Spec => SettledAsUnits
<1>1. IInv /\ [Next]_vars => [Units!UnitsNext]_(Units!unitVars)
  BY StepIsUnits DEF UnitStep
<1> QED
  BY AlwaysIInv, UnitsStart, <1>1, PTL DEF Spec, SettledAsUnits, Units!UnitsSpec
=============================================================================
