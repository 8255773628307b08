-------------------------------- MODULE Pool --------------------------------
(***************************************************************************)
(* lib/Pool.js: connection pools, the connections they own, and the        *)
(* callers that borrow them. All of it runs on the JavaScript thread: an   *)
(* action is what happens between two returns to the event loop.           *)
(*                                                                         *)
(* The users of a pool are its clients and, while odbc.pool() is pending,  *)
(* the pool's own init(), which asks for one connection like any client:   *)
(* as a user, pool p stands for p.init().                                  *)
(***************************************************************************)
EXTENDS ConnectionQueue

CONSTANTS
    Clients,       \* callers of pool.connect() and pool.query()
    Conns,         \* names for native connections; reused once one is freed
    NoConn,        \* stands for `undefined`
    Unset,         \* stands for a key that is absent from a configuration
    Config,        \* [Pools -> configuration], the object given to odbc.pool()
    Styles,        \* the API styles in use: "promise", "callback"
    Failures,      \* the native calls that may fail: "connect", "close"
    Closable,      \* the pools whose owner may close() them
    CounterBound   \* bound on poolSize + connectionsBeingCreatedCount

Users == Clients \cup Pools

ConfigType == [reuseConnections : BOOLEAN, initialSize : Nat, incrementSize : Nat,
               maxSize : Nat, maxActivelyConnecting : Nat \cup {Unset}]

ASSUME UsersAssumption == Clients \cap Pools = {}
ASSUME NoConnAssumption == NoConn \notin Conns
ASSUME UnsetAssumption == Unset \notin Nat
ASSUME ConfigAssumption == Config \in [Pools -> ConfigType]
ASSUME OptionsAssumption == /\ Styles \subseteq {"promise", "callback"}
                            /\ Failures \subseteq {"connect", "close"}
                            /\ Closable \subseteq Pools
                            /\ CounterBound \in Nat

\* No pool sets the limit of the process to 0. The constructor does not check it
\* (Pool.js:185-188), and after `maxActivelyConnecting: 0` no dequeue() finds a
\* slot: no pool connects again until the constructor of another sets the limit.
LimitsPositive == \A p \in Pools : Config[p].maxActivelyConnecting # 0

VARIABLES
    isOpen,                       \* [Pools -> BOOLEAN]
    waitingConnectionWork,        \* [Pools -> Seq(Users)]: unanswered connect()s
    freeConnections,              \* [Pools -> Seq(Conns)]
    connectionsBeingCreatedCount, \* [Pools -> Int]
    poolSize,                     \* [Pools -> Int]
    native,                       \* [Conns -> state of the native connection]
    home,                         \* [Conns -> Pools]: the pool that made it
    pc,                           \* [Users -> control state]
    held,                         \* [Users -> Conns or NoConn]: what a user was given
    crashed                       \* an exception nobody can catch left a native callback

poolVars == <<isOpen, waitingConnectionWork, freeConnections,
              connectionsBeingCreatedCount, poolSize, native, home, pc, held, crashed>>
vars == <<queueVars, poolVars>>

ClientStates == {"idle", "waiting", "waitingQuery", "holding", "querying"}
PoolStates == {"new", "waiting", "holding", "ready", "failed"}

\* "closing": nativeClose is running and its callback will decrement poolSize;
\* "closingUncounted": it will not; "broken": it failed and the handle remains.
NativeStates == {"none", "open", "closing", "closingUncounted", "broken"}

TypeOK ==
    /\ QueueTypeOK
    /\ isOpen \in [Pools -> BOOLEAN]
    /\ waitingConnectionWork \in [Pools -> Seq(Users)]
    /\ freeConnections \in [Pools -> Seq(Conns)]
    /\ connectionsBeingCreatedCount \in [Pools -> Int]
    /\ poolSize \in [Pools -> Int]
    /\ native \in [Conns -> NativeStates]
    /\ home \in [Conns -> Pools]
    /\ pc \in [Users -> ClientStates \cup PoolStates]
    /\ \A u \in Clients : pc[u] \in ClientStates
    /\ \A p \in Pools : pc[p] \in PoolStates
    /\ held \in [Users -> Conns \cup {NoConn}]
    /\ crashed \in BOOLEAN

Init ==
    /\ QueueInit
    /\ isOpen = [p \in Pools |-> FALSE]
    /\ waitingConnectionWork = [p \in Pools |-> <<>>]
    /\ freeConnections = [p \in Pools |-> <<>>]
    /\ connectionsBeingCreatedCount = [p \in Pools |-> 0]
    /\ poolSize = [p \in Pools |-> 0]
    /\ native = [c \in Conns |-> "none"]
    /\ \E p \in Pools : home = [c \in Conns |-> p]   \* of no import while not open
    /\ pc = [u \in Users |-> IF u \in Pools THEN "new" ELSE "idle"]
    /\ held = [u \in Users |-> NoConn]
    /\ crashed = FALSE

-----------------------------------------------------------------------------
(* What the handlers are built from.                                       *)

\* increasePoolSize(n), n >= 0. First, a faulty one that forgets the count.
IncreaseUncounted(p, n) ==
    /\ UNCHANGED connectionsBeingCreatedCount
    /\ Enqueue(p, n)

IncreasePoolSize(p, n) ==
    /\ connectionsBeingCreatedCount' = [connectionsBeingCreatedCount EXCEPT ![p] = @ + n]
    /\ Enqueue(p, n)

\* Faulty 'connected' handlers: one never looks at the waiting work, one serves
\* the work that came last.
ConnectedIgnoringWork(p, c, pcNow, heldNow) ==
    /\ freeConnections' = [freeConnections EXCEPT ![p] = Append(@, c)]
    /\ pc' = pcNow
    /\ held' = heldNow
    /\ UNCHANGED waitingConnectionWork

ConnectedServingLast(p, c, pcNow, heldNow) ==
    LET work == waitingConnectionWork[p]
        u == Last(work)
    IN  IF work = <<>> THEN ConnectedIgnoringWork(p, c, pcNow, heldNow)
        ELSE /\ waitingConnectionWork' =
                  [waitingConnectionWork EXCEPT ![p] = Front(@)]
             /\ pc' = [pcNow EXCEPT ![u] = IF @ = "waitingQuery" THEN "querying" ELSE "holding"]
             /\ held' = [heldNow EXCEPT ![u] = c]
             /\ UNCHANGED freeConnections

\* The 'connected' handler, given c by a finished connect or by a pooled close():
\* the longest waiting user gets it, else it joins the free ones. The caller says
\* what else becomes of pc and held in the step.
Connected(p, c, pcNow, heldNow) ==
    \/ /\ waitingConnectionWork[p] = <<>>
       /\ freeConnections' = [freeConnections EXCEPT ![p] = Append(@, c)]
       /\ pc' = pcNow
       /\ held' = heldNow
       /\ UNCHANGED waitingConnectionWork
    \/ /\ waitingConnectionWork[p] # <<>>
       /\ LET u == Head(waitingConnectionWork[p]) IN
          /\ waitingConnectionWork' = [waitingConnectionWork EXCEPT ![p] = Tail(@)]
          /\ pc' = [pcNow EXCEPT ![u] = IF @ = "waitingQuery" THEN "querying" ELSE "holding"]
          /\ held' = [heldNow EXCEPT ![u] = c]
       /\ UNCHANGED freeConnections

\* A faulty condition that forgets the connections being created.
GrowthOfOpenOnly(p, more) ==
    poolSize[p] + Config[p].incrementSize <= Config[p].maxSize

\* The condition under which connect() asks for more connections, `more` being
\* those asked for just before in the same step.
GrowthNeeded(p, more) ==
    LET creating == connectionsBeingCreatedCount[p] + more IN
    /\ creating <= Len(waitingConnectionWork[p])
    /\ poolSize[p] + creating + Config[p].incrementSize <= Config[p].maxSize

\* A faulty connect() that leaves the free connection it hands out among the free.
ConnectLeavingFree(u, p, more, waits, gets) ==
    /\ IncreasePoolSize(p, more)
    /\ IF freeConnections[p] = <<>>
       THEN /\ waitingConnectionWork' = [waitingConnectionWork EXCEPT ![p] = Append(@, u)]
            /\ pc' = [pc EXCEPT ![u] = waits]
            /\ UNCHANGED held
       ELSE /\ held' = [held EXCEPT ![u] = Last(freeConnections[p])]
            /\ pc' = [pc EXCEPT ![u] = gets]
            /\ UNCHANGED waitingConnectionWork
    /\ UNCHANGED freeConnections

\* connect() by user u, `more` connections having been asked for just before. With
\* a free connection u has it at once, else u waits, and the pool may grow.
Connect(u, p, more, waits, gets) ==
    \/ /\ freeConnections[p] = <<>>
       /\ IncreasePoolSize(p, more + IF GrowthNeeded(p, more)
                                     THEN Config[p].incrementSize ELSE 0)
       /\ waitingConnectionWork' = [waitingConnectionWork EXCEPT ![p] = Append(@, u)]
       /\ pc' = [pc EXCEPT ![u] = waits]
       /\ UNCHANGED <<freeConnections, held>>
    \/ /\ freeConnections[p] # <<>>
       /\ held' = [held EXCEPT ![u] = Last(freeConnections[p])]
       /\ freeConnections' = [freeConnections EXCEPT ![p] = Front(@)]
       /\ IncreasePoolSize(p, more)
       /\ pc' = [pc EXCEPT ![u] = gets]
       /\ UNCHANGED waitingConnectionWork

-----------------------------------------------------------------------------
(* odbc.pool()                                                             *)

\* The constructor, which may set the process-wide limit, and init() up to its
\* connect(). Nobody else has a reference to the pool yet.
StartPool(p) ==
    /\ ~crashed
    /\ pc[p] = "new"
    /\ ~isOpen[p]
    /\ isOpen' = [isOpen EXCEPT ![p] = TRUE]
    /\ maxActivelyConnecting' = IF Config[p].maxActivelyConnecting = Unset
                                THEN maxActivelyConnecting
                                ELSE Config[p].maxActivelyConnecting
    /\ Connect(p, p, Config[p].initialSize, "waiting", "holding")
    /\ UNCHANGED <<poolSize, native, home, crashed>>

\* A faulty init() that drops the connection it tried the pool with.
InitForgets(p) ==
    /\ pc[p] = "holding"
    /\ pc' = [pc EXCEPT ![p] = "ready"]
    /\ held' = [held EXCEPT ![p] = NoConn]
    /\ UNCHANGED <<queueVars, isOpen, waitingConnectionWork, freeConnections,
                   connectionsBeingCreatedCount, poolSize, native, home, crashed>>

\* init() got its connection and, in the promise form, puts it in front of the free
\* ones. The callback form close()s it, as a client would: InitCloses below.
InitReturns(p) ==
    /\ ~crashed
    /\ "promise" \in Styles
    /\ pc[p] = "holding"
    /\ pc' = [pc EXCEPT ![p] = "ready"]
    /\ held' = [held EXCEPT ![p] = NoConn]
    /\ freeConnections' = [freeConnections EXCEPT ![p] = Cons(held[p], @)]
    /\ UNCHANGED <<queueVars, isOpen, waitingConnectionWork,
                   connectionsBeingCreatedCount, poolSize, native, home, crashed>>

-----------------------------------------------------------------------------
(* generateConnectPromise(): the callback of the native connect.           *)

ConnectSucceeds(p, c) ==
    /\ ~crashed
    /\ native[c] = "none"
    /\ AttemptEnds(p)
    /\ connectionsBeingCreatedCount' = [connectionsBeingCreatedCount EXCEPT ![p] = @ - 1]
    /\ poolSize' = [poolSize EXCEPT ![p] = @ + 1]
    /\ native' = [native EXCEPT ![c] = "open"]
    /\ home' = [home EXCEPT ![c] = p]
    /\ Connected(p, c, pc, held)
    /\ UNCHANGED <<isOpen, crashed>>

\* What an answer with an error leaves of user u. A failed init() rejects, and
\* nobody ever gets the pool, or calls back with the error and the pool.
AfterError(u) ==
    IF u \in Clients THEN {"idle"}
    ELSE (IF "promise" \in Styles THEN {"failed"} ELSE {})
         \cup (IF "callback" \in Styles THEN {"ready"} ELSE {})

\* The 'connectionError' handler, then reject(): the longest waiting user gets the
\* error; with nobody waiting it is dropped. connectionsBeingCreatedCount stays.
ConnectFails(p) ==
    /\ ~crashed
    /\ "connect" \in Failures
    /\ AttemptEnds(p)
    /\ \/ /\ waitingConnectionWork[p] = <<>>
          /\ UNCHANGED <<waitingConnectionWork, pc>>
       \/ /\ waitingConnectionWork[p] # <<>>
          /\ LET u == Head(waitingConnectionWork[p]) IN
             /\ pc[u] # "waitingQuery"
             /\ \E s \in AfterError(u) : pc' = [pc EXCEPT ![u] = s]
          /\ waitingConnectionWork' = [waitingConnectionWork EXCEPT ![p] = Tail(@)]
    /\ UNCHANGED <<isOpen, freeConnections, connectionsBeingCreatedCount, poolSize,
                   native, home, held, crashed>>

\* The same when pool.query() waits first: its callback throws the error, or uses
\* the connection it did not get, inside the native callback. The process ends.
ConnectFailsUnderQuery(p) ==
    /\ ~crashed
    /\ "connect" \in Failures
    /\ \E i \in 1..Len(connecting) : connecting[i] = p
    /\ waitingConnectionWork[p] # <<>>
    /\ pc[Head(waitingConnectionWork[p])] = "waitingQuery"
    /\ crashed' = TRUE
    /\ UNCHANGED <<queueVars, isOpen, waitingConnectionWork, freeConnections,
                   connectionsBeingCreatedCount, poolSize, native, home, pc, held>>

-----------------------------------------------------------------------------
(* close() of a pooled connection.                                         *)

\* The close() that replaced the native one. A pool that reuses connections hands
\* the connection on; one that does not asks for a replacement, whatever its size,
\* and closes this one. Only the promise form counts the connection out again.
GiveUp(u, after, style) ==
    LET c == held[u]
        p == home[c]
        pcNow == [pc EXCEPT ![u] = after]
        heldNow == [held EXCEPT ![u] = NoConn]
    IN  \/ /\ Config[p].reuseConnections
           /\ Connected(p, c, pcNow, heldNow)
           /\ UNCHANGED <<queueVars, isOpen, connectionsBeingCreatedCount, poolSize,
                          native, home, crashed>>
        \/ /\ ~Config[p].reuseConnections
           /\ poolSize[p] + connectionsBeingCreatedCount[p] < CounterBound
           /\ UNCHANGED maxActivelyConnecting
           /\ IncreasePoolSize(p, 1)
           /\ native' = [native EXCEPT ![c] = IF style = "promise" THEN "closing"
                                                                  ELSE "closingUncounted"]
           /\ pc' = pcNow
           /\ held' = heldNow
           /\ UNCHANGED <<isOpen, waitingConnectionWork, freeConnections, poolSize,
                          home, crashed>>

InitCloses(p) ==
    /\ ~crashed
    /\ "callback" \in Styles
    /\ pc[p] = "holding"
    /\ GiveUp(p, "ready", "promise")

CloseConnection(u) ==
    /\ ~crashed
    /\ u \in Clients
    /\ pc[u] = "holding"
    /\ \E style \in Styles : GiveUp(u, "idle", style)

\* A faulty callback of the native close that leaves poolSize as it is.
NativeCloseUncounted(c) ==
    /\ native[c] \in {"closing", "closingUncounted"}
    /\ native' = [native EXCEPT ![c] = "none"]
    /\ UNCHANGED <<queueVars, isOpen, waitingConnectionWork, freeConnections, poolSize,
                   connectionsBeingCreatedCount, home, pc, held, crashed>>

\* The native close of c ended. Its callback runs whether or not it succeeded.
NativeCloseEnds(c) ==
    /\ ~crashed
    /\ native[c] \in {"closing", "closingUncounted"}
    /\ \E outcome \in {"none"} \cup (IF "close" \in Failures THEN {"broken"} ELSE {}) :
          native' = [native EXCEPT ![c] = outcome]
    /\ poolSize' = IF native[c] = "closing" THEN [poolSize EXCEPT ![home[c]] = @ - 1]
                                            ELSE poolSize
    /\ UNCHANGED <<queueVars, isOpen, waitingConnectionWork, freeConnections,
                   connectionsBeingCreatedCount, home, pc, held, crashed>>

-----------------------------------------------------------------------------
(* The pool's own operations, on a pool that odbc.pool() has delivered.    *)

PoolConnect(u, p) ==
    /\ ~crashed
    /\ pc[u] = "idle"
    /\ pc[p] = "ready"
    /\ UNCHANGED maxActivelyConnecting
    /\ Connect(u, p, 0, "waiting", "holding")
    /\ UNCHANGED <<isOpen, poolSize, native, home, crashed>>

\* query() up to its connect(); once it is connected the query runs.
PoolQuery(u, p) ==
    /\ ~crashed
    /\ pc[u] = "idle"
    /\ pc[p] = "ready"
    /\ UNCHANGED maxActivelyConnecting
    /\ Connect(u, p, 0, "waitingQuery", "querying")
    /\ UNCHANGED <<isOpen, poolSize, native, home, crashed>>

\* The query of pool.query() ended, well or badly: the caller is told and the
\* connection closed, in the promise form whatever the caller's style.
PoolQueryEnds(u) ==
    /\ ~crashed
    /\ pc[u] = "querying"
    /\ GiveUp(u, "idle", "promise")

\* close(): the free connections leave the pool. The promise form closes each of
\* them; the callback form iterates over the array it has just emptied.
ClosePool(p, style) ==
    /\ ~crashed
    /\ p \in Closable
    /\ pc[p] = "ready"
    /\ isOpen' = [isOpen EXCEPT ![p] = FALSE]
    /\ freeConnections' = [freeConnections EXCEPT ![p] = <<>>]
    /\ LET free == freeConnections[p]
           closed == IF style = "promise" THEN ToSet(free) ELSE {}
       IN  native' = [c \in Conns |-> IF c \in closed THEN "closing" ELSE native[c]]
    /\ UNCHANGED <<queueVars, waitingConnectionWork, connectionsBeingCreatedCount,
                   poolSize, home, pc, held, crashed>>

-----------------------------------------------------------------------------

QueueContinues ==
    /\ ~crashed
    /\ SlotFreed
    /\ UNCHANGED poolVars

PoolStep(p) ==
    \/ StartPool(p)
    \/ InitReturns(p)
    \/ InitCloses(p)
    \/ \E c \in Conns : ConnectSucceeds(p, c)
    \/ ConnectFails(p)
    \/ ConnectFailsUnderQuery(p)
    \/ \E style \in Styles : ClosePool(p, style)

ClientStep(u) ==
    \/ \E p \in Pools : PoolConnect(u, p) \/ PoolQuery(u, p)
    \/ CloseConnection(u)
    \/ PoolQueryEnds(u)

Next ==
    \/ \E p \in Pools : PoolStep(p)
    \/ \E u \in Clients : ClientStep(u)
    \/ \E c \in Conns : NativeCloseEnds(c)
    \/ QueueContinues

Spec == Init /\ [][Next]_vars

\* libuv finishes every native call it was given, the event loop runs every
\* continuation, a pool that was asked for is started, and whoever borrowed a
\* connection closes it some day. A connect needs strong fairness only because the
\* model, unlike the program, may be out of names for connections for a while.
Fairness ==
    /\ \A p \in Pools :
         /\ WF_vars(StartPool(p))
         /\ WF_vars(InitReturns(p) \/ InitCloses(p))
         /\ SF_vars(\/ \E c \in Conns : ConnectSucceeds(p, c)
                    \/ ConnectFails(p)
                    \/ ConnectFailsUnderQuery(p))
    /\ \A u \in Clients : WF_vars(CloseConnection(u) \/ PoolQueryEnds(u))
    /\ \A c \in Conns : WF_vars(NativeCloseEnds(c))
    /\ WF_vars(QueueContinues)

FairSpec == Spec /\ Fairness

-----------------------------------------------------------------------------
(* Safety.                                                                 *)

\* A connection never sits free in a pool while somebody waits on that pool: each
\* way a connection comes back ('connected' after a connect or a close, init's
\* unshift) looks at the waiting work, each way to wait looks at the free ones.
NoIdleConnection ==
    \A p \in Pools : waitingConnectionWork[p] # <<>> => freeConnections[p] = <<>>

\* A connection is in one place: it is once in the free ones of its own pool, or
\* with one user, and in either case the native connection is open.
OneBorrower ==
    /\ \A p \in Pools :
         /\ IsInjective(freeConnections[p])
         /\ \A c \in ToSet(freeConnections[p]) :
              native[c] = "open" /\ home[c] = p /\ \A u \in Users : held[u] # c
    /\ \A u \in Users : held[u] # NoConn =>
         native[held[u]] = "open" /\ \A v \in Users : held[v] = held[u] => v = u

\* The pools as their users see them keep the promise of module Lending.
Promise == INSTANCE Lending WITH line <- waitingConnectionWork, lent <- held
KeepsPromise == Promise!LendingSpec

\* A reusing pool that starts within maxSize stays within it, counting the
\* connections being created (README.md:701, Pool.js:211-215).
SizeBound ==
    \A p \in Pools :
        Config[p].reuseConnections /\ Config[p].initialSize <= Config[p].maxSize =>
            poolSize[p] + connectionsBeingCreatedCount[p] <= Config[p].maxSize

\* An open connection is one somebody can still close: it is free, lent, or being
\* closed (README.md:824 on Pool.close, Pool.js:328-356).
NoConnectionLost ==
    \A c \in Conns : native[c] = "open" =>
        \/ c \in ToSet(freeConnections[home[c]])
        \/ \E u \in Users : held[u] = c

\* How many entries of the sequence s are pool p's.
EntriesOf(p, s) == Cardinality({i \in DOMAIN s : s[i] = p})

\* Where no native call fails and promises are used, both counters that decide
\* growth are what they are named for (Pool.js:211-212, 417-418, 440, 462).
CountsExact ==
    \A p \in Pools :
        /\ connectionsBeingCreatedCount[p] =
              EntriesOf(p, queuedConnections) + EntriesOf(p, connecting)
        /\ poolSize[p] = Cardinality({c \in Conns : native[c] # "none" /\ home[c] = p})

\* Once its owner has closed a pool, a connection that comes back to it is
\* discarded: it is not put among the free ones again (README.md:824).
ClosedPoolKeepsNothing ==
    [][\A p \in Pools : pc[p] = "ready" /\ ~isOpen[p] =>
          Len(freeConnections'[p]) <= Len(freeConnections[p])]_vars

-----------------------------------------------------------------------------
(* Liveness, under FairSpec.                                               *)

Waiting(u) == pc[u] \in {"waiting", "waitingQuery"}

\* Whoever asks for a connection gets an answer: the connection, or an error.
EveryRequestAnswered == \A u \in Users : Waiting(u) ~> ~Waiting(u)

\* Every attempt that is queued is started, whichever pool's it is.
QueueDrains == (queuedConnections # <<>>) ~> (queuedConnections = <<>>)
=============================================================================
