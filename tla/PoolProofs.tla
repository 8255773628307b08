----------------------------- MODULE PoolProofs -----------------------------
(***************************************************************************)
(* Theorems of module Pool, for any sets of pools, clients and connections *)
(* and any configuration: an action is one or two of the moves of          *)
(* PoolMoves together with an operation of the queue.                      *)
(***************************************************************************)
EXTENDS PoolMoves

PlacesNow == Places(waitingConnectionWork, freeConnections, pc, held, native, home)

CountersType ==
    /\ isOpen \in [Pools -> BOOLEAN]
    /\ connectionsBeingCreatedCount \in [Pools -> Int]
    /\ poolSize \in [Pools -> Int]
    /\ crashed \in BOOLEAN

\* SizeBound with what makes it inductive: a pool that odbc.pool() has not started
\* has no connection and has asked for none.
SizeOf(size, creating, s) ==
    \A p \in Pools :
        Config[p].reuseConnections /\ Config[p].initialSize <= Config[p].maxSize =>
            /\ size[p] + creating[p] <= Config[p].maxSize
            /\ s[p] = "new" => size[p] + creating[p] <= 0

SizeInv == SizeOf(poolSize, connectionsBeingCreatedCount, pc)

IInv == QueueInv /\ CountersType /\ PlacesNow /\ SizeInv

-----------------------------------------------------------------------------
(* Initially.                                                              *)

\* odbc.js has just been loaded: nobody waits, nothing is open.
LEMMA InitIInv == Init => IInv
<1> SUFFICES ASSUME Init
             PROVE  IInv
  OBVIOUS
<1>1. QueueInv
  BY QueueInitInv DEF Init
<1>2. CountersType
  <2>1. /\ connectionsBeingCreatedCount \in [Pools -> Int]
        /\ poolSize \in [Pools -> Int]
    BY DEF Init
  <2>2. isOpen \in [Pools -> BOOLEAN] /\ crashed \in BOOLEAN
    BY Zenon DEF Init
  <2> QED
    BY <2>1, <2>2 DEF CountersType
<1>3. PlacesNow
  <2>1. /\ <<>> \in Seq(Conns) /\ <<>> \in Seq(Users)
        /\ ToSet(<<>>) = {} /\ IsInjective(<<>>)
    <3>1. <<>> \in Seq(Conns) /\ <<>> \in Seq(Users) /\ DOMAIN <<>> = {}
      OBVIOUS
    <3> QED
      BY <3>1 DEF ToSet, IsInjective
  <2>2. /\ \A p \in Pools : waitingConnectionWork[p] = <<>> /\ freeConnections[p] = <<>>
        /\ \A u \in Users : held[u] = NoConn
        /\ \A p \in Pools : pc[p] = "new"
        /\ \A u \in Clients : pc[u] = "idle"
    BY UsersAssumption DEF Init, Users
  <2>3. PlacesType(waitingConnectionWork, freeConnections, pc, held, native, home)
    BY <2>1, <2>2 DEF Init, PlacesType, ClientStates, PoolStates, NativeStates, Users
  <2>4. LinesInv(waitingConnectionWork, pc)
    BY <2>1, <2>2 DEF LinesInv
  <2>5. HeldInv(pc, held, native, home)
    BY <2>2 DEF HeldInv, HoldStates, Users
  <2>6. FreeInv(freeConnections, held, native, home)
    BY <2>1, <2>2 DEF FreeInv
  <2> QED
    BY <2>2, <2>3, <2>4, <2>5, <2>6 DEF PlacesNow, Places
<1>4. SizeInv
  BY ConfigAssumption DEF Init, SizeInv, SizeOf, ConfigType
<1> QED
  BY <1>1, <1>2, <1>3, <1>4 DEF IInv

-----------------------------------------------------------------------------
(* Operations that several actions share.                                  *)

\* A connection that is neither free nor held ends up in one of the two places.
LEMMA ConnectedPlaces ==
  ASSUME NEW s, NEW h, NEW n, NEW o, NEW p \in Pools, NEW c,
         Places(waitingConnectionWork, freeConnections, s, h, n, o),
         Loose(c, p, freeConnections, h, n, o),
         Connected(p, c, s, h)
  PROVE  Places(waitingConnectionWork', freeConnections', pc', held', n, o)
<1>1. CASE waitingConnectionWork[p] = <<>>
  <2>1. /\ freeConnections' = [freeConnections EXCEPT ![p] = Append(@, c)]
        /\ pc' = s /\ held' = h
        /\ waitingConnectionWork' = waitingConnectionWork
    BY <1>1 DEF Connected
  <2> QED
    BY <1>1, <2>1, BecomesFree
<1>2. CASE waitingConnectionWork[p] # <<>>
  <2> DEFINE u == Head(waitingConnectionWork[p])
             new == IF s[u] = "waitingQuery" THEN "querying" ELSE "holding"
  <2>1. /\ waitingConnectionWork' = [waitingConnectionWork EXCEPT ![p] = Tail(@)]
        /\ pc' = [s EXCEPT ![u] = IF @ = "waitingQuery" THEN "querying" ELSE "holding"]
        /\ held' = [h EXCEPT ![u] = c]
        /\ freeConnections' = freeConnections
    BY <1>2 DEF Connected
  <2>2. pc' = [s EXCEPT ![u] = new]
    BY <2>1
  <2> HIDE DEF u, new
  <2>3. u = Head(waitingConnectionWork[p])
        /\ new = IF s[u] = "waitingQuery" THEN "querying" ELSE "holding"
    BY DEF u, new
  <2>4. Places([waitingConnectionWork EXCEPT ![p] = Tail(@)], freeConnections,
               [s EXCEPT ![u] = new], [h EXCEPT ![u] = c], n, o)
    BY <1>2, <2>3, GoesToWaiting
  <2> QED
    BY <2>1, <2>2, <2>4
<1> QED
  BY <1>1, <1>2

\* Every way to ask a pool for a connection keeps users and connections in place.
LEMMA ConnectPlaces ==
  ASSUME PlacesNow, NEW u \in Users, NEW p \in Pools,
         NEW more, NEW waits \in WaitStates, NEW gets \in HoldStates,
         \/ u \in Clients /\ pc[u] = "idle" /\ pc[p] = "ready"
         \/ u = p /\ pc[p] = "new",
         u \in Pools => waits = "waiting" /\ gets = "holding",
         Connect(u, p, more, waits, gets), UNCHANGED <<native, home>>
  PROVE  PlacesNow'
<1>1. CASE freeConnections[p] = <<>>
  <2>1. Places([waitingConnectionWork EXCEPT ![p] = Append(@, u)], freeConnections,
               [pc EXCEPT ![u] = waits], held, native, home)
    BY <1>1, JoinsLine DEF PlacesNow
  <2> QED
    BY <1>1, <2>1 DEF PlacesNow, Connect
<1>2. CASE freeConnections[p] # <<>>
  <2>1. Places(waitingConnectionWork, [freeConnections EXCEPT ![p] = Front(@)],
               [pc EXCEPT ![u] = gets], [held EXCEPT ![u] = Last(freeConnections[p])],
               native, home)
    BY <1>2, TakesFree DEF PlacesNow
  <2> QED
    BY <1>2, <2>1 DEF PlacesNow, Connect
<1> QED
  BY <1>1, <1>2

\* A user that close()s its connection, for itself or for the query it asked for.
LEMMA GiveUpPlaces ==
  ASSUME PlacesNow, NEW u \in Users, pc[u] \in HoldStates,
         NEW after, u \in Pools => after = "ready", u \notin Pools => after = "idle",
         NEW style, GiveUp(u, after, style)
  PROVE  PlacesNow'
<1> DEFINE c == held[u]
           p == home[c]
           s == [pc EXCEPT ![u] = after]
           h == [held EXCEPT ![u] = NoConn]
<1>1. /\ Places(waitingConnectionWork, freeConnections, s, h, native, home)
      /\ Loose(c, p, freeConnections, h, native, home)
      /\ p \in Pools
  BY GivesUp DEF PlacesNow
<1> HIDE DEF s, h
<1>2. CASE Config[p].reuseConnections
  <2>1. Connected(p, c, s, h) /\ UNCHANGED <<native, home>>
    BY <1>2 DEF GiveUp, s, h
  <2>2. Places(waitingConnectionWork', freeConnections', pc', held', native, home)
    BY <1>1, <2>1, ConnectedPlaces
  <2> QED
    BY <2>1, <2>2 DEF PlacesNow
<1>3. CASE ~Config[p].reuseConnections
  <2> DEFINE new == IF style = "promise" THEN "closing" ELSE "closingUncounted"
  <2>1. /\ native' = [native EXCEPT ![c] = new]
        /\ pc' = s /\ held' = h /\ home' = home
        /\ waitingConnectionWork' = waitingConnectionWork
        /\ freeConnections' = freeConnections
    BY <1>3 DEF GiveUp, s, h
  <2>2. new \in NativeStates
    BY DEF NativeStates
  <2>3. native \in [Conns -> NativeStates] /\ home \in [Conns -> Pools]
    BY DEF PlacesNow, Places, PlacesType
  <2> HIDE DEF c, p, new
  <2>4. /\ native' \in [Conns -> NativeStates]
        /\ \A x \in Conns : x # c => native'[x] = native[x]
    BY <2>1, <2>2, <2>3
  <2>5. \A q \in Pools : \A x \in Users : c \notin ToSet(freeConnections[q]) /\ h[x] # c
    <3>1. \A q \in Pools : q # p => \A x \in ToSet(freeConnections[q]) : home[x] = q
      BY <1>1 DEF Places, FreeInv
    <3> QED
      BY <1>1, <3>1 DEF Loose
  <2>6. Places(waitingConnectionWork, freeConnections, s, h, native', home)
    BY <1>1, <2>3, <2>4, <2>5, NativeMoves
  <2> QED
    BY <2>1, <2>6 DEF PlacesNow
<1> QED
  BY <1>2, <1>3

-----------------------------------------------------------------------------
(* Every step preserves each part of the invariant.                        *)

\* What the invariant says of the constants and of a state, for the lemmas below.
LEMMA Basics ==
  ASSUME IInv
  PROVE  /\ PlacesNow /\ QueueInv /\ CountersType
         /\ pc \in [Users -> ClientStates \cup PoolStates]
         /\ held \in [Users -> Conns \cup {NoConn}]
         /\ native \in [Conns -> NativeStates]
         /\ home \in [Conns -> Pools]
         /\ \A u \in Users : pc[u] \in HoldStates =>
              /\ held[u] \in Conns /\ native[held[u]] = "open" /\ home[held[u]] \in Pools
              /\ \A v \in Users : held[v] = held[u] => v = u
<1>1. /\ PlacesType(waitingConnectionWork, freeConnections, pc, held, native, home)
      /\ HeldInv(pc, held, native, home)
  BY DEF IInv, PlacesNow, Places
<1>2. ASSUME NEW u \in Users, pc[u] \in HoldStates
      PROVE  /\ held[u] \in Conns /\ native[held[u]] = "open" /\ home[held[u]] \in Pools
             /\ \A v \in Users : held[v] = held[u] => v = u
  BY <1>1, <1>2 DEF PlacesType, HeldInv
<1> QED
  BY <1>1, <1>2 DEF IInv, PlacesType

\* No step loses a user or a connection, or lends a connection twice.
LEMMA PlacesStep ==
  ASSUME IInv, [Next]_vars
  PROVE  PlacesNow'
<1>0. /\ PlacesNow
      /\ native \in [Conns -> NativeStates] /\ home \in [Conns -> Pools]
      /\ Pools \subseteq Users /\ Clients \subseteq Users
  BY Basics DEF Users
<1>1. ASSUME NEW p \in Pools, StartPool(p)
      PROVE  PlacesNow'
  <2>1. /\ pc[p] = "new" /\ UNCHANGED <<native, home>>
        /\ Connect(p, p, Config[p].initialSize, "waiting", "holding")
    BY <1>1 DEF StartPool
  <2>2. "waiting" \in WaitStates /\ "holding" \in HoldStates
    BY DEF WaitStates, HoldStates
  <2> QED
    BY <1>0, <2>1, <2>2, ConnectPlaces
<1>2. ASSUME NEW p \in Pools, InitReturns(p)
      PROVE  PlacesNow'
  <2> DEFINE s == [pc EXCEPT ![p] = "ready"]
             h == [held EXCEPT ![p] = NoConn]
             f == [freeConnections EXCEPT ![p] = Cons(held[p], @)]
  <2>1. /\ pc[p] \in HoldStates
        /\ pc' = s /\ held' = h /\ freeConnections' = f
        /\ UNCHANGED <<waitingConnectionWork, native, home>>
    BY <1>2 DEF InitReturns, HoldStates
  <2>2. /\ Places(waitingConnectionWork, freeConnections, s, h, native, home)
        /\ Loose(held[p], home[held[p]], freeConnections, h, native, home)
        /\ home[held[p]] = p
        /\ waitingConnectionWork[p] = <<>>
    <3>1. p \in Users /\ pc[p] \in HoldStates
          /\ Places(waitingConnectionWork, freeConnections, pc, held, native, home)
      BY <1>0, <2>1 DEF PlacesNow
    <3>2. home[held[p]] = p /\ waitingConnectionWork[p] = <<>>
      BY <3>1, InitHolds
    <3>3. /\ Places(waitingConnectionWork, freeConnections, s, h, native, home)
          /\ Loose(held[p], home[held[p]], freeConnections, h, native, home)
      BY <3>1, GivesUp
    <3> QED
      BY <3>2, <3>3
  <2> HIDE DEF s, h
  <2>3. Places(waitingConnectionWork, f, s, h, native, home)
    BY <2>2, BecomesFree
  <2> QED
    BY <2>1, <2>3 DEF PlacesNow
<1>3. ASSUME NEW p \in Pools, InitCloses(p)
      PROVE  PlacesNow'
  BY <1>0, <1>3, GiveUpPlaces DEF InitCloses, HoldStates
<1>4. ASSUME NEW p \in Pools, NEW c \in Conns, ConnectSucceeds(p, c)
      PROVE  PlacesNow'
  <2>1. /\ native[c] = "none"
        /\ native' = [native EXCEPT ![c] = "open"]
        /\ home' = [home EXCEPT ![c] = p]
        /\ Connected(p, c, pc, held)
    BY <1>4 DEF ConnectSucceeds
  <2>2. /\ native' \in [Conns -> NativeStates] /\ home' \in [Conns -> Pools]
        /\ native'[c] = "open" /\ home'[c] = p
        /\ \A x \in Conns : x # c => native'[x] = native[x] /\ home'[x] = home[x]
    BY <1>0, <2>1 DEF NativeStates
  <2>3. Places(waitingConnectionWork, freeConnections, pc, held, native', home')
    BY <1>0, <2>1, <2>2, NativeMoves DEF PlacesNow
  <2>4. Loose(c, p, freeConnections, held, native', home')
    <3>1. \A q \in Pools : c \notin ToSet(freeConnections[q])
      BY <1>0, <2>1 DEF PlacesNow, Places, FreeInv
    <3>2. \A u \in Users : held[u] # c
      BY <1>0, <2>1, NoConnAssumption DEF PlacesNow, Places, HeldInv
    <3> QED
      BY <2>2, <3>1, <3>2 DEF Loose
  <2>5. Places(waitingConnectionWork', freeConnections', pc', held', native', home')
    BY <2>1, <2>3, <2>4, ConnectedPlaces
  <2> QED
    BY <2>5 DEF PlacesNow
<1>5. ASSUME NEW p \in Pools, ConnectFails(p)
      PROVE  PlacesNow'
  <2>1. UNCHANGED <<freeConnections, native, home, held>>
    BY <1>5 DEF ConnectFails
  <2>2. CASE waitingConnectionWork[p] = <<>>
    BY <1>0, <1>5, <2>1, <2>2 DEF ConnectFails, PlacesNow
  <2>3. CASE waitingConnectionWork[p] # <<>>
    <3> DEFINE u == Head(waitingConnectionWork[p])
    <3>1. PICK new \in AfterError(u) :
             /\ pc' = [pc EXCEPT ![u] = new]
             /\ waitingConnectionWork' = [waitingConnectionWork EXCEPT ![p] = Tail(@)]
      BY <1>5, <2>3 DEF ConnectFails
    <3>2. Places([waitingConnectionWork EXCEPT ![p] = Tail(@)], freeConnections,
                 [pc EXCEPT ![u] = new], held, native, home)
      BY <1>0, <2>3, IsRefused DEF PlacesNow
    <3> QED
      BY <2>1, <3>1, <3>2 DEF PlacesNow
  <2> QED
    BY <2>2, <2>3
<1>6. ASSUME NEW p \in Pools, ConnectFailsUnderQuery(p)
      PROVE  PlacesNow'
  BY <1>0, <1>6 DEF ConnectFailsUnderQuery, PlacesNow
<1>7. ASSUME NEW p \in Pools, NEW style, ClosePool(p, style)
      PROVE  PlacesNow'
  <2> DEFINE closed == IF style = "promise" THEN ToSet(freeConnections[p]) ELSE {}
             f == [freeConnections EXCEPT ![p] = <<>>]
  <2>1. /\ freeConnections' = f
        /\ native' = [c \in Conns |-> IF c \in closed THEN "closing" ELSE native[c]]
        /\ UNCHANGED <<waitingConnectionWork, home, pc, held>>
    BY <1>7 DEF ClosePool
  <2>2. /\ Places(waitingConnectionWork, f, pc, held, native, home)
        /\ \A c \in ToSet(freeConnections[p]) : \A q \in Pools : \A u \in Users :
             c \notin ToSet(f[q]) /\ held[u] # c
    BY <1>0, FreeEmptied DEF PlacesNow
  <2>3. closed \subseteq ToSet(freeConnections[p])
    OBVIOUS
  <2> HIDE DEF closed, f
  <2>4. native' \in [Conns -> NativeStates]
    BY <1>0, <2>1 DEF NativeStates
  <2>5. \A c \in Conns : c \notin closed => native'[c] = native[c]
    BY <2>1
  <2>6. Places(waitingConnectionWork, f, pc, held, native', home)
    BY <1>0, <2>2, <2>3, <2>4, <2>5, NativeMoves
  <2> QED
    BY <2>1, <2>6 DEF PlacesNow
<1>8. ASSUME NEW u \in Clients, NEW p \in Pools, PoolConnect(u, p)
      PROVE  PlacesNow'
  <2>1. "waiting" \in WaitStates /\ "holding" \in HoldStates
    BY DEF WaitStates, HoldStates
  <2> QED
    BY <1>0, <1>8, <2>1, ConnectPlaces DEF PoolConnect
<1>9. ASSUME NEW u \in Clients, NEW p \in Pools, PoolQuery(u, p)
      PROVE  PlacesNow'
  <2>1. "waitingQuery" \in WaitStates /\ "querying" \in HoldStates /\ u \notin Pools
    BY UsersAssumption DEF WaitStates, HoldStates
  <2> QED
    BY <1>0, <1>9, <2>1, ConnectPlaces DEF PoolQuery
<1>10. ASSUME NEW u \in Clients, CloseConnection(u)
       PROVE  PlacesNow'
  <2>1. u \notin Pools
    BY UsersAssumption
  <2> QED
    BY <1>0, <1>10, <2>1, GiveUpPlaces DEF CloseConnection, HoldStates
<1>11. ASSUME NEW u \in Clients, PoolQueryEnds(u)
       PROVE  PlacesNow'
  <2>1. u \notin Pools
    BY UsersAssumption
  <2> QED
    BY <1>0, <1>11, <2>1, GiveUpPlaces DEF PoolQueryEnds, HoldStates
<1>12. ASSUME NEW c \in Conns, NativeCloseEnds(c)
       PROVE  PlacesNow'
  <2>1. PICK outcome \in {"none", "broken"} : native' = [native EXCEPT ![c] = outcome]
    BY <1>12 DEF NativeCloseEnds
  <2>2. /\ native[c] # "open"
        /\ UNCHANGED <<waitingConnectionWork, freeConnections, home, pc, held>>
    BY <1>12 DEF NativeCloseEnds
  <2>3. /\ native' \in [Conns -> NativeStates]
        /\ \A x \in Conns : x # c => native'[x] = native[x]
    BY <1>0, <2>1 DEF NativeStates
  <2>4. Places(waitingConnectionWork, freeConnections, pc, held, native', home)
    BY <1>0, <2>2, <2>3, NativeMoves DEF PlacesNow
  <2> QED
    BY <2>2, <2>4 DEF PlacesNow
<1>13. CASE QueueContinues
  BY <1>0, <1>13 DEF QueueContinues, poolVars, PlacesNow
<1>14. CASE UNCHANGED vars
  BY <1>0, <1>14 DEF vars, poolVars, PlacesNow
<1> QED
  BY <1>1, <1>2, <1>3, <1>4, <1>5, <1>6, <1>7, <1>8, <1>9, <1>10, <1>11, <1>12, <1>13, <1>14
     DEF Next, PoolStep, ClientStep

\* Every step is an operation of the queue or leaves the queue alone.
LEMMA QueueStep ==
  ASSUME IInv, [Next]_vars
  PROVE  QueueInv'
<1>0. /\ QueueInv
      /\ connectionsBeingCreatedCount \in [Pools -> Int]
      /\ \A u \in Users : pc[u] \in HoldStates => home[held[u]] \in Pools
      /\ Pools \subseteq Users /\ Clients \subseteq Users
      /\ "holding" \in HoldStates /\ "querying" \in HoldStates
  BY Basics DEF Users, HoldStates, CountersType
<1>1. /\ maxActivelyConnecting \in Nat
      /\ LimitsPositive => maxActivelyConnecting # 0
  BY <1>0 DEF QueueInv, QueueTypeOK
<1>2. ASSUME UNCHANGED queueVars
      PROVE  QueueInv'
  BY <1>0, <1>2 DEF queueVars, QueueInv, QueueTypeOK, SlotsAccounted, QueueNeverStalls
<1>3. \A p \in Pools : /\ Config[p].initialSize \in Nat
                       /\ Config[p].incrementSize \in Nat
                       /\ Config[p].maxActivelyConnecting \in Nat \cup {Unset}
  BY ConfigAssumption DEF ConfigType
<1>4. ASSUME NEW p \in Pools, NEW u, NEW more \in Nat, NEW waits, NEW gets,
             Connect(u, p, more, waits, gets), maxActivelyConnecting' \in Nat,
             LimitsPositive => maxActivelyConnecting' # 0
      PROVE  QueueInv'
  <2>1. PICK k \in Nat : IncreasePoolSize(p, k)
    <3>1. more + Config[p].incrementSize \in Nat /\ more + 0 \in Nat /\ more \in Nat
      BY <1>3
    <3> QED
      BY <1>4, <3>1 DEF Connect
  <2>2. Enqueue(p, k)
    BY <2>1 DEF IncreasePoolSize
  <2> QED
    BY <1>0, <1>4, <2>2, EnqueueInv
<1>5. ASSUME NEW u \in Users, pc[u] \in HoldStates, NEW after, NEW style,
             GiveUp(u, after, style)
      PROVE  QueueInv'
  <2>1. CASE Config[home[held[u]]].reuseConnections
    BY <1>2, <1>5, <2>1 DEF GiveUp
  <2>2. CASE ~Config[home[held[u]]].reuseConnections
    <3>1. /\ Enqueue(home[held[u]], 1)
          /\ maxActivelyConnecting' = maxActivelyConnecting
      BY <1>5, <2>2 DEF GiveUp, IncreasePoolSize
    <3> QED
      BY <1>0, <1>1, <1>5, <3>1, EnqueueInv
  <2> QED
    BY <2>1, <2>2
<1>6. ASSUME NEW p \in Pools, StartPool(p)
      PROVE  QueueInv'
  <2>1. /\ maxActivelyConnecting' \in Nat
        /\ LimitsPositive => maxActivelyConnecting' # 0
    BY <1>1, <1>3, <1>6 DEF StartPool, LimitsPositive
  <2> QED
    BY <1>3, <1>4, <1>6, <2>1 DEF StartPool
<1>7. ASSUME NEW p \in Pools, InitReturns(p) \/ ConnectFailsUnderQuery(p)
                              \/ \E style \in Styles : ClosePool(p, style)
      PROVE  QueueInv'
  BY <1>2, <1>7 DEF InitReturns, ConnectFailsUnderQuery, ClosePool
<1>8. ASSUME NEW p \in Pools, InitCloses(p)
      PROVE  QueueInv'
  BY <1>0, <1>5, <1>8 DEF InitCloses
<1>9. ASSUME NEW p \in Pools, (\E c \in Conns : ConnectSucceeds(p, c)) \/ ConnectFails(p)
      PROVE  QueueInv'
  <2>1. AttemptEnds(p)
    BY <1>9 DEF ConnectSucceeds, ConnectFails
  <2> QED
    BY <1>0, <2>1, AttemptEndsInv
<1>10. ASSUME NEW u \in Clients, NEW p \in Pools, PoolConnect(u, p) \/ PoolQuery(u, p)
       PROVE  QueueInv'
  <2>1. /\ maxActivelyConnecting' \in Nat /\ 0 \in Nat
        /\ LimitsPositive => maxActivelyConnecting' # 0
    BY <1>1, <1>10 DEF PoolConnect, PoolQuery
  <2>2. \E waits, gets : Connect(u, p, 0, waits, gets)
    BY <1>10 DEF PoolConnect, PoolQuery
  <2> QED
    BY <1>4, <2>1, <2>2
<1>11. ASSUME NEW u \in Clients, CloseConnection(u) \/ PoolQueryEnds(u)
       PROVE  QueueInv'
  BY <1>0, <1>5, <1>11 DEF CloseConnection, PoolQueryEnds
<1>12. ASSUME NEW c \in Conns, NativeCloseEnds(c)
       PROVE  QueueInv'
  BY <1>2, <1>12 DEF NativeCloseEnds
<1>13. CASE QueueContinues
  BY <1>0, <1>13, SlotFreedInv DEF QueueContinues
<1>14. CASE UNCHANGED vars
  BY <1>2, <1>14 DEF vars
<1> QED
  BY <1>6, <1>7, <1>8, <1>9, <1>10, <1>11, <1>12, <1>13, <1>14
     DEF Next, PoolStep, ClientStep

\* What a step may do to the counters of pools and to what it takes for new.
LEMMA CountersStep ==
  ASSUME IInv, [Next]_vars
  PROVE  /\ CountersType'
         /\ \A q \in Pools : pc'[q] = "new" => pc[q] = "new"
<1>0. /\ CountersType /\ Pools \subseteq Users /\ Clients \subseteq Users
      /\ pc \in [Users -> ClientStates \cup PoolStates]
      /\ \A u \in Users : pc[u] \in HoldStates => home[held[u]] \in Pools
      /\ "holding" \in HoldStates /\ "querying" \in HoldStates
  BY Basics DEF Users, HoldStates
<1>1. \A p \in Pools : Config[p].initialSize \in Nat /\ Config[p].incrementSize \in Nat
  BY ConfigAssumption DEF ConfigType
<1> DEFINE Counts == /\ connectionsBeingCreatedCount' \in [Pools -> Int]
                     /\ poolSize' \in [Pools -> Int]
           Flags == isOpen' \in [Pools -> BOOLEAN] /\ crashed' \in BOOLEAN
           Older == \A q \in Pools : pc'[q] = "new" => pc[q] = "new"
<1>2. ASSUME NEW p \in Pools, NEW u \in Users, NEW more \in Nat,
             NEW waits \in WaitStates, NEW gets \in HoldStates,
             Connect(u, p, more, waits, gets)
      PROVE  Older /\ connectionsBeingCreatedCount' \in [Pools -> Int]
  <2>1. PICK k \in Nat : IncreasePoolSize(p, k)
    <3>1. more + Config[p].incrementSize \in Nat /\ more + 0 \in Nat /\ more \in Nat
      BY <1>1
    <3> QED
      BY <1>2, <3>1 DEF Connect
  <2>2. connectionsBeingCreatedCount' \in [Pools -> Int]
    BY <1>0, <2>1 DEF IncreasePoolSize, CountersType
  <2>3. PICK new \in WaitStates \cup HoldStates : pc' = [pc EXCEPT ![u] = new]
    BY <1>2 DEF Connect
  <2> QED
    BY <1>0, <2>2, <2>3 DEF WaitStates, HoldStates
<1>3. ASSUME NEW p \in Pools, NEW c, NEW s, NEW h, Connected(p, c, s, h),
             s \in [Users -> ClientStates \cup PoolStates]
      PROVE  \A q \in Pools : pc'[q] = "new" => s[q] = "new"
  BY <1>0, <1>3 DEF Connected
<1>4. ASSUME NEW u \in Users, pc[u] \in HoldStates, NEW after \in {"idle", "ready"},
             NEW style, GiveUp(u, after, style)
      PROVE  Counts /\ Older /\ UNCHANGED <<isOpen, crashed>>
  <2> DEFINE p == home[held[u]]
             s == [pc EXCEPT ![u] = after]
  <2>1. /\ s \in [Users -> ClientStates \cup PoolStates]
        /\ \A q \in Pools : s[q] = "new" => pc[q] = "new"
    BY <1>0 DEF ClientStates, PoolStates
  <2>2. p \in Pools
    BY <1>0, <1>4
  <2>3. CASE Config[p].reuseConnections
    <3>1. /\ Connected(p, held[u], s, [held EXCEPT ![u] = NoConn])
          /\ UNCHANGED <<isOpen, crashed, connectionsBeingCreatedCount, poolSize>>
      BY <1>4, <2>3 DEF GiveUp
    <3> HIDE DEF p, s
    <3>2. Older
      BY <1>3, <2>1, <2>2, <3>1
    <3> QED
      BY <1>0, <3>1, <3>2 DEF CountersType
  <2>4. CASE ~Config[p].reuseConnections
    <3>1. /\ pc' = s /\ UNCHANGED <<isOpen, crashed, poolSize>>
          /\ IncreasePoolSize(p, 1)
      BY <1>4, <2>4 DEF GiveUp
    <3> HIDE DEF p, s
    <3>2. Counts
      BY <1>0, <2>2, <3>1 DEF IncreasePoolSize, CountersType
    <3> QED
      BY <2>1, <3>1, <3>2
  <2> QED
    BY <2>3, <2>4
<1>5. ASSUME NEW p \in Pools, StartPool(p)
      PROVE  Counts /\ Flags /\ Older
  <2>1. "waiting" \in WaitStates /\ "holding" \in HoldStates
    BY DEF WaitStates, HoldStates
  <2>2. Older /\ connectionsBeingCreatedCount' \in [Pools -> Int]
    BY <1>0, <1>1, <1>2, <1>5, <2>1 DEF StartPool
  <2>3. Flags
    BY <1>0, <1>5 DEF StartPool, CountersType
  <2> QED
    BY <1>0, <1>5, <2>2, <2>3 DEF StartPool, CountersType
<1>6. ASSUME NEW p \in Pools, InitReturns(p)
      PROVE  Counts /\ Flags /\ Older
  BY <1>0, <1>6 DEF InitReturns, CountersType
<1>7. ASSUME NEW p \in Pools, InitCloses(p)
      PROVE  Counts /\ Flags /\ Older
  BY <1>0, <1>4, <1>7 DEF InitCloses, CountersType
<1>8. ASSUME NEW p \in Pools, NEW c \in Conns, ConnectSucceeds(p, c)
      PROVE  Counts /\ Flags /\ Older
  <2>1. Older
    BY <1>0, <1>3, <1>8 DEF ConnectSucceeds
  <2> QED
    BY <1>0, <1>8, <2>1 DEF ConnectSucceeds, CountersType
<1>9. ASSUME NEW p \in Pools, ConnectFails(p)
      PROVE  Counts /\ Flags /\ Older
  <2>1. \/ pc' = pc
        \/ \E u, s : s # "new" /\ pc' = [pc EXCEPT ![u] = s]
    BY <1>9 DEF ConnectFails, AfterError
  <2>2. Older
    BY <1>0, <2>1
  <2> QED
    BY <1>0, <1>9, <2>2 DEF ConnectFails, CountersType
<1>10. ASSUME NEW p \in Pools, ConnectFailsUnderQuery(p)
       PROVE  Counts /\ Flags /\ Older
  <2>1. Flags
    BY <1>0, <1>10, Zenon DEF ConnectFailsUnderQuery, CountersType
  <2> QED
    BY <1>0, <1>10, <2>1 DEF ConnectFailsUnderQuery, CountersType
<1>11. ASSUME NEW p \in Pools, NEW style, ClosePool(p, style)
       PROVE  Counts /\ Flags /\ Older
  <2>1. Flags
    BY <1>0, <1>11 DEF ClosePool, CountersType
  <2> QED
    BY <1>0, <1>11, <2>1 DEF ClosePool, CountersType
<1>12. ASSUME NEW u \in Clients, NEW p \in Pools, PoolConnect(u, p) \/ PoolQuery(u, p)
       PROVE  Counts /\ Flags /\ Older
  <2>1. PICK waits \in WaitStates, gets \in HoldStates : Connect(u, p, 0, waits, gets)
    BY <1>12 DEF PoolConnect, PoolQuery, WaitStates, HoldStates
  <2>2. UNCHANGED <<isOpen, poolSize, crashed>>
    BY <1>12 DEF PoolConnect, PoolQuery
  <2> QED
    BY <1>0, <1>2, <2>1, <2>2 DEF CountersType
<1>13. ASSUME NEW u \in Clients, CloseConnection(u) \/ PoolQueryEnds(u)
       PROVE  Counts /\ Flags /\ Older
  BY <1>0, <1>4, <1>13 DEF CloseConnection, PoolQueryEnds, CountersType
<1>14. ASSUME NEW c \in Conns, NativeCloseEnds(c)
       PROVE  Counts /\ Flags /\ Older
  BY <1>0, <1>14, Basics DEF NativeCloseEnds, CountersType
<1>15. ASSUME UNCHANGED poolVars
       PROVE  Counts /\ Flags /\ Older
  BY <1>0, <1>15 DEF poolVars, CountersType
<1>16. Counts /\ Flags /\ Older
  BY <1>5, <1>6, <1>7, <1>8, <1>9, <1>10, <1>11, <1>12, <1>13, <1>14, <1>15
     DEF Next, PoolStep, ClientStep, QueueContinues, vars
<1> QED
  BY <1>16 DEF CountersType

\* A pool whose counters only shrink, and that does not become new, stays in size.
LEMMA SizeShrinks ==
  ASSUME NEW y \in [Pools -> Int], NEW k \in [Pools -> Int], NEW s,
         NEW z \in [Pools -> Int], NEW l \in [Pools -> Int], NEW r,
         SizeOf(y, k, s),
         \A p \in Pools : Config[p].reuseConnections => z[p] + l[p] <= y[p] + k[p],
         \A p \in Pools : r[p] = "new" => s[p] = "new"
  PROVE  SizeOf(z, l, r)
  <1>1. \A p \in Pools : Config[p].maxSize \in Nat
    BY ConfigAssumption DEF ConfigType
  <1> QED
    BY <1>1 DEF SizeOf

\* A reusing pool asks for more connections only in its constructor and where
\* connect() has compared what there will be with maxSize.
LEMMA SizeStep ==
  ASSUME IInv, [Next]_vars
  PROVE  SizeInv'
<1> DEFINE y == poolSize
           k == connectionsBeingCreatedCount
<1>0. /\ SizeOf(y, k, pc)
      /\ y \in [Pools -> Int] /\ k \in [Pools -> Int]
      /\ home \in [Conns -> Pools]
      /\ \A u \in Users : pc[u] \in HoldStates => home[held[u]] \in Pools
      /\ Pools \subseteq Users /\ Clients \subseteq Users
      /\ "holding" \in HoldStates /\ "querying" \in HoldStates
  BY Basics DEF Users, HoldStates, CountersType, IInv, SizeInv
<1>1. /\ y' \in [Pools -> Int] /\ k' \in [Pools -> Int]
      /\ \A p \in Pools : pc'[p] = "new" => pc[p] = "new"
  BY CountersStep DEF CountersType
<1>2. \A p \in Pools : /\ Config[p].initialSize \in Nat /\ Config[p].incrementSize \in Nat
                       /\ Config[p].maxSize \in Nat
  BY ConfigAssumption DEF ConfigType
<1>3. ASSUME \A p \in Pools : Config[p].reuseConnections => y'[p] + k'[p] <= y[p] + k[p]
      PROVE  SizeInv'
  BY <1>0, <1>1, <1>3, SizeShrinks DEF SizeInv
<1>4. ASSUME UNCHANGED <<poolSize, connectionsBeingCreatedCount>>
      PROVE  SizeInv'
  <2>1. y' = y /\ k' = k
    BY <1>4
  <2> HIDE DEF y, k
  <2> QED
    BY <1>0, <1>3, <2>1
<1>5. ASSUME NEW p \in Pools, NEW u, NEW more \in Nat, NEW waits, NEW gets,
             Connect(u, p, more, waits, gets), poolSize' = poolSize,
             \/ more = 0 /\ pc[p] = "ready"
             \/ more = Config[p].initialSize /\ pc[p] = "new" /\ pc'[p] # "new"
      PROVE  SizeInv'
  <2>1. PICK n \in Nat : /\ k' = [k EXCEPT ![p] = @ + n]
                         /\ \/ n = more
                            \/ y[p] + (k[p] + more) + Config[p].incrementSize <= Config[p].maxSize
                               /\ n = more + Config[p].incrementSize
    <3>1. more + Config[p].incrementSize \in Nat /\ more + 0 = more
      BY <1>2
    <3>2. PICK n : /\ IncreasePoolSize(p, n)
                   /\ \/ n = more
                      \/ GrowthNeeded(p, more) /\ n = more + Config[p].incrementSize
      BY <1>5, <3>1 DEF Connect
    <3>3. n \in Nat
      BY <3>1, <3>2
    <3>4. k' = [k EXCEPT ![p] = @ + n]
      BY <3>2 DEF IncreasePoolSize
    <3>5. GrowthNeeded(p, more) =>
            y[p] + (k[p] + more) + Config[p].incrementSize <= Config[p].maxSize
      BY DEF GrowthNeeded
    <3> QED
      BY <3>2, <3>3, <3>4, <3>5
  <2>2. PICK l : l = k'
    OBVIOUS
  <2>3. PICK r : r = pc'
    OBVIOUS
  <2> HIDE DEF y, k
  <2>4. /\ \A q \in Pools : l[q] = IF q = p THEN k[p] + n ELSE k[q]
        /\ \A q \in Pools : r[q] = "new" => pc[q] = "new"
        /\ y[p] \in Int /\ k[p] \in Int
    BY <1>0, <1>1, <2>1, <2>2, <2>3
  <2>5. ASSUME NEW q \in Pools,
               Config[q].reuseConnections, Config[q].initialSize <= Config[q].maxSize
        PROVE  y[q] + l[q] <= Config[q].maxSize /\ (r[q] = "new" => y[q] + l[q] <= 0)
    <3>1. /\ y[q] + k[q] <= Config[q].maxSize
          /\ r[q] = "new" => y[q] + k[q] <= 0
      BY <1>0, <2>4, <2>5 DEF SizeOf
    <3>2. CASE q # p
      BY <2>4, <3>1, <3>2
    <3>3. CASE q = p /\ more = 0 /\ pc[p] = "ready"
      <4>1. l[p] = k[p] + n /\ r[p] # "new"
        BY <2>4, <3>3
      <4>2. n = 0 \/ y[p] + k[p] + n <= Config[p].maxSize
        BY <1>2, <2>1, <2>4, <3>3
      <4> QED
        BY <1>2, <2>4, <3>1, <3>3, <4>1, <4>2
    <3>4. CASE q = p /\ more = Config[p].initialSize /\ pc[p] = "new" /\ r[p] # "new"
      <4>1. y[p] + k[p] <= 0
        BY <1>0, <2>5, <3>4 DEF SizeOf
      <4> QED
        BY <1>2, <2>1, <2>4, <2>5, <3>4, <4>1
    <3> QED
      BY <1>5, <2>3, <3>2, <3>3, <3>4
  <2>6. SizeOf(y, l, r)
    BY <2>5 DEF SizeOf
  <2> QED
    BY <1>5, <2>2, <2>3, <2>6 DEF SizeInv, y, k
<1>6. ASSUME NEW u \in Users, pc[u] \in HoldStates, NEW after, NEW style,
             GiveUp(u, after, style)
      PROVE  SizeInv'
  <2>1. CASE Config[home[held[u]]].reuseConnections
    BY <1>4, <1>6, <2>1 DEF GiveUp
  <2>2. CASE ~Config[home[held[u]]].reuseConnections
    <3>1. k' = [k EXCEPT ![home[held[u]]] = @ + 1] /\ y' = y
      BY <1>6, <2>2 DEF GiveUp, IncreasePoolSize
    <3> HIDE DEF y, k
    <3>2. \A p \in Pools : Config[p].reuseConnections => k'[p] = k[p]
      BY <1>0, <2>2, <3>1
    <3> QED
      BY <1>0, <1>3, <3>1, <3>2
  <2> QED
    BY <2>1, <2>2
<1>7. ASSUME NEW p \in Pools, StartPool(p)
      PROVE  SizeInv'
  <2>1. /\ Connect(p, p, Config[p].initialSize, "waiting", "holding")
        /\ pc[p] = "new" /\ poolSize' = poolSize
    BY <1>7 DEF StartPool
  <2>2. pc'[p] # "new"
    <3>1. pc' = [pc EXCEPT ![p] = "waiting"] \/ pc' = [pc EXCEPT ![p] = "holding"]
      BY <2>1 DEF Connect
    <3> QED
      BY <1>0, <3>1, Basics
  <2> QED
    BY <1>2, <1>5, <2>1, <2>2
<1>8. ASSUME NEW p \in Pools,
             \/ InitReturns(p) \/ ConnectFails(p) \/ ConnectFailsUnderQuery(p)
             \/ \E style \in Styles : ClosePool(p, style)
      PROVE  SizeInv'
  BY <1>4, <1>8 DEF InitReturns, ConnectFails, ConnectFailsUnderQuery, ClosePool
<1>9. ASSUME NEW p \in Pools, InitCloses(p)
      PROVE  SizeInv'
  BY <1>0, <1>6, <1>9 DEF InitCloses
<1>10. ASSUME NEW p \in Pools, NEW c \in Conns, ConnectSucceeds(p, c)
       PROVE  SizeInv'
  <2>1. k' = [k EXCEPT ![p] = @ - 1] /\ y' = [y EXCEPT ![p] = @ + 1]
    BY <1>10 DEF ConnectSucceeds
  <2> HIDE DEF y, k
  <2>2. \A q \in Pools : y'[q] + k'[q] <= y[q] + k[q]
    BY <1>0, <2>1
  <2> QED
    BY <1>3, <2>2
<1>11. ASSUME NEW u \in Clients, NEW p \in Pools, PoolConnect(u, p) \/ PoolQuery(u, p)
       PROVE  SizeInv'
  <2>1. /\ 0 \in Nat /\ pc[p] = "ready" /\ poolSize' = poolSize
        /\ \E waits, gets : Connect(u, p, 0, waits, gets)
    BY <1>11 DEF PoolConnect, PoolQuery
  <2> QED
    BY <1>5, <2>1
<1>12. ASSUME NEW u \in Clients, CloseConnection(u) \/ PoolQueryEnds(u)
       PROVE  SizeInv'
  BY <1>0, <1>6, <1>12 DEF CloseConnection, PoolQueryEnds
<1>13. ASSUME NEW c \in Conns, NativeCloseEnds(c)
       PROVE  SizeInv'
  <2>1. k' = k /\ (y' = y \/ y' = [y EXCEPT ![home[c]] = @ - 1])
    BY <1>13 DEF NativeCloseEnds
  <2> HIDE DEF y, k
  <2>2. \A q \in Pools : y'[q] + k'[q] <= y[q] + k[q]
    BY <1>0, <2>1
  <2> QED
    BY <1>3, <2>2
<1>14. ASSUME UNCHANGED poolVars
       PROVE  SizeInv'
  BY <1>4, <1>14 DEF poolVars
<1> QED
  BY <1>7, <1>8, <1>9, <1>10, <1>11, <1>12, <1>13, <1>14
     DEF Next, PoolStep, ClientStep, QueueContinues, vars

-----------------------------------------------------------------------------
(* The theorems.                                                           *)

\* IInv is inductive.
THEOREM Inductive == Spec => []IInv
<1>1. IInv /\ [Next]_vars => IInv'
  BY PlacesStep, QueueStep, CountersStep, SizeStep DEF IInv
<1> QED
  BY InitIInv, <1>1, PTL DEF Spec

\* Every variable stays in its type, whatever the pools are configured to do.
THEOREM TypeCorrect == Spec => []TypeOK
<1>1. IInv => TypeOK
  BY DEF IInv, QueueInv, CountersType, PlacesNow, Places, PlacesType, TypeOK
<1> QED
  BY Inductive, <1>1, PTL

\* A slot in use is an attempt's that will give it back: none is lost (Pool.js:40-60).
THEOREM SlotsNeverLost == Spec => []SlotsAccounted
<1>1. IInv => SlotsAccounted
  BY DEF IInv, QueueInv
<1> QED
  BY Inductive, <1>1, PTL

\* As long as no pool sets the limit to 0, the queue never strands what was asked
\* of it: while attempts are queued, an attempt whose end will call dequeue()
\* holds a slot (Pool.js:40-60).
THEOREM QueueSafe ==
  ASSUME LimitsPositive
  PROVE  Spec => []QueueNeverStalls
<1>1. IInv => QueueNeverStalls
  BY DEF IInv, QueueInv
<1> QED
  BY Inductive, <1>1, PTL

\* Nobody waits on a pool that has a free connection (Pool.js:78-109, 200-263).
THEOREM NoIdleWhileWaiting == Spec => []NoIdleConnection
<1>1. IInv => NoIdleConnection
  BY DEF IInv, PlacesNow, Places, NoIdleConnection
<1> QED
  BY Inductive, <1>1, PTL

\* No connection is lent twice, nor lent and free, nor closed while it is either.
THEOREM LentOnce == Spec => []OneBorrower
<1>1. IInv => OneBorrower
  BY DEF IInv, PlacesNow, Places, HeldInv, FreeInv, OneBorrower
<1> QED
  BY Inductive, <1>1, PTL

\* A reusing pool whose initialSize is within maxSize never outgrows it.
THEOREM StaysInSize == Spec => []SizeBound
<1>1. IInv => SizeBound
  BY DEF IInv, SizeInv, SizeOf, SizeBound
<1> QED
  BY Inductive, <1>1, PTL

-----------------------------------------------------------------------------
(* The pools implement module Lending: the line is the waiting work of the *)
(* pool, what is lent is what users hold. The rest of module Pool (the     *)
(* queue, the counters, the native connections) its users do not see.      *)

\* A step of Lending, or one that Lending does not see.
LendingStep == [Promise!LendingNext]_(Promise!lendingVars)

\* Initially nobody waits and nothing is lent.
LEMMA LendingStarts == Init => Promise!LendingInit
  BY DEF Init, Promise!LendingInit

\* connect() joins the line, or is served at once when nobody is in it.
LEMMA ConnectLends ==
  ASSUME PlacesNow, NEW u \in Users, NEW p \in Pools,
         NEW more, NEW waits \in WaitStates, NEW gets \in HoldStates,
         \/ u \in Clients /\ pc[u] = "idle" /\ pc[p] = "ready"
         \/ u = p /\ pc[p] = "new",
         u \in Pools => waits = "waiting" /\ gets = "holding",
         Connect(u, p, more, waits, gets)
  PROVE  LendingStep
<1>1. waitingConnectionWork \in [Pools -> Seq(Users)]
  BY DEF PlacesNow, Places, PlacesType
<1>2. ASSUME \A q \in Pools : u \notin ToSet(waitingConnectionWork[q])
      PROVE  ~Promise!Waits(u)
  <2>1. \A q \in Pools : DOMAIN waitingConnectionWork[q] = 1..Len(waitingConnectionWork[q])
    BY <1>1, LenProperties
  <2> QED
    BY <1>2, <2>1 DEF Promise!Waits, ToSet
<1>3. CASE freeConnections[p] = <<>>
  <2>1. held[u] = NoConn /\ \A q \in Pools : u \notin ToSet(waitingConnectionWork[q])
    BY AskerHasNothing DEF PlacesNow
  <2>2. /\ waitingConnectionWork' = [waitingConnectionWork EXCEPT ![p] = Append(@, u)]
        /\ held' = held
    BY <1>3 DEF Connect
  <2>3. Promise!Ask(p, u)
    BY <1>2, <2>1, <2>2 DEF Promise!Ask
  <2> QED
    BY <2>3 DEF LendingStep, Promise!LendingNext
<1>4. CASE freeConnections[p] # <<>>
  <2> DEFINE c == Last(freeConnections[p])
  <2>1. /\ held[u] = NoConn
        /\ \A q \in Pools : u \notin ToSet(waitingConnectionWork[q])
    BY AskerHasNothing DEF PlacesNow
  <2>2. /\ waitingConnectionWork[p] = <<>>
        /\ c \in Conns /\ \A x \in Users : held[x] # c
    BY <1>4, FreeIsAvailable DEF PlacesNow
  <2>3. held' = [held EXCEPT ![u] = c] /\ waitingConnectionWork' = waitingConnectionWork
    BY <1>4 DEF Connect
  <2> HIDE DEF c
  <2>4. Promise!LendAtOnce(p, u, c)
    BY <1>2, <2>1, <2>2, <2>3 DEF Promise!LendAtOnce, Promise!Available
  <2> QED
    BY <2>2, <2>4 DEF LendingStep, Promise!LendingNext
<1> QED
  BY <1>3, <1>4

\* close() of a pooled connection brings it back; the first in line, if there is
\* one and the pool reuses connections, has it in the same step.
LEMMA GiveUpLends ==
  ASSUME PlacesNow, NEW u \in Users, pc[u] \in HoldStates,
         NEW after, NEW style, GiveUp(u, after, style)
  PROVE  LendingStep
<1> DEFINE p == home[held[u]]
<1>1. /\ held[u] # NoConn /\ held[u] \in Conns /\ p \in Pools
      /\ held \in [Users -> Conns \cup {NoConn}]
  BY DEF PlacesNow, Places, PlacesType, HeldInv
<1>2. ASSUME held' = [held EXCEPT ![u] = NoConn],
             waitingConnectionWork' = waitingConnectionWork
      PROVE  LendingStep
  <2>1. Promise!Return(u)
    BY <1>1, <1>2 DEF Promise!Return
  <2> QED
    BY <2>1 DEF LendingStep, Promise!LendingNext
<1>3. CASE Config[p].reuseConnections
  <2>1. Connected(p, held[u], [pc EXCEPT ![u] = after], [held EXCEPT ![u] = NoConn])
    BY <1>3 DEF GiveUp
  <2>2. CASE waitingConnectionWork[p] = <<>>
    BY <1>2, <2>1, <2>2 DEF Connected
  <2>3. CASE waitingConnectionWork[p] # <<>>
    <3>1. /\ waitingConnectionWork' = [waitingConnectionWork EXCEPT ![p] = Tail(@)]
          /\ held' = [[held EXCEPT ![u] = NoConn]
                        EXCEPT ![Head(waitingConnectionWork[p])] = held[u]]
      BY <2>1, <2>3 DEF Connected
    <3>2. Promise!HandOver(p, u)
      BY <1>1, <2>3, <3>1 DEF Promise!HandOver
    <3> QED
      BY <1>1, <3>2 DEF LendingStep, Promise!LendingNext
  <2> QED
    BY <2>2, <2>3
<1>4. CASE ~Config[p].reuseConnections
  BY <1>2, <1>4 DEF GiveUp
<1> QED
  BY <1>3, <1>4

\* Every step of the pools is a step of Lending or one that Lending does not see.
LEMMA StepLends ==
  ASSUME IInv, [Next]_vars
  PROVE  LendingStep
<1>0. /\ PlacesNow
      /\ Pools \subseteq Users /\ Clients \subseteq Users
      /\ "waiting" \in WaitStates /\ "waitingQuery" \in WaitStates
      /\ "holding" \in HoldStates /\ "querying" \in HoldStates
  BY Basics DEF Users, WaitStates, HoldStates
<1>1. ASSUME UNCHANGED <<waitingConnectionWork, held>>
      PROVE  LendingStep
  BY <1>1 DEF LendingStep, Promise!lendingVars
<1>2. ASSUME NEW p \in Pools, StartPool(p)
      PROVE  LendingStep
  BY <1>0, <1>2, ConnectLends DEF StartPool
<1>3. ASSUME NEW p \in Pools, InitReturns(p)
      PROVE  LendingStep
  <2>1. held[p] # NoConn
    BY <1>0, <1>3 DEF InitReturns, PlacesNow, Places, HeldInv
  <2>2. Promise!Return(p)
    BY <1>3, <2>1 DEF InitReturns, Promise!Return
  <2> QED
    BY <1>0, <2>2 DEF LendingStep, Promise!LendingNext
<1>4. ASSUME NEW p \in Pools, InitCloses(p)
      PROVE  LendingStep
  BY <1>0, <1>4, GiveUpLends DEF InitCloses
<1>5. ASSUME NEW p \in Pools, NEW c \in Conns, ConnectSucceeds(p, c)
      PROVE  LendingStep
  <2>1. native[c] = "none" /\ Connected(p, c, pc, held)
    BY <1>5 DEF ConnectSucceeds
  <2>2. CASE waitingConnectionWork[p] = <<>>
    BY <1>1, <2>1, <2>2 DEF Connected
  <2>3. CASE waitingConnectionWork[p] # <<>>
    <3>1. /\ waitingConnectionWork' = [waitingConnectionWork EXCEPT ![p] = Tail(@)]
          /\ held' = [held EXCEPT ![Head(waitingConnectionWork[p])] = c]
      BY <2>1, <2>3 DEF Connected
    <3>2. \A u \in Users : held[u] # c
      BY <1>0, <2>1, NoConnAssumption DEF PlacesNow, Places, HeldInv
    <3>3. Promise!Serve(p, c)
      BY <2>3, <3>1, <3>2 DEF Promise!Serve, Promise!Available
    <3> QED
      BY <3>3 DEF LendingStep, Promise!LendingNext
  <2> QED
    BY <2>2, <2>3
<1>6. ASSUME NEW p \in Pools, ConnectFails(p)
      PROVE  LendingStep
  <2>1. CASE waitingConnectionWork[p] = <<>>
    BY <1>1, <1>6, <2>1 DEF ConnectFails
  <2>2. CASE waitingConnectionWork[p] # <<>>
    <3>1. Promise!Refuse(p)
      BY <1>6, <2>2 DEF ConnectFails, Promise!Refuse
    <3> QED
      BY <3>1 DEF LendingStep, Promise!LendingNext
  <2> QED
    BY <2>1, <2>2
<1>7. ASSUME NEW p \in Pools,
             ConnectFailsUnderQuery(p) \/ \E style \in Styles : ClosePool(p, style)
      PROVE  LendingStep
  BY <1>1, <1>7 DEF ConnectFailsUnderQuery, ClosePool
<1>8. ASSUME NEW u \in Clients, NEW p \in Pools, PoolConnect(u, p) \/ PoolQuery(u, p)
      PROVE  LendingStep
  <2>1. u \notin Pools
    BY UsersAssumption
  <2> QED
    BY <1>0, <1>8, <2>1, ConnectLends DEF PoolConnect, PoolQuery
<1>9. ASSUME NEW u \in Clients, CloseConnection(u) \/ PoolQueryEnds(u)
      PROVE  LendingStep
  BY <1>0, <1>9, GiveUpLends DEF CloseConnection, PoolQueryEnds
<1>10. ASSUME NEW c \in Conns, NativeCloseEnds(c)
       PROVE  LendingStep
  BY <1>1, <1>10 DEF NativeCloseEnds
<1>11. ASSUME UNCHANGED poolVars
       PROVE  LendingStep
  BY <1>1, <1>11 DEF poolVars
<1> QED
  BY <1>2, <1>3, <1>4, <1>5, <1>6, <1>7, <1>8, <1>9, <1>10, <1>11
     DEF Next, PoolStep, ClientStep, QueueContinues, vars

\* What users see of the pools is what Lending allows: one line per pool served in
\* order, and a connection with one user at a time (Pool.js:78-131, 200-263, 422-450).
THEOREM ImplementsLending == Spec => KeepsPromise
<1>1. IInv /\ [Next]_vars => [Promise!LendingNext]_(Promise!lendingVars)
  BY StepLends DEF LendingStep
<1> QED
  BY Inductive, LendingStarts, <1>1, PTL DEF Spec, KeepsPromise, Promise!LendingSpec


-----------------------------------------------------------------------------
(* No connection is lost while pools are not closed with callbacks: the    *)
(* callback form of close() drops the free connections without closing     *)
(* them (Pool.js:330, 350), and then nobody can close them any more.       *)

\* c can still be closed: it is free in its pool, or a user has it.
Reachable(c, f, h, o) ==
    \/ c \in ToSet(f[o[c]])
    \/ \E u \in Users : h[u] = c

NoneLost(f, h, n, o) == \A c \in Conns : n[c] = "open" => Reachable(c, f, h, o)

NoneLostNow == NoneLost(freeConnections, held, native, home)

\* Nobody closes a pool, or closing one closes its free connections.
FreeOnesClosed == Closable = {} \/ "callback" \notin Styles

\* The 'connected' handler finds a place for the connection it is given, and
\* takes none from anybody.
LEMMA ConnectedReaches ==
  ASSUME NEW s, NEW h, NEW n, NEW o, NEW p \in Pools, NEW c,
         Places(waitingConnectionWork, freeConnections, s, h, n, o),
         Loose(c, p, freeConnections, h, n, o),
         \A x \in Conns : n[x] = "open" /\ x # c => Reachable(x, freeConnections, h, o),
         Connected(p, c, s, h)
  PROVE  NoneLost(freeConnections', held', n, o)
<1>1. /\ c \in Conns /\ o[c] = p /\ c \notin ToSet(freeConnections[p])
      /\ freeConnections \in [Pools -> Seq(Conns)] /\ freeConnections[p] \in Seq(Conns)
      /\ IsInjective(freeConnections[p])
      /\ h \in [Users -> Conns \cup {NoConn}]
      /\ o \in [Conns -> Pools]
  BY DEF Loose, Places, PlacesType, FreeInv
<1>2. CASE waitingConnectionWork[p] = <<>>
  <2>1. freeConnections' = [freeConnections EXCEPT ![p] = Append(@, c)] /\ held' = h
    BY <1>2 DEF Connected
  <2>2. ToSet(Append(freeConnections[p], c)) = ToSet(freeConnections[p]) \cup {c}
    BY <1>1, PushSet
  <2>3. /\ freeConnections'[p] = Append(freeConnections[p], c)
        /\ \A q \in Pools : q # p => freeConnections'[q] = freeConnections[q]
    BY <1>1, <2>1
  <2>4. \A q \in Pools : ToSet(freeConnections[q]) \subseteq ToSet(freeConnections'[q])
    BY <2>2, <2>3
  <2>5. Reachable(c, freeConnections', held', o)
    BY <1>1, <2>2, <2>3 DEF Reachable
  <2>6. \A x \in Conns : Reachable(x, freeConnections, h, o)
                            => Reachable(x, freeConnections', held', o)
    BY <1>1, <2>1, <2>4 DEF Reachable
  <2> QED
    BY <2>5, <2>6 DEF NoneLost
<1>3. CASE waitingConnectionWork[p] # <<>>
  <2>1. PICK u : u = Head(waitingConnectionWork[p])
    OBVIOUS
  <2>2. held' = [h EXCEPT ![u] = c] /\ freeConnections' = freeConnections
    BY <1>3, <2>1 DEF Connected
  <2>3. waitingConnectionWork[p] \in Seq(Users)
    BY DEF Places, PlacesType
  <2>4. u \in ToSet(waitingConnectionWork[p]) /\ u \in Users
    BY <1>3, <2>1, <2>3, SeqSet
  <2>5. s[u] \in WaitStates
    BY <2>4 DEF Places, LinesInv
  <2>6. h[u] = NoConn
    BY <2>4, <2>5 DEF Places, HeldInv, WaitStates, HoldStates
  <2>7. \A x \in Users : held'[x] = IF x = u THEN c ELSE h[x]
    BY <1>1, <2>2
  <2>8. Reachable(c, freeConnections', held', o)
    BY <2>4, <2>7 DEF Reachable
  <2>9. \A x \in Conns : Reachable(x, freeConnections, h, o)
                            => Reachable(x, freeConnections', held', o)
    BY <2>2, <2>6, <2>7, NoConnAssumption DEF Reachable
  <2> QED
    BY <2>8, <2>9 DEF NoneLost
<1> QED
  BY <1>2, <1>3

\* connect() moves a connection from the free ones to the caller, or none.
LEMMA ConnectReaches ==
  ASSUME PlacesNow, NoneLostNow, NEW u \in Users, NEW p \in Pools,
         NEW more, NEW waits, NEW gets, pc[u] \in {"idle", "new"},
         Connect(u, p, more, waits, gets), UNCHANGED <<native, home>>
  PROVE  NoneLostNow'
<1>1. CASE freeConnections[p] = <<>>
  BY <1>1 DEF Connect, NoneLostNow, NoneLost, Reachable
<1>2. CASE freeConnections[p] # <<>>
  <2>1. PICK c : c = Last(freeConnections[p])
    OBVIOUS
  <2>2. /\ held' = [held EXCEPT ![u] = c]
        /\ freeConnections' = [freeConnections EXCEPT ![p] = Front(@)]
    BY <1>2, <2>1 DEF Connect
  <2>3. /\ freeConnections \in [Pools -> Seq(Conns)] /\ freeConnections[p] \in Seq(Conns)
        /\ IsInjective(freeConnections[p])
        /\ held \in [Users -> Conns \cup {NoConn}]
        /\ home \in [Conns -> Pools]
    BY DEF PlacesNow, Places, PlacesType, FreeInv
  <2>4. held[u] = NoConn
    BY AskerHasNothing DEF PlacesNow
  <2>5. ToSet(Front(freeConnections[p])) = ToSet(freeConnections[p]) \ {c}
    BY <1>2, <2>1, <2>3, FrontSet
  <2>6. /\ freeConnections'[p] = Front(freeConnections[p])
        /\ \A q \in Pools : q # p => freeConnections'[q] = freeConnections[q]
        /\ \A x \in Users : held'[x] = IF x = u THEN c ELSE held[x]
    BY <2>2, <2>3
  <2>7. ASSUME NEW x \in Conns, Reachable(x, freeConnections, held, home)
        PROVE  Reachable(x, freeConnections', held', home)
    <3>1. CASE x = c
      BY <2>6, <3>1 DEF Reachable
    <3>2. CASE x # c /\ x \in ToSet(freeConnections[home[x]])
      <4>1. home[x] \in Pools
        BY <2>3
      <4>2. x \in ToSet(freeConnections'[home[x]])
        BY <2>5, <2>6, <3>2, <4>1
      <4> QED
        BY <4>2 DEF Reachable
    <3>3. CASE \E v \in Users : held[v] = x
      BY <2>4, <2>6, <3>3, NoConnAssumption DEF Reachable
    <3> QED
      BY <2>7, <3>1, <3>2, <3>3 DEF Reachable
  <2>8. native' = native /\ home' = home
    OBVIOUS
  <2> QED
    BY <2>7, <2>8 DEF NoneLostNow, NoneLost
<1> QED
  BY <1>1, <1>2

\* close() hands the connection on, frees it, or closes it.
LEMMA GiveUpReaches ==
  ASSUME PlacesNow, NoneLostNow, NEW u \in Users, pc[u] \in HoldStates,
         NEW after, u \in Pools => after = "ready", u \notin Pools => after = "idle",
         NEW style, GiveUp(u, after, style)
  PROVE  NoneLostNow'
<1> DEFINE c == held[u]
           p == home[c]
           s == [pc EXCEPT ![u] = after]
           h == [held EXCEPT ![u] = NoConn]
<1>1. /\ Places(waitingConnectionWork, freeConnections, s, h, native, home)
      /\ Loose(c, p, freeConnections, h, native, home)
      /\ p \in Pools
  BY GivesUp DEF PlacesNow
<1>2. /\ held \in [Users -> Conns \cup {NoConn}]
      /\ native \in [Conns -> NativeStates]
  BY DEF PlacesNow, Places, PlacesType
<1>3. \A x \in Users : h[x] = IF x = u THEN NoConn ELSE held[x]
  BY <1>2
<1>4. \A x \in Conns : native[x] = "open" /\ x # c => Reachable(x, freeConnections, h, home)
  BY <1>3 DEF NoneLostNow, NoneLost, Reachable
<1> HIDE DEF s, h
<1>5. CASE Config[p].reuseConnections
  <2>1. Connected(p, c, s, h) /\ UNCHANGED <<native, home>>
    BY <1>5 DEF GiveUp, s, h
  <2>2. NoneLost(freeConnections', held', native, home)
    BY <1>1, <1>4, <2>1, ConnectedReaches
  <2> QED
    BY <2>1, <2>2 DEF NoneLostNow
<1>6. CASE ~Config[p].reuseConnections
  <2>1. PICK new \in {"closing", "closingUncounted"} : native' = [native EXCEPT ![c] = new]
    BY <1>6 DEF GiveUp
  <2>2. held' = h /\ UNCHANGED <<freeConnections, home>>
    BY <1>6 DEF GiveUp, h
  <2>3. \A x \in Conns : native'[x] = IF x = c THEN new ELSE native[x]
    BY <1>2, <2>1
  <2> HIDE DEF c, p
  <2>4. \A x \in Conns : native'[x] = "open" => Reachable(x, freeConnections, h, home)
    BY <1>4, <2>3
  <2> QED
    BY <2>2, <2>4 DEF NoneLostNow, NoneLost
<1> QED
  BY <1>5, <1>6

\* Every step leaves each open connection where somebody can close it.
LEMMA NoneLostStep ==
  ASSUME FreeOnesClosed, IInv, NoneLostNow, [Next]_vars
  PROVE  NoneLostNow'
<1>0. /\ PlacesNow
      /\ held \in [Users -> Conns \cup {NoConn}]
      /\ native \in [Conns -> NativeStates] /\ home \in [Conns -> Pools]
      /\ Pools \subseteq Users /\ Clients \subseteq Users
  BY Basics DEF Users
<1>1. ASSUME UNCHANGED <<freeConnections, held, native, home>>
      PROVE  NoneLostNow'
  BY <1>1 DEF NoneLostNow, NoneLost, Reachable
<1>2. ASSUME NEW p \in Pools, StartPool(p)
      PROVE  NoneLostNow'
  <2>1. /\ pc[p] = "new" /\ UNCHANGED <<native, home>>
        /\ Connect(p, p, Config[p].initialSize, "waiting", "holding")
    BY <1>2 DEF StartPool
  <2> QED
    BY <1>0, <2>1, ConnectReaches
<1>3. ASSUME NEW p \in Pools, InitReturns(p)
      PROVE  NoneLostNow'
  <2> DEFINE c == held[p]
  <2>1. /\ pc[p] \in HoldStates
        /\ held' = [held EXCEPT ![p] = NoConn]
        /\ freeConnections' = [freeConnections EXCEPT ![p] = Cons(c, @)]
        /\ native' = native /\ home' = home
    BY <1>3 DEF InitReturns, HoldStates
  <2>2. Places(waitingConnectionWork, freeConnections, pc, held, native, home)
    BY <1>0 DEF PlacesNow
  <2>3. home[c] = p
    BY <1>0, <2>1, <2>2, InitHolds
  <2>4. Loose(c, p, freeConnections, [held EXCEPT ![p] = NoConn], native, home)
    <3>1. p \in Users
      BY <1>0
    <3> QED
      BY <2>1, <2>2, <2>3, <3>1, GivesUp
  <2>5. /\ c \in Conns /\ c \notin ToSet(freeConnections[p])
        /\ freeConnections \in [Pools -> Seq(Conns)] /\ freeConnections[p] \in Seq(Conns)
        /\ IsInjective(freeConnections[p])
    BY <2>2, <2>4 DEF Loose, Places, PlacesType, FreeInv
  <2> HIDE DEF c
  <2>6. ToSet(Cons(c, freeConnections[p])) = ToSet(freeConnections[p]) \cup {c}
    BY <2>5, PushSet
  <2>7. /\ freeConnections'[p] = Cons(c, freeConnections[p])
        /\ \A q \in Pools : q # p => freeConnections'[q] = freeConnections[q]
        /\ \A x \in Users : held'[x] = IF x = p THEN NoConn ELSE held[x]
    BY <1>0, <2>1, <2>5
  <2>8. \A x \in Conns : Reachable(x, freeConnections, held, home)
                            => Reachable(x, freeConnections', held', home)
    <3>1. \A q \in Pools : ToSet(freeConnections[q]) \subseteq ToSet(freeConnections'[q])
      BY <2>6, <2>7
    <3>2. Reachable(c, freeConnections', held', home)
      BY <2>3, <2>6, <2>7 DEF Reachable
    <3>3. ASSUME NEW x \in Conns, x # c, Reachable(x, freeConnections, held, home)
          PROVE  Reachable(x, freeConnections', held', home)
      BY <1>0, <2>7, <3>1, <3>3 DEF Reachable, c
    <3> QED
      BY <3>2, <3>3
  <2> QED
    BY <2>1, <2>8 DEF NoneLostNow, NoneLost
<1>4. ASSUME NEW p \in Pools, InitCloses(p)
      PROVE  NoneLostNow'
  BY <1>0, <1>4, GiveUpReaches DEF InitCloses, HoldStates
<1>5. ASSUME NEW p \in Pools, NEW c \in Conns, ConnectSucceeds(p, c)
      PROVE  NoneLostNow'
  <2>1. PICK n, o : n = native' /\ o = home'
    OBVIOUS
  <2>2. /\ native[c] = "none"
        /\ n = [native EXCEPT ![c] = "open"]
        /\ o = [home EXCEPT ![c] = p]
        /\ Connected(p, c, pc, held)
    BY <1>5, <2>1 DEF ConnectSucceeds
  <2>3. /\ n \in [Conns -> NativeStates] /\ o \in [Conns -> Pools]
        /\ n[c] = "open" /\ o[c] = p
        /\ \A x \in Conns : x # c => n[x] = native[x] /\ o[x] = home[x]
    BY <1>0, <2>2 DEF NativeStates
  <2>4. Places(waitingConnectionWork, freeConnections, pc, held, n, o)
    BY <1>0, <2>2, <2>3, NativeMoves DEF PlacesNow
  <2>5. Loose(c, p, freeConnections, held, n, o)
    <3>1. \A q \in Pools : c \notin ToSet(freeConnections[q])
      BY <1>0, <2>2 DEF PlacesNow, Places, FreeInv
    <3>2. \A u \in Users : held[u] # c
      BY <1>0, <2>2, NoConnAssumption DEF PlacesNow, Places, HeldInv
    <3> QED
      BY <2>3, <3>1, <3>2 DEF Loose
  <2>6. \A x \in Conns : n[x] = "open" /\ x # c => Reachable(x, freeConnections, held, o)
    BY <2>3 DEF NoneLostNow, NoneLost, Reachable
  <2>7. NoneLost(freeConnections', held', n, o)
    BY <2>2, <2>4, <2>5, <2>6, ConnectedReaches
  <2> QED
    BY <2>1, <2>7 DEF NoneLostNow
<1>6. ASSUME NEW p \in Pools, ConnectFails(p) \/ ConnectFailsUnderQuery(p)
      PROVE  NoneLostNow'
  BY <1>1, <1>6 DEF ConnectFails, ConnectFailsUnderQuery
<1>7. ASSUME NEW p \in Pools, NEW style \in Styles, ClosePool(p, style)
      PROVE  NoneLostNow'
  <2>1. style = "promise"
    BY <1>7, OptionsAssumption DEF ClosePool, FreeOnesClosed
  <2>2. /\ freeConnections' = [freeConnections EXCEPT ![p] = <<>>]
        /\ native' = [c \in Conns |-> IF c \in ToSet(freeConnections[p]) THEN "closing"
                                                                        ELSE native[c]]
        /\ held' = held /\ home' = home
    BY <1>7, <2>1 DEF ClosePool
  <2>3. freeConnections \in [Pools -> Seq(Conns)]
    BY <1>0 DEF PlacesNow, Places, PlacesType
  <2>4. \A q \in Pools : q # p => freeConnections'[q] = freeConnections[q]
    BY <2>2, <2>3
  <2>5. ASSUME NEW c \in Conns, native'[c] = "open"
        PROVE  Reachable(c, freeConnections', held', home')
    <3>1. c \notin ToSet(freeConnections[p]) /\ native[c] = "open"
      BY <2>2, <2>5
    <3>2. Reachable(c, freeConnections, held, home)
      BY <3>1 DEF NoneLostNow, NoneLost
    <3>3. CASE c \in ToSet(freeConnections[home[c]])
      <4>1. home[c] # p /\ home[c] \in Pools
        BY <1>0, <3>1, <3>3
      <4> QED
        BY <2>2, <2>4, <3>3, <4>1 DEF Reachable
    <3>4. CASE \E u \in Users : held[u] = c
      BY <2>2, <3>4 DEF Reachable
    <3> QED
      BY <3>2, <3>3, <3>4 DEF Reachable
  <2> QED
    BY <2>5 DEF NoneLostNow, NoneLost
<1>8. ASSUME NEW u \in Clients, NEW p \in Pools, PoolConnect(u, p) \/ PoolQuery(u, p)
      PROVE  NoneLostNow'
  <2>1. /\ pc[u] = "idle" /\ UNCHANGED <<native, home>>
        /\ \E waits, gets : Connect(u, p, 0, waits, gets)
    BY <1>8 DEF PoolConnect, PoolQuery
  <2> QED
    BY <1>0, <2>1, ConnectReaches
<1>9. ASSUME NEW u \in Clients, CloseConnection(u) \/ PoolQueryEnds(u)
      PROVE  NoneLostNow'
  <2>1. u \in Users /\ u \notin Pools
    BY <1>0, UsersAssumption
  <2>2. pc[u] \in HoldStates /\ \E style : GiveUp(u, "idle", style)
    BY <1>9 DEF CloseConnection, PoolQueryEnds, HoldStates
  <2> QED
    BY <1>0, <2>1, <2>2, GiveUpReaches
<1>10. ASSUME NEW c \in Conns, NativeCloseEnds(c)
       PROVE  NoneLostNow'
  <2>1. PICK outcome \in {"none", "broken"} : native' = [native EXCEPT ![c] = outcome]
    BY <1>10 DEF NativeCloseEnds
  <2>2. UNCHANGED <<freeConnections, home, held>>
    BY <1>10 DEF NativeCloseEnds
  <2>3. \A x \in Conns : native'[x] = "open" => native[x] = "open"
    BY <1>0, <2>1
  <2> QED
    BY <2>2, <2>3 DEF NoneLostNow, NoneLost, Reachable
<1>11. ASSUME UNCHANGED poolVars
       PROVE  NoneLostNow'
  BY <1>1, <1>11 DEF poolVars
<1> QED
  BY <1>2, <1>3, <1>4, <1>5, <1>6, <1>7, <1>8, <1>9, <1>10, <1>11
     DEF Next, PoolStep, ClientStep, QueueContinues, vars

\* Where nobody closes a pool with a callback, an open connection is free or with a
\* user, who can close it (Pool.js:78-109, 200-263, 328-356, 422-450).
THEOREM NeverLost ==
  ASSUME FreeOnesClosed
  PROVE  Spec => []NoConnectionLost
<1>1. Init => NoneLostNow
  BY DEF Init, NoneLostNow, NoneLost
<1>2. IInv /\ NoneLostNow /\ [Next]_vars => NoneLostNow'
  BY NoneLostStep
<1>3. NoneLostNow => NoConnectionLost
  BY DEF NoneLostNow, NoneLost, Reachable, NoConnectionLost
<1> QED
  BY Inductive, <1>1, <1>2, <1>3, PTL DEF Spec


-----------------------------------------------------------------------------
(* Both counters that decide growth are exact where no native call fails   *)
(* and promises are used: a failed connect never leaves the first one      *)
(* (Pool.js:409-414), and close() with a callback never leaves the second  *)
(* (Pool.js:450) in a pool that does not reuse connections.                *)

\* The native connections that p made and that are not freed.
Made(n, o, p) == {c \in Conns : n[c] # "none" /\ o[c] = p}

CreatingInv == \A p \in Pools : connectionsBeingCreatedCount[p] = Attempts(p)

MadeInv ==
    /\ \A c \in Conns : native[c] \in {"none", "open", "closing"}
    /\ \A p \in Pools : /\ IsFiniteSet(Made(native, home, p))
                        /\ poolSize[p] = Cardinality(Made(native, home, p))

NoFailuresNoCallbacks == Failures = {} /\ "callback" \notin Styles

\* increasePoolSize(k) counts what it asks for.
LEMMA IncreaseExact ==
  ASSUME QueueInv, CountersType, CreatingInv, NEW p \in Pools, NEW k \in Nat,
         IncreasePoolSize(p, k), maxActivelyConnecting' \in Nat
  PROVE  CreatingInv'
<1>1. /\ connectionsBeingCreatedCount' = [connectionsBeingCreatedCount EXCEPT ![p] = @ + k]
      /\ Enqueue(p, k)
  BY DEF IncreasePoolSize
<1>2. connectionsBeingCreatedCount \in [Pools -> Int]
  BY DEF CountersType
<1>3. ASSUME NEW q \in Pools
      PROVE  connectionsBeingCreatedCount'[q] = Attempts(q)'
  <2>1. Attempts(q)' = Attempts(q) + IF q = p THEN k ELSE 0
    BY <1>1, EnqueueCounts
  <2>2. connectionsBeingCreatedCount[q] = Attempts(q)
    BY DEF CreatingInv
  <2>3. connectionsBeingCreatedCount'[q] =
          connectionsBeingCreatedCount[q] + IF q = p THEN k ELSE 0
    BY <1>1, <1>2
  <2> QED
    BY <2>1, <2>2, <2>3
<1> QED
  BY <1>3 DEF CreatingInv

\* The attempts of a pool are counted from the moment they are asked for until
\* their connect has ended.
LEMMA CreatingStep ==
  ASSUME NoFailuresNoCallbacks, IInv, CreatingInv, [Next]_vars
  PROVE  CreatingInv'
<1>0. /\ QueueInv /\ CountersType
      /\ maxActivelyConnecting \in Nat
      /\ connectionsBeingCreatedCount \in [Pools -> Int]
      /\ \A u \in Users : pc[u] \in HoldStates => home[held[u]] \in Pools
      /\ Pools \subseteq Users /\ Clients \subseteq Users
      /\ "holding" \in HoldStates /\ "querying" \in HoldStates
  BY Basics DEF Users, HoldStates, CountersType, QueueInv, QueueTypeOK
<1>1. \A p \in Pools : /\ Config[p].initialSize \in Nat
                       /\ Config[p].incrementSize \in Nat
                       /\ Config[p].maxActivelyConnecting \in Nat \cup {Unset}
  BY ConfigAssumption DEF ConfigType
<1>2. ASSUME UNCHANGED <<queueVars, connectionsBeingCreatedCount>>
      PROVE  CreatingInv'
  BY <1>2 DEF CreatingInv, Attempts, EntriesOf, queueVars
<1>3. ASSUME NEW p \in Pools, NEW u, NEW more \in Nat, NEW waits, NEW gets,
             Connect(u, p, more, waits, gets), maxActivelyConnecting' \in Nat
      PROVE  CreatingInv'
  <2>1. PICK k \in Nat : IncreasePoolSize(p, k)
    <3>1. more + Config[p].incrementSize \in Nat /\ more + 0 \in Nat /\ more \in Nat
      BY <1>1
    <3> QED
      BY <1>3, <3>1 DEF Connect
  <2> QED
    BY <1>0, <1>3, <2>1, IncreaseExact
<1>4. ASSUME NEW u \in Users, pc[u] \in HoldStates, NEW after, NEW style,
             GiveUp(u, after, style)
      PROVE  CreatingInv'
  <2>1. CASE Config[home[held[u]]].reuseConnections
    BY <1>2, <1>4, <2>1 DEF GiveUp
  <2>2. CASE ~Config[home[held[u]]].reuseConnections
    <3>1. /\ IncreasePoolSize(home[held[u]], 1)
          /\ maxActivelyConnecting' = maxActivelyConnecting
      BY <1>4, <2>2 DEF GiveUp
    <3> QED
      BY <1>0, <1>4, <3>1, IncreaseExact
  <2> QED
    BY <2>1, <2>2
<1>5. ASSUME NEW p \in Pools, StartPool(p)
      PROVE  CreatingInv'
  <2>1. maxActivelyConnecting' \in Nat
    BY <1>0, <1>1, <1>5 DEF StartPool
  <2> QED
    BY <1>1, <1>3, <1>5, <2>1 DEF StartPool
<1>6. ASSUME NEW p \in Pools, InitReturns(p) \/ \E style \in Styles : ClosePool(p, style)
      PROVE  CreatingInv'
  BY <1>2, <1>6 DEF InitReturns, ClosePool
<1>7. ASSUME NEW p \in Pools, InitCloses(p)
      PROVE  CreatingInv'
  BY <1>0, <1>4, <1>7 DEF InitCloses
<1>8. ASSUME NEW p \in Pools, NEW c \in Conns, ConnectSucceeds(p, c)
      PROVE  CreatingInv'
  <2>1. /\ AttemptEnds(p)
        /\ connectionsBeingCreatedCount' = [connectionsBeingCreatedCount EXCEPT ![p] = @ - 1]
    BY <1>8 DEF ConnectSucceeds
  <2>2. ASSUME NEW q \in Pools
        PROVE  connectionsBeingCreatedCount'[q] = Attempts(q)'
    <3>1. Attempts(q)' = Attempts(q) - IF q = p THEN 1 ELSE 0
      BY <1>0, <2>1, AttemptEndsCounts
    <3>2. connectionsBeingCreatedCount[q] = Attempts(q)
      BY DEF CreatingInv
    <3>3. connectionsBeingCreatedCount'[q] =
            connectionsBeingCreatedCount[q] - IF q = p THEN 1 ELSE 0
      BY <1>0, <2>1
    <3> QED
      BY <3>1, <3>2, <3>3
  <2> QED
    BY <2>2 DEF CreatingInv
<1>9. ASSUME NEW p \in Pools, ConnectFails(p) \/ ConnectFailsUnderQuery(p)
      PROVE  CreatingInv'
  BY <1>9 DEF ConnectFails, ConnectFailsUnderQuery, NoFailuresNoCallbacks
<1>10. ASSUME NEW u \in Clients, NEW p \in Pools, PoolConnect(u, p) \/ PoolQuery(u, p)
       PROVE  CreatingInv'
  <2>1. maxActivelyConnecting' \in Nat /\ 0 \in Nat
    BY <1>0, <1>10 DEF PoolConnect, PoolQuery
  <2>2. \E waits, gets : Connect(u, p, 0, waits, gets)
    BY <1>10 DEF PoolConnect, PoolQuery
  <2> QED
    BY <1>3, <2>1, <2>2
<1>11. ASSUME NEW u \in Clients, CloseConnection(u) \/ PoolQueryEnds(u)
       PROVE  CreatingInv'
  BY <1>0, <1>4, <1>11 DEF CloseConnection, PoolQueryEnds
<1>12. ASSUME NEW c \in Conns, NativeCloseEnds(c)
       PROVE  CreatingInv'
  BY <1>2, <1>12 DEF NativeCloseEnds
<1>13. CASE QueueContinues
  <2>1. \A q \in Pools : Attempts(q)' = Attempts(q)
    BY <1>0, <1>13, SlotFreedCounts DEF QueueContinues
  <2>2. connectionsBeingCreatedCount' = connectionsBeingCreatedCount
    BY <1>13 DEF QueueContinues, poolVars
  <2> QED
    BY <2>1, <2>2 DEF CreatingInv
<1>14. CASE UNCHANGED vars
  BY <1>2, <1>14 DEF vars, poolVars
<1> QED
  BY <1>5, <1>6, <1>7, <1>8, <1>9, <1>10, <1>11, <1>12, <1>13, <1>14
     DEF Next, PoolStep, ClientStep

\* A connection is counted from the end of its connect until its close has ended.
LEMMA MadeStep ==
  ASSUME NoFailuresNoCallbacks, IInv, MadeInv, [Next]_vars
  PROVE  MadeInv'
<1>0. /\ PlacesNow /\ CountersType
      /\ poolSize \in [Pools -> Int]
      /\ native \in [Conns -> NativeStates] /\ home \in [Conns -> Pools]
      /\ \A u \in Users : pc[u] \in HoldStates =>
           held[u] \in Conns /\ native[held[u]] = "open"
      /\ Pools \subseteq Users /\ Clients \subseteq Users
      /\ "holding" \in HoldStates /\ "querying" \in HoldStates
  BY Basics DEF Users, HoldStates, CountersType
<1>1. ASSUME home' = home, poolSize' = poolSize,
             \A c \in Conns : \/ native'[c] = native[c]
                              \/ native[c] = "open" /\ native'[c] = "closing"
      PROVE  MadeInv'
  <2>1. \A c \in Conns : /\ native'[c] \in {"none", "open", "closing"}
                         /\ native'[c] # "none" <=> native[c] # "none"
    BY <1>1 DEF MadeInv
  <2>2. \A p \in Pools : Made(native, home, p)' = Made(native, home, p)
    BY <1>1, <2>1 DEF Made
  <2>3. \A p \in Pools : /\ IsFiniteSet(Made(native, home, p))
                         /\ poolSize[p] = Cardinality(Made(native, home, p))
    BY DEF MadeInv
  <2> QED
    BY <1>1, <2>1, <2>2, <2>3 DEF MadeInv
<1>2. ASSUME UNCHANGED <<native, home, poolSize>>
      PROVE  MadeInv'
  BY <1>1, <1>2
<1>3. ASSUME NEW u \in Users, pc[u] \in HoldStates, NEW after, GiveUp(u, after, "promise")
      PROVE  MadeInv'
  <2>1. CASE Config[home[held[u]]].reuseConnections
    BY <1>2, <1>3, <2>1 DEF GiveUp
  <2>2. CASE ~Config[home[held[u]]].reuseConnections
    <3>1. /\ native' = [native EXCEPT ![held[u]] = "closing"]
          /\ home' = home /\ poolSize' = poolSize
      BY <1>3, <2>2 DEF GiveUp
    <3>2. \A c \in Conns : \/ native'[c] = native[c]
                           \/ native[c] = "open" /\ native'[c] = "closing"
      BY <1>0, <1>3, <3>1
    <3> QED
      BY <1>1, <3>1, <3>2
  <2> QED
    BY <2>1, <2>2
<1>4. ASSUME NEW p \in Pools,
             StartPool(p) \/ InitReturns(p) \/ ConnectFails(p) \/ ConnectFailsUnderQuery(p)
      PROVE  MadeInv'
  BY <1>2, <1>4 DEF StartPool, InitReturns, ConnectFails, ConnectFailsUnderQuery
<1>5. ASSUME NEW p \in Pools, InitCloses(p)
      PROVE  MadeInv'
  BY <1>0, <1>3, <1>5 DEF InitCloses
<1>6. ASSUME NEW p \in Pools, NEW c \in Conns, ConnectSucceeds(p, c)
      PROVE  MadeInv'
  <2>1. PICK n, o, y : n = native' /\ o = home' /\ y = poolSize'
    OBVIOUS
  <2>2. /\ native[c] = "none"
        /\ n = [native EXCEPT ![c] = "open"]
        /\ o = [home EXCEPT ![c] = p]
        /\ y = [poolSize EXCEPT ![p] = @ + 1]
    BY <1>6, <2>1 DEF ConnectSucceeds
  <2>3. /\ n[c] = "open" /\ o[c] = p
        /\ \A x \in Conns : x # c => n[x] = native[x] /\ o[x] = home[x]
        /\ \A q \in Pools : y[q] = IF q = p THEN poolSize[q] + 1 ELSE poolSize[q]
    BY <1>0, <2>2
  <2>4. \A x \in Conns : n[x] \in {"none", "open", "closing"}
    BY <2>3 DEF MadeInv
  <2>5. ASSUME NEW q \in Pools
        PROVE  IsFiniteSet(Made(n, o, q)) /\ y[q] = Cardinality(Made(n, o, q))
    <3>1. /\ IsFiniteSet(Made(native, home, q))
          /\ poolSize[q] = Cardinality(Made(native, home, q))
      BY DEF MadeInv
    <3>2. c \notin Made(native, home, q)
      BY <2>2 DEF Made
    <3>3. CASE q = p
      <4>1. Made(n, o, q) = Made(native, home, q) \cup {c}
        BY <2>3, <3>3 DEF Made
      <4> QED
        BY <2>3, <3>1, <3>2, <3>3, <4>1, FS_AddElement
    <3>4. CASE q # p
      <4>1. Made(n, o, q) = Made(native, home, q)
        BY <2>2, <2>3, <3>4 DEF Made
      <4> QED
        BY <2>3, <3>1, <3>4, <4>1
    <3> QED
      BY <3>3, <3>4
  <2> QED
    BY <2>1, <2>4, <2>5 DEF MadeInv
<1>7. ASSUME NEW p \in Pools, NEW style \in Styles, ClosePool(p, style)
      PROVE  MadeInv'
  <2>1. style = "promise"
    BY <1>7, OptionsAssumption DEF NoFailuresNoCallbacks
  <2>2. /\ native' = [c \in Conns |-> IF c \in ToSet(freeConnections[p]) THEN "closing"
                                                                        ELSE native[c]]
        /\ home' = home /\ poolSize' = poolSize
    BY <1>7, <2>1 DEF ClosePool
  <2>3. \A c \in ToSet(freeConnections[p]) : native[c] = "open"
    BY <1>0 DEF PlacesNow, Places, FreeInv
  <2>4. \A c \in Conns : \/ native'[c] = native[c]
                         \/ native[c] = "open" /\ native'[c] = "closing"
    BY <2>2, <2>3
  <2> QED
    BY <1>1, <2>2, <2>4
<1>8. ASSUME NEW u \in Clients, NEW p \in Pools, PoolConnect(u, p) \/ PoolQuery(u, p)
      PROVE  MadeInv'
  BY <1>2, <1>8 DEF PoolConnect, PoolQuery
<1>9. ASSUME NEW u \in Clients, CloseConnection(u) \/ PoolQueryEnds(u)
      PROVE  MadeInv'
  <2>1. pc[u] \in HoldStates /\ u \in Users
    BY <1>0, <1>9 DEF CloseConnection, PoolQueryEnds
  <2>2. GiveUp(u, "idle", "promise")
    BY <1>9, OptionsAssumption DEF CloseConnection, PoolQueryEnds, NoFailuresNoCallbacks
  <2> QED
    BY <1>3, <2>1, <2>2
<1>10. ASSUME NEW c \in Conns, NativeCloseEnds(c)
       PROVE  MadeInv'
  <2>1. native[c] = "closing"
    BY <1>10 DEF NativeCloseEnds, MadeInv
  <2>2. PICK n, y : n = native' /\ y = poolSize'
    OBVIOUS
  <2>3. /\ n = [native EXCEPT ![c] = "none"]
        /\ y = [poolSize EXCEPT ![home[c]] = @ - 1]
        /\ home' = home
    BY <1>10, <2>1, <2>2 DEF NativeCloseEnds, NoFailuresNoCallbacks
  <2>4. /\ \A x \in Conns : n[x] = IF x = c THEN "none" ELSE native[x]
        /\ \A q \in Pools : y[q] = IF q = home[c] THEN poolSize[q] - 1 ELSE poolSize[q]
    BY <1>0, <2>3
  <2>5. \A x \in Conns : n[x] \in {"none", "open", "closing"}
    BY <2>4 DEF MadeInv
  <2>6. ASSUME NEW q \in Pools
        PROVE  IsFiniteSet(Made(n, home, q)) /\ y[q] = Cardinality(Made(n, home, q))
    <3>1. /\ IsFiniteSet(Made(native, home, q))
          /\ poolSize[q] = Cardinality(Made(native, home, q))
      BY DEF MadeInv
    <3>2. Made(n, home, q) = Made(native, home, q) \ {c}
      BY <2>4 DEF Made
    <3>3. c \in Made(native, home, q) <=> q = home[c]
      BY <2>1 DEF Made
    <3> QED
      BY <2>4, <3>1, <3>2, <3>3, FS_RemoveElement
  <2> QED
    BY <2>2, <2>3, <2>5, <2>6 DEF MadeInv
<1>11. ASSUME UNCHANGED poolVars
       PROVE  MadeInv'
  BY <1>2, <1>11 DEF poolVars
<1> QED
  BY <1>4, <1>5, <1>6, <1>7, <1>8, <1>9, <1>10, <1>11
     DEF Next, PoolStep, ClientStep, QueueContinues, vars

\* What connect() compares with maxSize is what there is and what there will be, for
\* any pools and any number of connections (Pool.js:211-215, 417-418, 440, 462).
THEOREM CountsStayExact ==
  ASSUME NoFailuresNoCallbacks
  PROVE  Spec => []CountsExact
<1>1. Init => CreatingInv /\ MadeInv
  <2> SUFFICES ASSUME Init
               PROVE  CreatingInv /\ MadeInv
    OBVIOUS
  <2>1. /\ queuedConnections = <<>> /\ connecting = <<>>
        /\ connectionsBeingCreatedCount = [p \in Pools |-> 0]
        /\ poolSize = [p \in Pools |-> 0]
        /\ native = [c \in Conns |-> "none"]
    BY DEF Init, QueueInit
  <2>2. \A p \in Pools : {i \in DOMAIN <<>> : <<>>[i] = p} = {}
    OBVIOUS
  <2>3. \A p \in Pools : Attempts(p) = 0
    BY <2>1, <2>2, FS_EmptySet DEF Attempts, EntriesOf
  <2>4. \A p \in Pools : Made(native, home, p) = {}
    BY <2>1 DEF Made
  <2> QED
    BY <2>1, <2>3, <2>4, FS_EmptySet DEF CreatingInv, MadeInv
<1>2. IInv /\ CreatingInv /\ MadeInv /\ [Next]_vars => CreatingInv' /\ MadeInv'
  BY CreatingStep, MadeStep
<1>3. CreatingInv /\ MadeInv => CountsExact
  BY DEF CreatingInv, MadeInv, Attempts, Made, CountsExact
<1> QED
  BY Inductive, <1>1, <1>2, <1>3, PTL DEF Spec

=============================================================================
