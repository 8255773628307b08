-------------------------- MODULE ConnectionQueue --------------------------
(***************************************************************************)
(* The process-wide queue of lib/Pool.js through which every pool of the   *)
(* process opens its connections: at most maxActivelyConnecting attempts   *)
(* run at a time, the others wait their turn, whichever pool asked.        *)
(*                                                                         *)
(* An entry of the queue is the pool that asked: the promise generator and *)
(* the configuration an entry carries in the code are functions of it.     *)
(* `connecting` and `settling` are the two phases of an attempt that holds *)
(* a slot: the native connect is running on a libuv thread; or its promise *)
(* is settled and the continuation that gives the slot back has not run.   *)
(***************************************************************************)
EXTENDS Integers, Sequences, FiniteSets, SequencesExt

CONSTANT Pools

VARIABLES
    queuedConnections,        \* Seq(Pools): attempts not started, oldest first
    activelyConnectingCount,  \* slots in use
    maxActivelyConnecting,    \* slots there are; any pool's constructor may set it
    connecting,               \* Seq(Pools): native connects that are running
    settling                  \* settled promises whose slot is not yet given back

queueVars == <<queuedConnections, activelyConnectingCount,
               maxActivelyConnecting, connecting, settling>>

QueueTypeOK ==
    /\ queuedConnections \in Seq(Pools)
    /\ activelyConnectingCount \in Nat
    /\ maxActivelyConnecting \in Nat
    /\ connecting \in Seq(Pools)
    /\ settling \in Nat

QueueInit ==
    /\ queuedConnections = <<>>
    /\ activelyConnectingCount = 0
    /\ maxActivelyConnecting = 1
    /\ connecting = <<>>
    /\ settling = 0

Least(a, b) == IF a <= b THEN a ELSE b

\* The first k entries of `queue` are shifted off and take a slot each, on top
\* of the `used` ones.
StartFirst(k, queue, used) ==
    /\ queuedConnections' = SubSeq(queue, k + 1, Len(queue))
    /\ activelyConnectingCount' = used + k
    /\ connecting' = connecting \o SubSeq(queue, 1, k)

\* How many of n calls to dequeue(), each after one push, find a slot. The limit
\* is read primed: a pool's constructor may set it in the same step.
Startable(n) ==
    IF activelyConnectingCount >= maxActivelyConnecting' THEN 0
    ELSE Least(n, maxActivelyConnecting' - activelyConnectingCount)

\* enqueue(), n times in a row for pool p: each call pushes and then dequeues
\* once, without giving up the thread. With a free slot what it starts is the
\* head of the queue, not necessarily what it pushed.
Enqueue(p, n) ==
    /\ StartFirst(Startable(n), queuedConnections \o [i \in 1..n |-> p],
                  activelyConnectingCount)
    /\ UNCHANGED settling

\* A faulty AttemptEnds, for the mutation checks: the promise stays pending.
AttemptNeverSettles(p) ==
    /\ \E i \in 1..Len(connecting) :
          /\ connecting[i] = p
          /\ connecting' = RemoveAt(connecting, i)
    /\ UNCHANGED <<queuedConnections, activelyConnectingCount, maxActivelyConnecting, settling>>

\* The native connect of an attempt of p ended, well or badly: its promise is
\* settled, and dequeue() will continue in a later microtask.
AttemptEnds(p) ==
    /\ \E i \in 1..Len(connecting) :
          /\ connecting[i] = p
          /\ connecting' = RemoveAt(connecting, i)
    /\ settling' = settling + 1
    /\ UNCHANGED <<queuedConnections, activelyConnectingCount, maxActivelyConnecting>>

\* A faulty SlotFreed, for the mutation checks: dequeue() does not call itself.
SlotFreedOnly ==
    /\ settling > 0
    /\ settling' = settling - 1
    /\ activelyConnectingCount' = activelyConnectingCount - 1
    /\ UNCHANGED <<maxActivelyConnecting, queuedConnections, connecting>>

\* Another: the slot is given back once more than it was taken.
SlotFreedTwice ==
    /\ settling > 0
    /\ settling' = settling - 1
    /\ activelyConnectingCount' = activelyConnectingCount - 2
    /\ UNCHANGED <<maxActivelyConnecting, queuedConnections, connecting>>

\* dequeue() after its await: give the slot back, then call dequeue() again.
SlotFreed ==
    /\ settling > 0
    /\ settling' = settling - 1
    /\ UNCHANGED maxActivelyConnecting
    /\ LET used == activelyConnectingCount - 1
           k == IF used < maxActivelyConnecting THEN Least(1, Len(queuedConnections)) ELSE 0
       IN  StartFirst(k, queuedConnections, used)

-----------------------------------------------------------------------------

\* The queue can always move on: while attempts are queued at least one slot is
\* in use, and the end of that attempt calls dequeue() again. A missed dequeue()
\* would strand every pool of the process (Pool.js:40-60), and so does a limit of
\* 0, which the constructor accepts: the runs and theorems exclude that one.
QueueNeverStalls == queuedConnections # <<>> => connecting # <<>> \/ settling > 0

\* Every slot in use is an attempt that is running or whose promise is settled,
\* and so some step will give it back (Pool.js:49-58).
SlotsAccounted == activelyConnectingCount = Len(connecting) + settling
=============================================================================
