------------------------------ MODULE Lending ------------------------------
(***************************************************************************)
(* What connection pools promise their users, without saying how: whoever  *)
(* asks a pool waits in one line per pool; a connection is lent to at most *)
(* one user at a time; the line is served from its front, and nobody is    *)
(* served past it. A user at the front may instead be refused.             *)
(***************************************************************************)
EXTENDS Sequences, Naturals

CONSTANTS Pools, Users, Conns, NoConn

VARIABLES
    line,   \* [Pools -> Seq(Users)]: who waits, longest first
    lent    \* [Users -> Conns or NoConn]

lendingVars == <<line, lent>>

Waits(u) == \E p \in Pools : \E i \in 1..Len(line[p]) : line[p][i] = u
Available(c) == \A u \in Users : lent[u] # c

LendingInit ==
    /\ line = [p \in Pools |-> <<>>]
    /\ lent = [u \in Users |-> NoConn]

\* User u joins the line of pool p.
Ask(p, u) ==
    /\ ~Waits(u)
    /\ lent[u] = NoConn
    /\ line' = [line EXCEPT ![p] = Append(@, u)]
    /\ UNCHANGED lent

\* User u asks when nobody waits, and is served on the spot.
LendAtOnce(p, u, c) ==
    /\ line[p] = <<>>
    /\ ~Waits(u)
    /\ lent[u] = NoConn
    /\ Available(c)
    /\ lent' = [lent EXCEPT ![u] = c]
    /\ UNCHANGED line

\* The first in line is served with a connection nobody has.
Serve(p, c) ==
    /\ line[p] # <<>>
    /\ Available(c)
    /\ lent' = [lent EXCEPT ![Head(line[p])] = c]
    /\ line' = [line EXCEPT ![p] = Tail(@)]

\* The first in line is told there will be none.
Refuse(p) ==
    /\ line[p] # <<>>
    /\ line' = [line EXCEPT ![p] = Tail(@)]
    /\ UNCHANGED lent

\* User u brings its connection back.
Return(u) ==
    /\ lent[u] # NoConn
    /\ lent' = [lent EXCEPT ![u] = NoConn]
    /\ UNCHANGED line

\* User u brings its connection back and the first in line has it at once.
HandOver(p, u) ==
    /\ lent[u] # NoConn
    /\ line[p] # <<>>
    /\ lent' = [lent EXCEPT ![u] = NoConn, ![Head(line[p])] = lent[u]]
    /\ line' = [line EXCEPT ![p] = Tail(@)]

LendingNext ==
    \/ \E p \in Pools, u \in Users : Ask(p, u) \/ HandOver(p, u)
    \/ \E p \in Pools, u \in Users, c \in Conns : LendAtOnce(p, u, c)
    \/ \E p \in Pools, c \in Conns : Serve(p, c)
    \/ \E p \in Pools : Refuse(p)
    \/ \E u \in Users : Return(u)

LendingSpec == LendingInit /\ [][LendingNext]_lendingVars
=============================================================================
