------------------------------- MODULE MCPool -------------------------------
(* Instances of module Pool for TLC.                                       *)
EXTENDS Pool

CONSTANTS p1, p2

\* A reusing pool that grows by one, and one that never reuses and that lets two
\* connects of the process run at once.
MixedConfig ==
    (p1 :> [reuseConnections |-> TRUE, initialSize |-> 1, incrementSize |-> 1,
            maxSize |-> 2, maxActivelyConnecting |-> Unset]) @@
    (p2 :> [reuseConnections |-> FALSE, initialSize |-> 1, incrementSize |-> 1,
            maxSize |-> 1, maxActivelyConnecting |-> 2])

\* The reusing pool alone.
SingleConfig == p1 :> MixedConfig[p1]

Symmetry == Permutations(Clients) \cup Permutations(Conns)
=============================================================================
