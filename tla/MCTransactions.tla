--------------------------- MODULE MCTransactions ---------------------------
(* Instances of module Transactions for TLC.                               *)
EXTENDS Transactions, TLC

Symmetry == Permutations(Users) \cup Permutations(Conns) \cup Permutations(Works)
              \cup Permutations(Calls)
=============================================================================
