------------------------------ MODULE MCFetch ------------------------------
(* Instances of module Fetch for TLC.                                      *)
EXTENDS Fetch

Value(kind, length, total, initial) ==
    [kind |-> kind, length |-> length, total |-> total, initial |-> initial]

\* Values shorter than, as long as and longer than the first buffer and its double.
SmallValues == [kind : {"char"}, length : {0, 3, 4, 9}, total : BOOLEAN, initial : {1, 4}]
                 \cup [kind : {"wide"}, length : {2, 4, 10}, total : BOOLEAN, initial : {2, 4}]
                 \cup [kind : {"binary"}, length : {0, 3, 5, 9}, total : {TRUE}, initial : {1, 4}]
                 \cup {Value("char", NullData, TRUE, 4)}

Readable1(c) == [readable |-> TRUE, long |-> c]
Unreadable == [readable |-> FALSE, long |-> Bound]

RowSets(rows, n) == {[hasColumns |-> TRUE, rows |-> s] : s \in UNION {[1..k -> rows] : k \in 0..n}}

\* Result sets of one row with any value, and of up to three with a few.
AnyResults == {[hasColumns |-> FALSE, rows |-> <<>>]}
                \cup RowSets({Readable1(c) : c \in SmallValues}, 1)
                \cup RowSets({Readable1(Bound), Readable1(Value("wide", 4, FALSE, 2)), Unreadable}, 3)

\* A driver with all extensions, and one with the fewest.
AnyDrivers == {[block |-> TRUE, simple |-> FALSE], [block |-> FALSE, simple |-> TRUE]}
FullDriver == {[block |-> TRUE, simple |-> FALSE]}

\* Binary data of exactly the size of the first buffer, then another row.
ExactValues == {Value("binary", 4, TRUE, 4)}
ExactResults == {[hasColumns |-> TRUE, rows |-> <<Readable1(c), Readable1(Bound)>>] : c \in ExactValues}

=============================================================================
